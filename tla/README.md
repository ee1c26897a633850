# Polatory in TLA+

Polatory (the repository in `src/`) interpolates scattered data with radial basis functions: it fits
weights to a million points and more, evaluates the sum, and draws isosurfaces of it. This directory
holds TLA+ modules of the parts of it where states, orders and indices decide whether the numbers
are right, the TLC configurations that check them on small instances, and proofs for TLAPS of what
matters most for every size.

The models follow the control of the code: every state change, guard, early return, error path and
their order. Real numbers are abstracted: a weight is the component that it was computed for, a
point a member of a small set, a residual an arbitrary choice, a coordinate an arbitrary order. What
is asked is therefore never "is the sum right", but "was the right thing summed, once, with nothing
stale, and does it end".

Paths below leave out `src/include/polatory/`, or `src/src/` for files under `fmm/` that hold an
implementation. The lines of every definition are in `PROJECT.json` under "map".

## 1. Inventory

How the parts work together:

    Interpolant -- fit --> Fitter, IncrementalFitter, InequalityFitter
                              | (one Solver over many fits)          | DistanceFilter
                              v
                            Solver -- FGMRES --> Operator (4 blocks, symmetric)
                              |    -- right preconditioner --> RasPreconditioner
                              |    -- convergence test --> ResidualEvaluator --> DirectEvaluator (a few rows)
                              v
        RasPreconditioner --> DomainDivider (levels, domains)
                          --> FineGrid x many, in OpenMP threads --> BinaryCache (one file)
                          --> CoarseGrid
                          --> UnisolventPointSet (points that fix the polynomial)
                          --> Evaluator per pair of levels --> FmmEvaluator per block
    Interpolant -- evaluate --> SymmetricEvaluator, Evaluator
                                --> per rbf four blocks --> make_fmm_evaluator --> FmmEvaluator, direct, both
    VariogramCalculator --> VariogramFitting --> Model --> Interpolant;  cross_validate --> Interpolant x many
    Interpolant -- field function --> Isosurface --> Lattice --> mesh <-- MeshDefectsFinder
                                                 (PrimitiveLattice: nodes in space)    --> MeshClipper

Parts with state of their own, and what makes each correct:

| Part | State | Operations | What is hard | What has to hold |
| --- | --- | --- | --- | --- |
| `preconditioner/binary_cache.hpp` | one file, its position, the table of records, a mutex | `put`, `get` | threads share the file position; the results of `write` and `read` are ignored | a `get` returns the blob that was put under the id, whoever calls in between |
| `fmm/fmm_evaluator.hpp`, `fmm/lru_cache.hpp` | particles, sorted or not, trees, configurations, interpolators, far field, operator | three setters of data, one of accuracy, `evaluate` | six caches that depend on each other, references into an LRU cache, exceptions between any two steps | the passes run over caches that fit the present points, weights and accuracy |
| `fmm/fmm_symmetric_evaluator.hpp` | as above, for one set of points | the same | the same, and the diagonal is added apart | the same |
| `preconditioner/domain_divider.hpp`, `domain.hpp` | the list of domains, flags of inner points | `divide_domains`, `choose_coarse_points` | overlap, flags that are decided anew at each of many divisions, a list that grows while it is iterated, a reference to a popped element | each point inner in one domain; the loops end; as many coarse points as asked for |
| `preconditioner/fine_grid.hpp`, `coarse_grid.hpp` | index maps, factor, id in the cache | `setup`, `solve`, `set_solution_to` | a numbering of its own, three layouts of vectors, packing in place | reads and writes at the rows of its own points; the factor survives the cache |
| `preconditioner/ras_preconditioner.hpp` | levels, grids, residuals, weights | constructor, `operator()` | threads write one vector without a lock; residuals updated on some levels only | no two write one point; a level is solved with exact residuals |
| `krylov/`, `interpolation/solver.hpp`, `residual_evaluator.hpp` | basis of the iteration, rows tested first | `set_points`, `solve` | two tests of convergence, one cheap and one expensive; one object over many problems | rows tested are rows of this problem; a solution that misses values is not returned |
| `interpolation/incremental_fitter.hpp` | centers, weights | `fit` | weights of different components change places as centers are added | a weight stays with its component; the tolerance is met |
| `interpolation/inequality_fitter.hpp` | active sets, centers | `fit` | three numberings of points; sets that come and go; two ways to give up | the result is within its bounds; the loop ends |
| `point_cloud/distance_filter.hpp` | indices that are left | `filter` | order decides who stays | no two that are kept are near |
| `interpolant.hpp` | model, centers, weights, bbox, evaluator | three fits, from nothing, itself or a file; `evaluate`, `save`, `load`, as a field function | a fit from the weights of another; an evaluator that outlives a fit | each component starts from its own weight; what is evaluated is the last fit |
| `isosurface/rmt/` | nodes, values, vertices on edges, seeds | build, generate, refine, cluster | threads number vertices; vertices change their node; nodes of the layer before the last are dropped early | one vertex on each edge across the surface; tracking goes all around |
| `isosurface/isosurface.hpp`, `src/isosurface/mesh_defects_finder.cpp` | lattice, cluster map | `generate`, `generate_from_seed_points`, `clear` | clusters taken back until no defect is left; an exception of the field | what is returned is a manifold with its boundary at the bbox |
| `isosurface/rmt/primitive_lattice.hpp` | bbox, its two extensions, the basis | `position`, `lattice_coordinates_rounded`, `tetrahedron`, `first_lattice_coordinate_range` to `third_lattice_coordinate_range` | a loop over ranges that are sloped cuts through a box; two ways of rounding | every node within reach is added once, before it is looked up |
| `isosurface/clip.hpp` | the triangles of `MeshClipper`, side by side of the bbox | its constructor, which calls `clip` for each triangle, one side at a time | faces that know nothing of their neighbors are cut along the same edges | no crack where two faces meet, no face outside |
| `interpolation/evaluator.hpp`, `symmetric_evaluator.hpp`, `operator.hpp`, `src/fmm/make_fmm_evaluator.cpp`, `fmm/` kernels | evaluators of four blocks for each rbf | setters, `evaluate`, `operator()` | slices of weights, signs of derivatives, accuracy divided between blocks, spheroidal rbfs in two parts | each product is the product with the matrix |
| `interpolation/direct_evaluator.hpp`, `direct_operator.hpp` | points, weights | as above | threads add rows of their own to one vector | the same |
| `kriging/variogram_calculator.hpp` | pairs in bins of lags | calculation in threads | builders per thread merged at the end | each pair once |
| `kriging/variogram_fitting*`, `model.hpp`, `rbf/` | parameters, model, anisotropies | constructor, residuals in the threads of an optimizer, `model()` | models share their rbfs by pointers; an index into one long vector of parameters; axes that may be equal | the model that is returned is the one that was fitted, and is evaluated the same |
| `kriging/cross_validate.hpp` | sets, predictions | `cross_validate` | predictions go back to the rows they are of | each set left out once |
| `point_cloud/normal_estimator.hpp`, `sdf_data_generator.hpp` | normals, points with offsets | `orient_closed_surface` with a priority queue; a loop that shrinks offsets | order of propagation; the end of the loop | every connected point is oriented once; offset points have the point they came from as the nearest |
| `polynomial/` | tables of monomials, points tried | `evaluate`, constructor of `UnisolventPointSet` | rows of values and of derivatives in every dimension; a loop over random draws, which may find no set | columns fit each other; the best set tried is kept and stands first |
| `point_cloud/kdtree.hpp`, `geometry/`, `numeric/`, `krylov/minres` , `cli/`, `python/` | parameters, wrapped libraries | formulas, input, output | little of state | numbers, tested by the unit tests |

Every part is listed in `PROJECT.json` with what is or is not modelled of it, and every hazard with
the line where it bites and the properties that would notice.

The kinds of behaviour met: **threads** (OpenMP loops over grids, over nodes and over bins of pairs;
`BinaryCache` and the `critical` section of `generate_vertices` are the only locks), **exceptions**
(out of memory, accuracy not reached, `max_iter` reached, a field function that throws, too few
distinct points) after which the object is used again, **caches** and what invalidates them, **index
maps** between numberings, **loops** whose end depends on a measure that is not written down. There
are no messages, no timeouts and no recovery: nothing survives the process but files that a user
saves.

## 2. Modules

| Module | Models | Extends or instantiates | Checked by |
| --- | --- | --- | --- |
| `BlobStore` | what `BinaryCache` promises: an append-only store with atomic calls | | as a property |
| `BinaryCache` | the cache, one action per statement that touches shared state | `BlobStore` (refinement) | `MCBinaryCache` |
| `FmmEvaluator` | the chain of caches, each step of `prepare` and `evaluate` an action; configurations, tree heights and what the accuracy search may find | | `MCFmmEvaluator` |
| `FmmSymmetricEvaluator` | the same for one set of points, one tree and one interpolator; what is asked of both evaluators | `FmmEvaluator` | `MCFmmEvaluator` |
| `FmmBlocks` | the evaluators of one block, as sequences of direct and fast parts | | by `Evaluators` |
| `MatrixProduct` | what a product with the interpolation matrix is, from the definition of the matrix | `FmmBlocks` | by the two below |
| `DirectProducts` | `DirectEvaluator`, `DirectOperator` and their threads | `MatrixProduct` (compared with) | `MCFmmEvaluator` |
| `Evaluators` | `Evaluator`, `SymmetricEvaluator`, `Operator`; what is asked of all five classes | `DirectProducts` | `MCFmmEvaluator` |
| `DomainDivider` | division into domains, merge of polynomial points | | `MCPreconditioner` |
| `CoarsePoints` | `choose_coarse_points` | | `MCPreconditioner` |
| `MultilevelCycle` | one application as a sequence of whole corrections | | as a property |
| `RasPreconditioner` | constructor and application by threads, point by point | `MultilevelCycle` (extended, and refined) | `MCPreconditioner` |
| `FineGrid` | one grid: rows, positions, packing | | `MCPreconditioner` |
| `Polynomials` | the table of monomials and their derivatives | | by `PolynomialPoints` |
| `PolynomialPoints` | `UnisolventPointSet`, and the points of the finest level behind it | `Polynomials` | `MCPreconditioner` |
| `DistanceFilter` | the greedy filter, as operators | | by the fitters |
| `NormalEstimator` | estimates and orientations of normals, a queue of pairs | | `MCInterpolation` |
| `SdfDataGenerator` | points with offsets along normals | `NormalEstimator` | `MCInterpolation` |
| `VariogramCalculator` | pairs of points into bins, by threads | | `MCInterpolation` |
| `Models` | parameters, slices and anisotropies of models, as operators | | by `VariogramFitting` |
| `VariogramFitting` | the fit of a model to variograms, with the threads of the optimizer | `Models` | `MCInterpolation` |
| `Description` | the angles that a description of a model gives | `VariogramFitting` | `MCInterpolation` |
| `CrossValidation` | `cross_validate`; what is asked of fits, descriptions and validations | `Description` | `MCInterpolation` |
| `InequalityFitter` | the loop of `fit` | `DistanceFilter` | `MCInterpolation` |
| `IncrementalFitter` | the loop of `fit`; what is asked of both fitters | `InequalityFitter` | `MCInterpolation` |
| `Solver` | `Solver`, `ResidualEvaluator`, iterations | | `MCInterpolation` |
| `Interpolant` | the life of an interpolant | | `MCInterpolation` |
| `Rmt` | geometry of the lattice: neighbors, tetrahedra, links | | by `Lattice` |
| `Lattice` | building, tracking, vertices | `Rmt` | `MCIsosurface` |
| `Isosurface` | calls, clusters, mesh | `Lattice` | `MCIsosurface` |
| `PrimitiveLattice` | where the nodes are, the ranges of nodes, the tetrahedron around a point | | `MCIsosurface` |
| `Clipping` | `MeshClipper` | | `MCIsosurface` |
| `MeshDefects` | `intersecting_faces` | | `MCIsosurface` |
| `BinaryCacheProofs` | theorems of the cache and of its refinement | `BinaryCache` | TLAPS |
| `FmmEvaluatorProofs` | theorems of both evaluators, and of the products by blocks | `FmmSymmetricEvaluator`, `Evaluators`, `DirectProductsProofs` | TLAPS |
| `DirectProductsProofs` | theorems of the products by threads, and of sums of terms | `DirectProducts` | TLAPS |
| `DomainDividerProofs` | theorems of the divider, of the coarse points and of the points that fix the polynomial | `DomainDivider`, `CoarsePoints`, `PolynomialPoints` | TLAPS |
| `RasPreconditionerProofs` | theorems of the cycle, of its threads and of one grid | `RasPreconditioner`, `FineGrid` | TLAPS |
| `InterpolantProofs` | theorems of the interpolant, of the solver and of the adaptive fitters | `Interpolant`, `Solver`, `IncrementalFitter` | TLAPS |
| `DataProofs` | theorems of normals, offsets and variograms; of fitted models, their descriptions and cross validation | `InterpolantProofs`, `VariogramCalculator`, `SdfDataGenerator`, `CrossValidation` | TLAPS |
| `IsosurfaceProofs` | theorems of the lattice and of the mesh | `Isosurface` | TLAPS |

`MCInterpolation` checks ten components, `MCPreconditioner` five, `MCFmmEvaluator` four and
`MCIsosurface` four, side by side: a variable `part` says which one moves, and the others stay in
one initial state. The components of one MC module share no state in the code; they hand each other
results, and each model starts from any result the other may hand over. An MC module extends the
components that are proved about, so that a run and a theorem speak of the same definitions, and
instantiates those of which TLC alone speaks: the second cache, the lattice in space, the clipping
and the search for faces that intersect. Modules that are extended together share one space of
names, so where two of them have an operation or a variable of one name, one says which it means:
`LoadBuilder`, `SetupGrid`, `SymThrow`, `PolyInit`, `CrossNext`, `SetDirectWeights`, `ApplyPairs`,
`boundPc`.

### BinaryCache

`file` is the file as a sequence of cells, `pos` the position of its descriptor, `records` the
vector `records_` with the empty record that the constructor puts first, `owner` the mutex. A thread
(`pc`, `call`, `local`) locks, seeks, transfers, and for `put` reads `records_.size()` and pushes a
record: `Lock`, `SeekEnd`, `Write`, `Number`, `PushRecord`, and `Lock`, `SeekRecord`, `Read`.
`ShortWrite` stores a proper prefix; the code ignores that and so does `put`. A `Read` past the end
leaves `Junk` in the buffer. `MCBinaryCache` checks one cache whose writes are complete and, in
another `part`, one whose writes may be short.

### FmmEvaluator, FmmSymmetricEvaluator

Points and weights are opaque. Each cache remembers what it was made from: a tree its height, order,
points, depth of sorting and weights, an entry of `best_config_` the accuracy and points it was
searched for, `far_field_` and `fmm_operator_` the interpolator they refer to. `srcLevel` is what
the code believes of the order of the particles, `srcDepth` (a history variable) what is true. The
steps of `prepare`: `PrepareDirect` or `Sort`; `LookUp` or `Search`; `KeepInterpolator` or
`ChangeInterpolator`, `MakeFarField`, `MakeOperator`; `MakeSourceTree`, `MakeTargetTree`; and of
`evaluate`: `Upward`, `BuildM2LLists`, `BuildP2PLists`, `Downward`, or `Direct`, and then `Release`,
which reads the potentials and lets both trees go. The target tree holds lists of interactions that
refer into a source tree, built only if its flags say that it has none: `m2lLists` and `p2pLists`
are "none", into the "present" source tree, or into one that is "gone". A setter of sources alone
leaves a target tree with its lists where a call threw before `Release`. `Throw` leaves `evaluate`
before a step that allocates, `SearchFails` from the search, which has inserted an entry already.
The symmetric evaluator replaces its one interpolator instead of keeping two in a cache
(`SymChangeInterpolator` leaves far field and operator `Dangling` for a step), runs all `Passes` in
every call (the lists of its one tree are into that tree, and go with it) and adds the diagonal in
`Finish`, from the tree or from the particles. scalfmm is external: trees keep copies of the
particles they were built from.

### FmmBlocks, MatrixProduct, Evaluators, DirectProducts

A number is a bag of terms: an entry of the matrix (rbf, derivatives along both points, the pair of
points) with its sign and the weight that it is multiplied with. Two sums are equal when their bags
are, so that a term that is missing, counted twice, of a wrong sign or with the weight of another
row shows. `FmmBlocks` has what `make_fmm_evaluator` and its five siblings return for the name of an
rbf: one direct part for bounded support (`Compact`), one fast part, or both for the spheroidal
covariances, whose direct part adds the difference within its range; and which derivative stands in
which place of the kernels. `MatrixProduct` is written from the matrix alone (values and gradients
by values and gradients, and the monomials), and is what all five classes are compared with.

In `Evaluators`, `SetBlockSources`, `SetBlockTargets`, `SetBlockPoints`, `SetBlockWeights` hand each
of the blocks `a`, `f`, `ft`, `h` its points and its slice of the weights, and `EvaluateBlocks` and
`Apply` add the results up. `given` (history) is what the caller gave last; `y` is compared with the
product of `given`, and so is the sum of the accuracies of all parts with the accuracy asked for. In
`DirectProducts` the setters and calls are those of the two direct classes (`SetDirectSources` to
`SetDirectWeights`, `EvaluatePairs`, `ApplyPairs`). Threads share the rows of the rbf whose `turn`
it is (`Work` sums up what is `Mine`: `RowSums`, over all `Pairs` of a part of the rbf and a point
within its reach), and add their vectors in the critical section (`Enter`, then `Leave`, load and
store apart); `NextRbf` is the barrier, `FinishPairs` adds the polynomial.

### DomainDivider, CoarsePoints

`kept` and `rest` are the list of domains before and behind the iterator of `divide_domains`.
`KeepOne` passes a domain that is a leaf; `DivideOne` replaces one by two halves that overlap, with
the middle, the quarter points and the banker's rounding of the code, where a point with a gradient
counts `Dim` times. Any of `Orders` may be the one along the longest axis. `MergeOne` puts the
polynomial points in front. `CoarsePoints` has the queue as a set of `clusters`; `LevelSeen` is the
level that the code reads through a reference to the element that was just popped: that of whatever
lies there now. `LevelsClose` says what is left of the order by levels.

### MultilevelCycle, RasPreconditioner

The residual of a point is not a number but the set of corrections that it accounts for (`taken`),
and `added` is the set of corrections made so far; a residual is exact when the two agree.
`MultilevelCycle` goes through the plan of `operator()`: solve and update down to the coarsest level
and back, one action for a whole solve. In `RasPreconditioner` a solve on the finer levels is an
OpenMP loop: `BeginSolve`, then a thread takes the next grid (`TakeGrid`), loads its factor
(`SolveGrid`), writes its inner points one at a time (`WritePoint`), `EndGrid`, and `EndSolve` is
the barrier. The constructor runs the same loop with `Setup`, in which each grid puts its factor
into one cache.

### FineGrid

An entry of a matrix is its row and column, an entry of a vector its position in the vector of the
whole problem, so that a mix-up of rows shows as a wrong name. `PackRow`, `Put`, `UnpackRow` are the
loops of `save_ldlt_of_qtaq` and `load_ldlt_of_qtaq` over the memory of the factor, row by row with
the overlap of copies; `SetSolution` writes. The differences of `CoarseGrid` are under `fine =
FALSE`.

### Polynomials, PolynomialPoints

`Polynomials` is the table of `MonomialBasis`: a row of values for a point, rows of derivatives for
a gradient, at integer coordinates. `PolynomialPoints` draws sets of indices (`Draw`), judges one by
its determinant (`Try`), keeps the best after `NumTrials` (`Choose`) or gives up (`Fail`); `Start`
and `StartWithout` are the constructor with and without a polynomial. `order` is `point_idcs_` of
the finest level, the points of the best set first.

### InequalityFitter, IncrementalFitter, DistanceFilter, Solver, Interpolant

The fitters are loops: `FitActive`, then `Update` of the active bounds, and `FitCenters`, then
`SelectCenters`, with `BoundThrow` and `IncThrow` where the distance filter throws (the distance
became too small for any two points to be near) and `BoundSolverThrows` and `IncSolverThrows`. What
a fit makes of the points that are no centers is arbitrary, out of `FitValues` or above and below
the tolerance. A weight of the incremental fitter is the component it was computed for; `Carried` is
the assembly of the new vector from the old one. `Solver` is one solver over many calls: `Start`
chooses the rows (`SetValues`) and does the tests before the first iteration, `Iterate` is one
iteration with any outcome, a breakdown included, and the tests after it. `Interpolant` has the
fields of the class, a file, and the call in flight; a fit ends well (`EndFit`) with any choice of
centers that its fitter may make, or fails (`FailFit`). With fewer centers than the polynomial has
terms the weights are zeros: as many as for any centers from the incremental fitter, but only as
many as there are terms from the one with bounds (`Returned`, `FewWeights`).

### Models, VariogramFitting, Description, CrossValidation

`Models` has the vector of parameters of a model (nugget, then each rbf) and its slices, with bounds
by class. In `VariogramFitting` the rbfs are objects that a template and the copies of it point to
(`objects`), as a copy of a `Model` copies pointers or rbfs. The optimizer is external: it evaluates
the start, tries any of a set of points within the bounds (`Try`), accepts the point evaluated or
not (`Accept`, which asks for derivatives), and ends (`Solved`) with the last point accepted or, if
its solution is not usable, with the start. Nothing in the code compares the start with the bounds,
and it may be out of them: the optimizer then fails at once. Derivatives are central differences:
each of the `Coordinates` of all blocks, parameters, rotation and scalings, is moved both ways,
whatever its bounds, so that parameters below their bounds and scalings in the wrong order are
evaluated (`Asked`). A thread takes one variogram and evaluates it at the point and then with one
coordinate after the other moved (`TakeTask`, then `CopyModel`, `SetParameters`, `SetAnisotropies`,
`Compute` for each), so that evaluations interleave between any two statements. `IsModelOf` says
what an evaluation has to have made of its point; the order of the axes is asked of the model that
is returned (`LongestFirst`), not of those. `GetModel` is `model()`. `Description` turns axes by
multiples of 45 degrees and asks whether the angles of `Describe` turn them the same way; sines and
cosines are exact, with the square root of two as a symbol. `CrossValidation` goes through the sets
(`TakeSet`, `FitSet` or `FailSet`, `Predict`) and returns; a prediction is the set of centers that
it was made from.

### NormalEstimator, SdfDataGenerator, VariogramCalculator

A normal is -1, 0 or 1 times the axis of its point, and a surface says what the products of axes
are, which neighbors the tree finds and how heavy a pair is. `orient_closed_surface` is
`OrientClosedSurface`, then for each component `Seed`, then `Pop` or `Skip` for the heaviest pair of
the queue (any of the heaviest), then `TurnComponent`; `Done` returns. `via` and `finished`
(history) keep by which pair a point was reached, and the components. In `SdfDataGenerator` geometry
is one number for two points and a side, `reach`: the distance along the normal of one at which the
other is as near. The loop is `SdfStart`, `Shrink` as long as another point is nearer (any of those,
as the nearest of them depends on more than `reach`; at a tie any of the points at that distance),
and `AddPoint`. In `VariogramCalculator` a bin is the number of times that each pair was added to
it. A thread takes a first point with all its pairs (`TakePoint`) and merges its builders in the
critical section (`Enter`, `LoadBuilder` and `StoreBuilder` for each direction); `CollectVariograms`
drops what is empty.

### Rmt, Lattice, Isosurface

Nodes are points of the integer lattice, `nodes` maps those in the lattice to what the class `Node`
holds: value, packed list of vertices and the bits of edges. `LatticeStep` is one of the steps of
`add_all_nodes` (evaluate, `AddLayer`, `EndLayer`) or of `add_nodes_from_seed_points` (`TrackSeed`,
`EndRound`, `EndTrack`, `Propagate`), then `GenerateAll` and `RefineVertices`. The threads of
`generate_vertices` are `Schedules`: the orders in which they pass the critical section.
`ClusterVertices` and `CheckMesh` are the loop of `generate_common`; `FieldThrows` ends a call in
the middle. `told` are the nodes around the arbitrary point (a point of the bbox, with seeds the
first of them) whose values are known. `ValueThrows`: where one is missing, a call fails when the
mesh comes out empty or clipping may have left nothing of it (`ClippedAway`). With seeds that
happens: a seed halfway between nodes in two coordinates may be rounded to a node that is no corner
of its tetrahedron.

### PrimitiveLattice, Clipping, MeshDefects

`PrimitiveLattice` takes any basis of integers with a positive determinant, so that positions, dual
vectors and the ranges of nodes are exact. A lattice is made by the constructor (`Constructed`), and
`AddLayer` goes through the ranges of one layer as `add_all_nodes` does; `tetrahedron` is the one
that `value` interpolates in. The other half of `Lattice` takes what it needs of this as constants,
and `NodesFound` computes the same from the geometry. In `Clipping` a step is one side of the bbox
(`ClipFace`) with its permutation of the axes. A cut of an edge is rounded towards the end where the
code starts from, so that two faces that start from different ends would get different points.
`MeshDefects` has the determinants and tables of `intersecting_faces`, compared with what it means
that two triangles with one common vertex intersect: that the edge of one, as seen from the vertex,
lies within the angle of the other.

## 3. Runs

States are distinct states found. Every run has finished; the passing runs fire every action.

| Run | States | Asks |
| --- | --- | --- |
| `binary_cache` | 469,918 | `RecordsContiguous`: the table tiles the file. `ImplementsBlobStore`: calls are atomic. `MutexReleased`: whoever locks unlocks (liveness). `BlobsSurviveShortWrites`: a full disk never damages what was readable before. |
| `fmm_evaluator` | 2,335,701 | `TreesFromSortedParticles`, `WeightsOfBothFresh`, `AccuracyMet`, `NoDanglingInterpolator`, `PassesOfBothCoherent`: caches that are used fit each other and the last setters; "of both" is of the general and the symmetric evaluator. `ProductsComplete`: after any setters, in any order, the three classes made of blocks and the two that go through all pairs, with two threads, give the product with the matrix, each term once. `BlocksSuitable`: the errors of all parts add up to no more than the accuracy, and a block that has no gradients is not asked for second derivatives. |
| `fmm_evaluator_order` | violated | `ValidInterpolators`, finding 1. |
| `preconditioner` | 29,529 | `InnerOnceDivided`, `InnerOnce`: each point is inner in one domain through all divisions, and after the merge. `CoarsePointsChosen`: clusters of points stay a partition and at most two levels apart, and as many are chosen as asked for. `GridsApart`: no two threads write one point, and each grid finds its own factor. `ResidualsExact`, `ImplementsCycle`: of one application. `GridInPlace`: a factor survives its packing, and a solution goes to the rows it is of. `PolynomialFixed`: the points chosen fix the polynomial, are the best tried and stand first, and rows of derivatives are derivatives of the rows of values. `BothEnd` (liveness). |
| `preconditioner_few` | violated | `ReturnsEnough`, finding 2. |
| `preconditioner_excess` | violated | `ExcessBelowDim`, finding 7. |
| `preconditioner_rows` | violated | `RowsOfOwnPoints`, finding 3. |
| `interpolation` | 164,444 | `InterpolantCurrent`: initial weights are those of their component, and what is evaluated is the last fit. `AdaptiveFits`: bounds are met and are those of the centers wherever there are enough centers for the polynomial, weights stay with their centers, centers are apart. `SolutionTested`: the rows tested are of this problem, zero is not returned for it. `NormalsAndOffsets`: orientations agree within a component, offset points belong to their points. `PairsCountedOnce`. `FittedModelSame`: a fit evaluates and returns one and the same model, its axes are described as they are, and a cross validation predicts each set from the others. `CallsEnd` (liveness). |
| `interpolation_largest` | violated | `LargestIncorporated`, finding 4. |
| `interpolation_few` | violated | `WithinTolerance`, finding 5. |
| `isosurface` | 3,984 | `LatticeComplete`: every edge across the surface has one vertex, at its end where it says. `MeshIsSurface`, `Manifold`, `BoundaryCoordinates`: the mesh separates the signs, has no defect, ends at the bbox. `NodesFound`: every node within reach is added once and before it is needed, and any point is inside its tetrahedron. `ClippedAtBbox`: a closed mesh is cut without a crack. `IntersectionsFound`: the determinants find exactly the faces that intersect. `CallsEnd` (liveness). |
| `isosurface_seeds` | violated | `SeededBoundaryCoordinates`, finding 6. |

Each property of a passing run has a mutant in `PROJECT.json`: a plausible bug in one mapped
definition that breaks the property within the same bounds. Operators such as `SetAccuracyOnly` or
`MakeOperatorOldTrees` stand in the modules for that purpose and occur in no specification.

### Bounds, and why they are enough

- **Binary cache**: 2 threads, blobs of one and two cells, no put begins when 3 blobs are stored (2
  with short writes). Two threads are enough for every conflict over one position; two sizes make a
  wrong offset visible; four records have one with a neighbor on either side. Larger instances are
  covered by the proofs.
- **FmmEvaluator**: sets of 0, 4, 4 and 8 points with one dimension and threshold 8 for `1024 *
  1024`: products below and above the threshold, two tree heights, two sets of one height. Two
  weights, the three kinds of accuracy (infinite, zero, finite), the capacity 2 of the code, so that
  three configurations evict. `throws` is one of three sets: exceptions in the search and the
  configuration, those up to the building of the lists, and those after nearly every step. Points of
  equal size and the weights are symmetric, and nothing tells them apart. The symmetric evaluator
  has the same points and weights, and the threshold 4 for `1024`. Two allocations are left out, see
  section 6.
- **Products**: two dimensions; three models, of a spheroidal and another unbounded rbf with three
  monomials, of one Gaussian with a constant, and of two of bounded support with none, so that every
  kind of block and two rbfs occur; four lists of up to two points and two gradients out of three
  points, the empty ones included, two vectors of weights, an accuracy of 12 for values and 24 for
  gradients, which the shares of all blocks divide, and two threads. Slices are wrong by whole
  blocks or by one row, for which two rows of each kind are enough.
- **DomainDivider**: leaf 8 instead of 1024, 8 points and up to 6 gradients (so up to 20 counted in
  two dimensions), two orders at each division: three levels of halving, with odd and even quarters.
  The proof covers any.
- **CoarsePoints**: 7 points, 2 gradients, 3 of the points fix the polynomial; 1 to 8 points are
  wanted; the splits may be across or along and every center may be chosen. 8 is all there are.
  Enough for levels that differ by two.
- **RasPreconditioner**: 3 levels of 1, 3 and 6 points, 2 and 3 grids, one of which is small and has
  no factor; 3 threads. The plan has a coarsest, a middle and a finest level, and fewer grids than
  threads as well as as many. The proofs cover any.
- **FineGrid**: every domain of up to 4 points and 2 gradients in every order, two dimensions, with
  a constant polynomial or none. An offset of one numbering in the other needs no more than one
  missing point.
- **Polynomials**: seven problems in one to three dimensions: points that repeat or lie on a line,
  points of a parabola, one point with gradients, a constant, no polynomial, and too few points to
  fix it; three trials of a draw; up to three monomials for the search. Monomials of all degrees in
  up to three dimensions are compared at the grid of the coordinates -2, 0 and 3, where no two
  quadratic polynomials agree.
- **Interpolation**: points at two locations and three given lists of two points, so that a fit may
  end with fewer than the two terms of the polynomial, and two models, for the interpolant;
  five points, one with a value, three with bounds, one with neither, and four distances, for the
  inequality fitter; four points and two gradients for the incremental fitter; problems of 1 to 3
  rows, at most 3 iterations and 2 rows of a kind tested first instead of 1024 for the solver.
- **Normals**: a band of five points with the other side up where it closes, so that not all
  neighbors can agree; three points and two that see them but are not seen, two components in either
  order; and two points, too few for a plane. Weights with ties. Any operation may follow any other.
- **Offset points**: three points, the third with or without a normal, in the way of each other on
  both sides, one behind another; offsets that shrink and ones that need not, and the automatic one.
- **Variograms**: four points, two directions with pairs in one or both, distances in one bin,
  between two and behind the last; two threads, each of which may take no point or all; and no
  points at all.
- **Fits**: eight jobs in one, two and three dimensions, with and without the anisotropy asked for,
  with fewer variograms than it needs, one and two rbfs; a range of zero at the start, and a start
  out of its bounds; two threads, and at most two steps to a point beside the start. All coordinates
  are moved, both ways, in one dimension and of one rbf; of two rbfs, parameters, rotation and
  scalings forwards; in three dimensions the scalings, which the order of the axes depends on. An
  evaluation reads one point and one variogram, so two of either make a mix-up visible.
- **Descriptions**: all 414 combinations of turns by multiples of 45 degrees, the singular ones
  included.
- **Cross validation**: all 81 divisions of four points into up to three sets, and two monomials.
- **Geometry of the lattice**: seven lattices: the body-centered basis stretched to integer
  coordinates, one bbox of which is flat; two skew ones; and boxes, among them the two that the part
  of `Isosurface` takes for granted. The margin of the extended bbox is 11/10 instead of 1.01, so
  that it adds nodes in boxes this small.
- **Clipping**: ten closed meshes at a bbox: cut by one side, by three at a corner, through
  vertices, touching sides from inside, outside, larger than the bbox, with a vertex or a face in a
  side.
- **Intersections**: some 340 meshes: two faces with a common vertex, one of them out of three, the
  other with ends in all directions of a small grid, and two fans of three faces through each other.
- **Isosurface**: an anisotropy for which the basis of the lattice is the standard one, and a bbox
  for which the extended bbox has 5 x 4 x 4 nodes. 32 fields of either sign around four nodes, three
  of them inside and one at the side, so that surfaces touch at nodes, at edges and at the border of
  the bbox. Three choices of vertices that refinement moves beyond the middle. No seed, one whose
  node is a corner of its tetrahedron, or one halfway between nodes in two coordinates, whose node
  is none. 2 of the inner nodes may have clusters that make faces intersect.

The loops that may go on forever in the code are not cut off by a bound: the number of halvings of
the distance is given by the points (below some distance no two are near, and the filter throws),
the number of iterations by `max_iter`.

### Fairness

- `binary_cache`: weak fairness of the statements of the thread that holds the mutex. A thread in
  `get` or `put` waits for nothing but the disk. (With short writes no liveness is asked.) Whether a
  waiting thread gets the mutex is not assumed, nor that calls are made.
- `preconditioner`, `interpolation`, `isosurface`: weak fairness of the steps of a call that has
  begun. Each is a loop in one thread (or in a team with a barrier) that nothing interrupts. No
  fairness for the calls themselves, nor for the choice of an outcome: an iteration need not
  converge ever. The threads of a variogram are fair as one: no thread waits for another but in
  front of the critical section. So are those of an optimizer, whose iterations are limited. The
  search for points that fix a polynomial is fair to every draw: a generator of random numbers comes
  to each set again and again, and the loop of distinct indices ends for no other reason.
- `fmm_evaluator` and the refinements state no liveness and no fairness.

Deadlock is checked in `binary_cache` and `fmm_evaluator`, where a caller may always go on. The
models with parts that end (a constructor, a fit, a thrown exception) switch the check off, as they
may really stop; `BothEnd` and `CallsEnd` say that they stop where they should.

## 4. Proofs

TLAPS checks the theorems below for all values of the constants that satisfy the named assumptions;
no proof rests on anything but those and the library's facts.

**BinaryCacheProofs**, for any set of threads, any blobs and any bound.

- `TypeCorrect`, `Mutex`, `Survival` hold with short writes as well. The invariant is `SafeInv`:
  types, the mutex (a thread is between lock and unlock exactly when it is `owner`), `CallInv`
  (where a thread is fits the call it makes), and `OwnerInv`: what the owner has read of the shared
  state is still true when it uses it. The last is what the lock is for; without it nothing else is
  inductive. `Survival` is an action property: a blob that can be read in full under an id can be
  read there, unchanged, after any step.
- `Contiguous`, `EndAgrees`, `Refinement` assume that writes are complete. They add `TileInv`: each
  record starts where the one before it ends, and the file ends where the last one ends plus what
  the owner has written but not recorded. The refinement maps the store to the cells under each
  record; the push of the record is the atomic put, the read is the atomic get, and every other step
  is a stutter or the begin of a call.

**FmmEvaluatorProofs**, for any points, weights and accuracies, any thresholds and cache, whichever
steps throw. That sets of points have a tree height (`HeightAssumption`) is the one fact about
numbers.

- `TypeCorrect`, `SortedTrees`, `Fresh`, `AccuracyAlways`. `IInv` says of each cache what it was
  made from as long as it is there: `OrderInv` (the levels the code keeps are the true depths, and
  deep enough once the particles are sorted), `BestInv` (each entry is of the present accuracy and
  source points, and from the search on the entry for the height is the chosen configuration),
  `TreeInv` (a tree fits the configuration, even one that an exception left behind) and `FreshInv`
  (without an exception between building and using the source tree, there is none when a setter is
  called). `ListsInv` is about the lists in the target tree: they are into the present source tree
  from the step that builds them up to the release, and none are left for the next call, as long as
  no step throws in between; that is a precondition of this clause of `Coherent` and no other. They
  need each other: a tree has the depth of the levels and the height of the entry.
- `NeverDangling`, `Coherent` assume `InterpolatorAssumptions`: a capacity of at least two, and no
  exception from the two allocations of section 6. `RefInv`: the interpolator in use is the first of
  the cache, and the second while the new one is put in front of it. With a capacity of one, or
  without `touch`, that fails.
- `SymTypeCorrect`, `BothFresh` and `BothCoherent` are about the symmetric evaluator as well; the
  last two say of both evaluators at once what `fmm_evaluator` checks. `SymInv` has the same four
  parts. What differs: the tree goes at the end of a call, so that only an exception leaves one,
  whose weights the next setter replaces (`SymFreshInv`); and one interpolator is replaced, so that
  `SymRefInv` says how far the replacement has come: interpolator, then far field, then operator.
- `LatestAlways`, `SuitableAlways`, `BlockTypes` are about the products by blocks, for any models
  with rbfs of the three kinds, any lists of points and any accuracies that the shares divide
  (`SharesAssumption`). `BlockInv`: what the caller gave fits each other (`GivenInv`), each of the
  four blocks of each rbf is of the kernel of its place (`PlacesInv`) and has the points and the
  slice of the weights that were given last (`BlocksLatest`), in both parts if it is a spheroidal
  one. Every error is then within the share of its block; as long as there are gradients two blocks
  share a row and each has half of it, otherwise one has it alone. The sum over the rbfs is a
  recursive function: that it stays below the sum of the shares is shown for the least number of
  rbfs for which it would not.
- `BlocksAlways`: a result of the three classes is the product by definition; with `PairsAlways`
  below that is `ProductsAlways`, of all five. `LatestAlways` is the
  invariant, with `WeightsThere` (the weights have a component for each column of the present
  sources). From there the argument goes up from a part to a row. An output of a part is the sum of
  its entries in that row, on the side of its kernel: values or derivatives (`OutputsOver`; the
  diagonal of a symmetric part belongs to it, `SelfTermsThere`). Both parts of an rbf add up to the
  entries of the rbf on that side (`PartsAdd`), the two blocks of a row to those on both sides
  (`HalvesAdd`), and the rbfs one after another to all entries (`RowsAdded`).

**DirectProductsProofs**, for any number of threads, any points and weights and any models. The
module begins with what both proofs of products need: sums of terms are bags, which can be added in
any order (`PlusCommutes`, `PlusAssociates`), split into disjoint sets (`SumUnion`) and renumbered
(`SumMoved`); and each column of the matrix is that of one point or of one derivative
(`AllColumns`).

- `DirectTypes`, `NoneOverwritten`. `DirectInv`: what the thread in the critical section has read is
  `y` as it is, nobody else is there, and what a thread is about to add are the sums of its own rows
  with the points and weights set last. So each merge is one step from `y` to `y` plus what the
  thread has, though load and store are apart. That nothing is added twice and nothing left out is
  the lemma `RowsShared`: the static schedule gives each row to exactly one thread.
- `PairsAlways`: a result of the two classes is the product by definition. `SumsSoFar` says it of a
  call in the middle: a row has its nugget and the terms of all rbfs before the present one, and
  those of the present one if the thread whose row it is is done. A thread that leaves the critical
  section adds the terms of the present rbf to its rows and nothing to others (`LeaveSums`); when all
  are done, the present rbf is one of those before (`NextRbfSums`); after the last one there are all
  terms of the row (`FinishRight`).

**DomainDividerProofs**, for any points, leaf size that is a multiple of 4 and at least four times
the dimension, and orders.

- `DividedOnce`: the domains always split the points into inner sets. The one fact about numbers
  behind it is that the middle lies in both halves: then whatever is inner before it stays inner in
  the left half, whatever is inner behind it in the right half, and nothing in both. Rounding half
  to even and the two quarters of different size make that less than obvious.
- `MergedOnce`: after the division the polynomial points are put in front of each domain, in one
  domain at a time. `MergeInv` looks at the sets of inner points of the domains that are merged
  followed by those of the domains that are not: no step changes that list, as the flags of what is
  put in front are those that the points had in the domain, and false for the points it had not.
- `DomainsInLevel`: no domain has a point that is not of the level.
- `CoarseChosen`, for any finite set of points of any multiplicity up to three, any injective
  coordinates along the axes and any number wanted. `CoarseInv`: the clusters are disjoint, each
  holds its center, together they are the points that may be chosen; the size that the loop tests is
  the sum of the multiplicities of their centers, and more than what is wanted by at most twice that
  of a gradient less two; and no level is more than two beyond the lowest (`SplitClose`: the popped
  cluster is of the lowest level, and each half gets the level after the lowest of what is in the
  queue when it is pushed, the second half of the first one as well). A split takes one cluster out
  of the queue and puts two in that are disjoint, are not empty and have other centers; sums over
  sets are by cardinality, so that the library's theorems on finite sets carry the counting.
- `PolyTypes`, `PolynomialAlwaysFixed`, for any integer points and gradients in one to three
  dimensions, any degree with up to four terms (so many rows `Determinant` has), any number of trials
  and any draws. Two things are shown. The table is right at every point: columns of two monomials
  differ at one of two points that are given for each pair, and each row of a gradient is the
  difference of two products, by which the derivative of a product is defined there. And the search
  keeps the best: `PolyInv` says that the condition of the best set is zero until one is found that
  can be used and otherwise that of a set that was drawn, that no set tried has a better one, and
  that the points are put in front in an order that leaves none out.

**RasPreconditionerProofs**, for any number of levels with nested sets of points
(`LevelsAssumption`), with orthogonalization or without, any grids with disjoint inner points that
cover their level (`InnerAssumption`, which `MergedOnce` proves of the divider), any number of
threads and any schedule.

- `Exact`: in the sequence of whole corrections a level is solved with exact residuals. That is not
  inductive: on the way down the code updates the residuals of the coarser levels only and leaves
  those of the finer ones stale. `CycleInv` says up to which level they are exact: the target of the
  last update, which is never below the level that is solved next.
- `GridsNeverMeet`: no two threads have the same point to write, and each grid solves with the
  factor that it put into the cache. `LoopInv`: threads that are busy have different grids, and
  those have disjoint inner points. `IdInv`: the numbers in the cache lead back to grids, whatever
  the order of the puts.
- `CycleImplemented`: the application implements `MultilevelCycle`. `WrittenInv`: what is written
  and what the threads and the waiting grids have still to write is the level, point by point; at
  the barrier nothing waits, so that the loop is one whole correction.
- `RasExact`: follows from the last and `Exact`.

- `GridKept`, for a fine or coarse grid of any points, gradients and flags, any size of the
  polynomial basis, and one to three components: the factor survives packing in place, the cache and
  unpacking, and the solution is written where the values were read. `Placed(mem, k)`: the rows
  before `k` are where packing puts them, the others where the factorization left them; each step
  moves `k` by one row. That holds because row `r` is packed to `r (r + 1) / 2`, not behind its
  stored place `r * order`, and ends before the next stored row begins (`PackedApart`,
  `StoredApart`, `PackedFirst`): upwards no row that waits is overwritten, and on the way back, in
  the opposite order, no packed one.

**InterpolantProofs**, for any points, models and dimensions, and any lists of points to fit of
which there are as many as the polynomial needs (`GivenAssumption`, which `check_num_points` tests).

- `AlwaysCurrent`: a fit starts from weights of the components they stand at, and what is evaluated
  is the last fit, after any fits, failures, saves and loads. `InterpInv` adds `GoodWeights`: the
  weights of an object that is fitted are those of its own centers or all zero. The argument is one
  of positions: a center of the new points that is among the old ones is found at its first
  position, gradients behind values in steps of the dimension, the polynomial from the end.
- `InterpTypes`: there are as many weights as the centers and the polynomial ask for, but only those
  of the polynomial if a fit with bounds ended with too few centers for it. `GoodWeights` allows for
  these too: a fit that starts from them starts from zeros, whatever lies where.
- `SolutionsTested`, `SolverTypes`, for any sizes of systems and any `max_iter_`: the rows tested
  are of this system, and zero weights are not returned where they miss a value. `SolverInv`: what
  is known to be missed is among the present rows, and nothing is known between calls.

- `AdaptiveFitsRight`, `FitterTypes`, for any points, bounds, distances and numbers of terms, and
  whatever the fits come to at points that are no centers. The two loops have an invariant each.
  `BoundInv`: after a fit the centers are those with a value and the active bounds, the values at
  active bounds are these bounds, and the loop ends only when nothing is violated and no active
  bound pulls the wrong way. `IncInv`: the centers of either kind are injective and apart by the
  distance of the last round, and the weight at each position is that of the component there. The
  lemma behind it is one about the greedy filter: what it keeps is apart, is part of what it was
  given and has the centers first, so that old centers keep their positions among the points and
  the weights of gradients move behind all of those.

**DataProofs**, in the order of the data.

- `CountedInEverySchedule`, `OneMergesAtATime`, for any distances, directions, bins and number of
  threads: each pair is in the result once for each bin it falls into. `CountedOnce` says where a
  pair is counted at any time: nowhere until its first point is taken, then by exactly one thread,
  and by the result as well from the moment that this thread has merged the direction. `Exclusive`
  is what the critical section is for: what a thread has loaded is still true when it stores.
- `NormalTypes`, `NormalsRight`, for any points, neighbors and weights and any sequence of
  operations. `NormalInv`: the points of the component that grows and of those before it are apart
  (`Components`); what is in reach of the component that grows and not yet oriented is in the queue,
  and whatever came after a point came over links at least as strong as those that wait (`Reach`).
  So normals agree along the link a point was reached by, and this is the strongest that led out of
  what was oriented at that time. `PlanesOfThreeWithOneRadius`: a plane is of three points at least
  if one radius is tried at a time; with several that is false, see section 5.
- `SdfTypes`, `NormalsAndOffsetsRight`, for any points and offsets: `SdfInv` says that the rows are
  those of the points and sides gone through, each with the offset asked for or less, never zero,
  and that no other point is nearer than the one it came from. Clouds are of at least two points
  that differ.
- `CrossTypes`, `HeldOutAlways`, for any numbers of sets in any order: `CrossInv`, a point's set is
  still to be taken, is the one held out, or the point was predicted from exactly the others.
- `DescriptionTypes`, `SameAxesAlways`, for all turns by multiples of 45 degrees: an angle that is
  described changes the signs of the columns of its turn, and the next turn has the same changes in
  its rows, so that the product keeps its axes. It is shown turn by turn, not by going through all.
- `FittingTypes`, `FitsAlways`, `FittedModelSameRight`, for any models, bounds, threads, schedules,
  coordinates to differentiate by, and start parameters, within their bounds or not; of the nugget
  alone it is assumed that it is not negative, which its setter checks, and of the points that the
  optimizer tries that they are within the bounds it was given (`FittingAssumption`). `FitInv`: the
  template is never changed; a thread holds at each of its steps what this step makes of the
  template for its own task, at a point moved or not (`ThreadRight`); the model of each variogram
  that is not waiting is that of the point under evaluation; what was accepted is of the point
  accepted, and is within its bounds. So what is evaluated has the parameters of its point brought
  within their bounds, its rotation and its scalings, in the order asked for even if that is the
  wrong one; and what `model()` returns is of the last point accepted, or of the start, and has its
  axes in order in either case: the scalings of the start are all alike, and bounded in points
  accepted. That is where copies of models matter: the rbfs of two copies are different objects.

**IsosurfaceProofs**, for any finite box of nodes, any field of integers on it, any starting nodes
inside, any vertices that change over in refinement (`FieldsAssumption` to `MovesAssumption`), and
any order in which the threads of `generate_vertices` come to the critical section. Two assumptions
are about geometry: the nodes around the arbitrary point are nodes of the box (`ArbAssumption`; it is
a point of the bbox, also if it is a seed, and nothing is said of the node that a seed is rounded
to), and around the vertices in the bbox the lattice goes on (`InsideAssumption`; the bbox is
extended twice).

- `LatticeIsComplete`: at the end every edge across the surface between nodes of the lattice has one
  vertex, which both ends find; what is tracked from seeds goes on until it has been all around; and
  when the empty mesh has to be told from the entire space, the values around the arbitrary point are
  known of all nodes that the call began with. Without seeds these are all, and the call never fails
  for a missing value; with seeds they are the seeds' nodes and the nodes next to them, and it may.
- `MeshIsTheSurface`: the mesh before any clustering has exactly the triangles of all tetrahedra of
  the box; from seeds it has no others.
- `EndsAtTheBbox`: a vertex where the mesh of a run without seeds ends is outside the bbox, whichever
  vertices were clustered and however often that was taken back.

None is inductive. `LatticeInv` says what holds at each place of a call: nothing is left of the
last one (`ClearedWhenIdle`); at layer `k` the lattice has the nodes of all layers so far, without
those that are two layers back and have no edge across the surface, and each node has the vertices
of just those edges whose later end is in a layer that was completed (`LayersBuilt`); with seeds
nothing but new nodes is there before the vertices, and of a pair across the surface that has been
visited, all common neighbors are nodes and their pairs visited or waiting (`TrackedFromSeeds`); from
refinement on every edge across the surface is marked and has its vertex at one of its ends
(`AllPlaced`). The steps between the invariant and the theorems:

- A node packs its vertices into a vector by the rank of their edge among the bits: `Inserted` and
  `RemovedVertex` show that the others are still found under their edges, by counting the bits below.
  `IsFree` then means that no edge of the node crosses, wherever the vertices are now.
- The vertices of one layer are a fold over a schedule. `WithIntersections` is a recursive function
  on the length of the part that is done; a statement about all lengths is shown for the least
  length at which it fails, which exists as `<` on `Nat` is well-founded.
- Greater edges lead to the same or the next layer (`NeighborFacts`), so that when a node is dropped
  all edges it could have are known.
- A triangle stands on three edges between a negative and a positive corner (`TrianglesCross`), and
  then each corner of its tetrahedron has an edge across the surface (`CornersStay`): a tetrahedron
  with a triangle has lost none of its nodes.
- Each halfedge of a triangle between vertices in the bbox has its opposite: in the same tetrahedron,
  if both triangles of a quadrangle share it, or else over the face it lies in, in the one
  tetrahedron on the other side. No two halfedges have the same, so that as many go from one vertex
  to another as come back. Clustering joins vertices, and some triangles degenerate and are dropped;
  their halfedges come in pairs of opposites too, so that what is left is balanced: sets of
  halfedges that a bijection maps to each other have the same cardinality. `MeshInv` carries this
  from the rounds of clustering to what is returned.

Induction over data would need a theorem that takes an operator as a parameter, and no prover here
can use one. Where a proof above needs the least element of a set of numbers (the first rbf after
which a sum is wrong, the shortest schedule), it takes it from the fact that `<` on `Nat` is
well-founded, which the library states without such a parameter.

What TLC alone shows:

- liveness (`MutexReleased`, `BothEnd`, `CallsEnd`), which TLAPS cannot prove;
- `Manifold`: that the faces around a vertex are one fan needs the order of the tetrahedra around an
  edge of the lattice and connected components, which are a recursion over faces;
- the geometry of `NodesFound`, `ClippedAtBbox` and `IntersectionsFound`: products of coordinates,
  rounded quotients and determinants, which are beyond the arithmetic of the provers for unknown
  bases and points;
- the `MCTypeOK` of a run with several parts, which is the conjunction of the type invariants of its
  components. Those of the components in the table of section 2 that have proofs are theorems:
  `SymTypeCorrect`, `BlockTypes`, `DirectTypes`, `DomainsInLevel`, `PolyTypes`, `InterpTypes`,
  `SolverTypes`, `FitterTypes`, `NormalTypes`, `SdfTypes`, `CrossTypes`, `DescriptionTypes`,
  `FittingTypes`.

`Survival` of `BinaryCacheProofs` is about `StoredBlobsSurvive`, which `binary_cache` checks under
the name `BlobsSurviveShortWrites` of its second cache.

## 5. Findings

Where a run shows that the code departs from what a comment or test says of it:

1. `fmm_evaluator_order`: `find_best_configuration` (`fmm_evaluator.hpp:189`) inserts a default
   configuration before the search. When the search throws, the next `evaluate` takes it for a
   result and builds an interpolator of order 0, with a `d` that `interpolator_configuration.hpp:16`
   does not allow.
2. `preconditioner_few`: `choose_coarse_points` (`domain_divider.hpp:78`) splits clusters of one
   point for ever when it is asked for more points than there are besides the polynomial ones. The
   constructor of the preconditioner asks for 2047 or 2048 of a problem of 2049 points. The test of
   the divider expects at least as many as asked for.
3. `preconditioner_rows`: `setup` (`fine_grid.hpp:73`, `coarse_grid.hpp:54`) finds the Lagrange rows
   of gradients behind the number of points of the domain, and not of all points. A domain that
   lacks a point takes rows of other points. In the tests every domain has all points.
4. `interpolation_largest`: the residuals that sort inactive points (`inequality_fitter.hpp:129`)
   read the fitted values at a position of another numbering.
5. `interpolation_few`: the incremental fitter (`incremental_fitter.hpp:82`) returns zero weights at
   centers that were never fitted, when they are fewer than the terms of the polynomial and no other
   point is missed.
6. `isosurface_seeds`: what a seed looked at but did not track stays in the lattice
   (`lattice.hpp:130`), and vertices are made on all its edges. Another surface next to the seed
   leaves a fragment in the mesh that ends inside the bbox.
7. `preconditioner_excess`: one split takes one center away and adds two (`domain_divider.hpp:99`),
   and all three have the multiplicity of a point or of a gradient. The loop ends with up to twice
   the dimension less two more than was asked for: in two dimensions, two gradients in the place of
   a point. The test of the divider (`test_domain_divider.cpp:85`) expects less than the dimension;
   its points happen not to meet the case. The result is only a larger coarse problem.

Met while modelling, without a run of its own: no line of the repository promises the opposite, the
detail is abstracted, or the trace is short enough to be read off the code:

- `fmm_evaluator.hpp:254`: if the allocation of the operator throws, the operator refers to a far
  field that is gone while `config_` is the old one. `fmm_evaluator.hpp:162`: after an exception
  behind the source tree, new weights go to the tree only; `WeightsFresh` is therefore asked where
  only the search and the configuration throw. `fmm_evaluator.hpp:92`: after an exception behind the
  lists of interactions, `set_source_points` drops the source tree alone; the target tree keeps its
  lists and the flags that say it has them, and the next passes follow them into the tree that is
  gone. `PassesCoherent` therefore asks for the lists where nothing throws from there on.
- `inequality_fitter.hpp:89`, `:115`: with fewer centers than the polynomial has terms nothing is
  fitted, and `BoundsMet` promises nothing. The weights are as many zeros as the polynomial has
  terms, beside centers that ask for more; the next evaluation of the interpolant hands them to
  `Evaluator::set_weights`, whose assertion at `evaluator.hpp:132` fails. A build without assertions
  evaluates zeros. `Interpolant` has these weights, and `InterpTypeOK` and `InterpTypes` say when.
- `normal_estimator.cpp:110`: `estimate_with_radius` tests the number of neighbors at the largest
  radius only, and fits planes to the one or two points within a smaller one, where
  `plane_estimator.cpp:9` asserts three. `PlanesOfThree` fails in the model as soon as two radii are
  given; with one it is the theorem `PlanesOfThreeWithOneRadius`.
- `residual_evaluator.hpp:83`, `gmres.cpp:26`: a solution that is not a number passes the test of
  convergence. `residual_evaluator.hpp:134`: zero weights can reach the fast evaluator before the
  first iteration, which the comment at line 61 wants to avoid.
- `interpolant.hpp:342`: a file that was cut short loads without an error.
- `fine_grid.hpp:165`: the copies of a matrix of order 2 would overlap, but no grid is that small
  and has a factor.
- `isosurface.hpp`: a call after one that threw, without `clear`, meets old nodes. `node.hpp:50`: a
  closed surface around one negative node may be clustered to one point, and an empty mesh is then
  taken for the entire bbox if its center is negative.
- `normal_estimator.cpp:226`: neighbors are not symmetric. A component that sees a finished one
  neither joins it nor takes its orientation over, so that neighboring points of the two may have
  opposite normals.
- `sdf_data_generator.cpp:82`: with two equal points, if the tree finds the other one first, the
  distance becomes `0 / 0`, and the next search is one around a point that has no coordinates.
- `unisolvent_point_set.hpp:44`: does not end with fewer points than terms. `Interpolant` checks the
  number of points before.
- `variogram_fitting`: an anisotropy that the user gave the model is dropped where none is fitted
  (in one dimension, with too few variograms, or not asked for). A fit that fails returns the
  parameters it started from, also a range of zero, and one from parameters out of their bounds,
  which nothing checks (`rbf_base.hpp:81`), fails at once. Derivatives are taken at scalings in the
  wrong order: the start has them all alike, and central differences move each both ways.
- `primitive_lattice.hpp:94`: where a layer misses the extended bbox, the ends of its range are
  infinite, and their conversion to `int` is undefined. The nodes of such a range are outside and
  not added; at worst the loop is a long one.
- `primitive_lattice.hpp:116`: a point halfway between nodes along two axes may be rounded to a node
  that is no corner of its tetrahedron. If the first seed is one and the mesh comes out empty, the
  value at the seed is asked of a node that was not evaluated, and `value` (`lattice.hpp:390`)
  throws: `ValueThrows`.

## 6. What is not modelled, and why

- **Numbers**: values of kernels, least squares, Krylov recurrences, positions of vertices,
  distances. TLC has no reals, and the unit tests compare them with direct evaluation.
- **scalfmm, Eigen, flann, libigl, ceres**: external. Of scalfmm, that a tree copies its particles
  and expects them sorted, and that passes read and write the trees that they are given.
- **FmmEvaluator**: an exception from one of two small allocations (`fmm_evaluator.hpp:253`, `:254`,
  and `fmm_symmetric_evaluator.hpp:243`, `:244`); the search with the weights of the moment, which
  the code's NOTE says may grow old.
- **RasPreconditioner**: an exception in a thread of an OpenMP loop ends the program, so no state is
  left to look at. The map of evaluators (`ras_preconditioner.hpp:258`) fills on first use, in the
  one thread that applies the preconditioner.
- **Interpolant**: `model()` of the Python binding lets a user change a model after a fit.
- **Isosurface**: the choice of an empty or an entire mesh (but not that the value for it may be
  missing), where the mesh is clipped, 2.5D fields, the export of meshes. In
  `Isosurface` which faces intersect is arbitrary, as it depends on where in an edge the vertices
  are; `MeshDefects` says how it is found out.
- **Clipping**: the rounding of `p + t * (q - p)` within one side, by which a cut may leave an
  earlier side by the last bit.
- **SdfDataGenerator**: equal points, and the transformation by an anisotropy.
- **Models**: the formulas of the rbfs (symbols in `FmmBlocks`), detrending and normal scores (one
  least squares fit, one sorted table), MINRES (used by nothing), files of variograms.
- **VariogramFitting**: how the optimizer chooses its points. Whatever it tries is arbitrary.
- Command line, Python binding, examples, benchmark, build: no state of their own beyond what they
  call.

## 7. Plan

In the order of what matters most to results:

1. *(done)* The preconditioner, where threads and numberings meet: `BinaryCache`, `DomainDivider`,
   `CoarsePoints`, `MultilevelCycle`, `RasPreconditioner`, `FineGrid`, and the proofs of all.
2. *(done)* `FmmEvaluator` and `FmmSymmetricEvaluator`, on which every product with the matrix
   rests, and the proofs of both.
3. *(done)* Interpolation and isosurfaces, and the proofs of `Interpolant`, `Solver`, `Lattice` and
   `Isosurface`.
4. *(done)* `Evaluator`, `SymmetricEvaluator` and `Operator`, the direct ones and the blocks: which
   slice of weights and which share of the accuracy goes to which block, and whether all terms are
   there.
5. *(done)* `NormalEstimator`, `SdfDataGenerator` and `VariogramCalculator`, and the proofs of the
   last.
6. *(done)* Models fitted to variograms, cross validation, unisolvent sets of points.
7. *(done)* The geometry below isosurfaces: `PrimitiveLattice`, `Clipping`, `MeshDefects`.
8. `Interpolant` fitted to one point with gradients; runs of their own for the weights of too few
   centers and for planes of too few points; the sign that tells an empty mesh from an entire one.

What is left to prove is what TLC alone shows: the list at the end of section 4.
