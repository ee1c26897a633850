------------------------- MODULE VariogramCalculator -------------------------
(***************************************************************************)
(* kriging/variogram_calculator.hpp and variogram_builder.hpp: the pairs   *)
(* of points are put into bins of distances, one set of bins for each      *)
(* direction.  Threads share the loop over the first point, each with      *)
(* builders of its own, which a critical section merges into the result.   *)
(*                                                                         *)
(* A bin is the number of times that each pair was added to it; its three  *)
(* sums are sums over these pairs.                                         *)
(***************************************************************************)
EXTENDS Integers, Sequences

CONSTANTS
  Samples,       \* the sets of points, see IsSample
  Thread,        \* the OpenMP threads
  NumLags, LagDistance,
  LagTolerance,  \* half of LagDistance, unless it is set
  Nothing        \* no thread, no result

VARIABLES
  sample,    \* points, the directions and the angle tolerance
  rest,      \* the values of i that no thread has taken
  varioPc,   \* where each thread is
  local,     \* local_builders
  builders,  \* builders
  loaded,    \* what a thread has read of the builder that it merges into
  next,      \* k of the merge
  critical,  \* the thread in the critical section
  result     \* the variograms: direction and bins

varioVars == <<sample, rest, varioPc, local, builders, loaded, next, critical, result>>

\* distance[i][j] for i < j, and the directions that a pair is in: the one with
\* the largest product or all within the angle tolerance.
IsSample(s) ==
  /\ s.size \in Nat /\ s.directions \in Nat \ {0}
  /\ s.distance \in [1..s.size -> [1..s.size -> Nat]]
  /\ s.along \in [1..s.size -> [1..s.size -> SUBSET (1..s.directions)]]
ASSUME VarioAssumption ==
  /\ \A s \in Samples : IsSample(s)
  /\ NumLags \in Nat \ {0} /\ LagDistance \in Nat \ {0} /\ LagTolerance \in Nat \ {0}
  /\ Thread # {} /\ Nothing \notin Thread

Direction == 1..sample.directions
Bin == 0..(NumLags - 1)
Pair == {p \in (1..sample.size) \X (1..sample.size) : p[1] < p[2]}
Empty == [b \in Bin |-> [p \in Pair |-> 0]]
NewBuilders == [k \in Direction |-> Empty]

\* add_pair: the bins within the tolerance of a distance
Floor(a) == a \div LagDistance
Ceil(a) == -((-a) \div LagDistance)
Bins(dist) ==
  LET first == Ceil(dist - LagTolerance)
      last == Floor(dist + LagTolerance)
  IN  {b \in Bin : first <= b /\ b <= last}
\* What merge adds up, bin by bin.
SumOf(a, b) == [bin \in Bin |-> [p \in Pair |-> a[bin][p] + b[bin][p]]]

\* The bins of direction k that a pair falls into.
Falls(p, k) == IF k \in sample.along[p[1]][p[2]] THEN Bins(sample.distance[p[1]][p[2]]) ELSE {}

VarioInit ==
  /\ sample \in Samples
  /\ rest = {i \in 1..sample.size : i < sample.size}
  /\ varioPc = [t \in Thread |-> "loop"]
  /\ local = [t \in Thread |-> NewBuilders]
  /\ builders = NewBuilders
  /\ loaded = [t \in Thread |-> Empty]
  /\ next = [t \in Thread |-> 1]
  /\ critical = Nothing
  /\ result = Nothing
-----------------------------------------------------------------------------
\* A thread takes the next first point and adds all its pairs to its own builders.
TakePoint(t) ==
  /\ varioPc[t] = "loop" /\ rest # {}
  /\ LET i == CHOOSE i \in rest : \A j \in rest : i <= j
     IN  /\ rest' = rest \ {i}
         /\ local' = [local EXCEPT ![t] =
              [k \in Direction |-> [b \in Bin |-> [p \in Pair |->
                 @[k][b][p] + (IF p[1] = i /\ b \in Falls(p, k) THEN 1 ELSE 0)]]]]
  /\ UNCHANGED <<sample, varioPc, builders, loaded, next, critical, result>>

\* The loop has ended, and the critical section is open to all that arrive.
EnterAnyway(t) ==
  /\ varioPc[t] = "loop" /\ rest = {}
  /\ critical' = t
  /\ varioPc' = [varioPc EXCEPT ![t] = "load"]
  /\ UNCHANGED <<sample, rest, local, builders, loaded, next, result>>

Enter(t) ==
  /\ varioPc[t] = "loop" /\ rest = {}
  /\ critical = Nothing
  /\ critical' = t
  /\ varioPc' = [varioPc EXCEPT ![t] = "load"]
  /\ UNCHANGED <<sample, rest, local, builders, loaded, next, result>>

LoadBuilder(t) ==
  /\ varioPc[t] = "load"
  /\ loaded' = [loaded EXCEPT ![t] = builders[next[t]]]
  /\ varioPc' = [varioPc EXCEPT ![t] = "store"]
  /\ UNCHANGED <<sample, rest, local, builders, next, critical, result>>

\* After the last direction the thread leaves the critical section.
StoreBuilder(t) ==
  /\ varioPc[t] = "store"
  /\ builders' = [builders EXCEPT ![next[t]] = SumOf(loaded[t], local[t][next[t]])]
  /\ IF next[t] < sample.directions
       THEN /\ next' = [next EXCEPT ![t] = @ + 1]
            /\ varioPc' = [varioPc EXCEPT ![t] = "load"]
            /\ UNCHANGED critical
       ELSE /\ varioPc' = [varioPc EXCEPT ![t] = "done"]
            /\ critical' = Nothing
            /\ UNCHANGED next
  /\ UNCHANGED <<sample, rest, local, loaded, result>>

\* into_variogram drops empty bins, and variograms without pairs are not returned.
Filled(builder) ==
  LET numbers == [b \in 1..NumLags |-> builder[b - 1]]
  IN  SelectSeq(numbers, LAMBDA bin : \E p \in Pair : bin[p] > 0)

CollectVariograms ==
  /\ \A t \in Thread : varioPc[t] = "done"
  /\ result = Nothing
  /\ LET all == [k \in Direction |-> [direction |-> k, bins |-> Filled(builders[k])]]
     IN  result' = SelectSeq(all, LAMBDA v : v.bins # <<>>)
  /\ UNCHANGED <<sample, rest, varioPc, local, builders, loaded, next, critical>>

VarioNext ==
  \/ \E t \in Thread : TakePoint(t) \/ Enter(t) \/ LoadBuilder(t) \/ StoreBuilder(t)
  \/ CollectVariograms

VarioSpec == VarioInit /\ [][VarioNext]_varioVars

-----------------------------------------------------------------------------
\* The types of the variables.
VarioTypeOK ==
  /\ sample \in Samples
  /\ rest \subseteq 1..sample.size
  /\ \A t \in Thread : varioPc[t] \in {"loop", "load", "store", "done"} /\ next[t] \in Direction
  /\ \A b \in {builders} \cup {local[t] : t \in Thread} :
       \A k \in Direction : b[k] \in [Bin -> [Pair -> Nat]]
  /\ \A t \in Thread : loaded[t] \in [Bin -> [Pair -> Nat]]
  /\ critical \in Thread \cup {Nothing}

\* Whichever thread took which points and in whatever order they merge, every pair of
\* points is counted once in each of the bins it falls into and in no other one.
PairsCountedOnce ==
  (\A t \in Thread : varioPc[t] = "done") =>
    \A k \in Direction, b \in Bin, p \in Pair :
      builders[k][b][p] = IF b \in Falls(p, k) THEN 1 ELSE 0

\* The calculation ends.
VarioTerminates == <>(result # Nothing)
=============================================================================
