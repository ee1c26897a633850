------------------------------ MODULE DataProofs ------------------------------
(***************************************************************************)
(* Proofs about the modules for point clouds, their variograms and models. *)
(*                                                                         *)
(* VariogramCalculator, for any points, directions, bins and threads.      *)
(* What no schedule can change: a pair that falls into a bin is in the     *)
(* builders of exactly one thread once its first point was taken, and in   *)
(* the result exactly if that thread has merged the direction.             *)
(*                                                                         *)
(* NormalEstimator, for any points: the component that grows has in the    *)
(* queue all pairs that lead out of it, and grew over links at least as    *)
(* strong as those; it shares no point with the components before it.      *)
(*                                                                         *)
(* SdfDataGenerator, for any points: while the offset shrinks it stays     *)
(* positive, and the rows are those of the points and sides gone through.  *)
(*                                                                         *)
(* CrossValidation, for any sets: a point's set is still to come, or is    *)
(* the one held out, or the point was predicted from all others.           *)
(*                                                                         *)
(* Description, for all multiples of 45 degrees: the angles described      *)
(* change the signs of the columns of each turn, and those of the rows of  *)
(* the next one alike, so that only signs of axes are left.                *)
(*                                                                         *)
(* VariogramFitting, for any models, variograms and threads: each thread   *)
(* holds what is made of the template for its own task, the template is    *)
(* as it was, and what was accepted is of the point accepted.              *)
(***************************************************************************)
EXTENDS InterpolantProofs, VariogramCalculator, SdfDataGenerator, CrossValidation

(* Variograms *)

\* The thread has merged its builder of direction k.
HasMerged(t, k) == varioPc[t] = "done" \/ next[t] > k

Counts == [Bin -> [Pair -> Nat]]

\* The types, as functions.
VarioTyped ==
  /\ sample \in Samples
  /\ rest \subseteq 1..sample.size
  /\ varioPc \in [Thread -> {"loop", "load", "store", "done"}]
  /\ next \in [Thread -> Direction]
  /\ builders \in [Direction -> Counts]
  /\ local \in [Thread -> [Direction -> Counts]]
  /\ loaded \in [Thread -> Counts]
  /\ critical \in Thread \cup {Nothing}

\* A thread is between load and store exactly while it has the critical section, and
\* what it has loaded stays true.  Threads leave the loop when all points are taken.
Exclusive ==
  \A t \in Thread :
    /\ varioPc[t] \in {"load", "store"} <=> critical = t
    /\ varioPc[t] = "loop" => next[t] = 1
    /\ varioPc[t] # "loop" => rest = {}
    /\ varioPc[t] = "store" => loaded[t] = builders[next[t]]

\* Where pair p is counted in bin b of direction k: nowhere, if it does not fall into
\* it or its first point has not been taken; else by one thread, and by the result
\* after that thread's merge.
CountedBy(t, k, b, p) ==
  /\ local[t][k][b][p] = 1
  /\ \A u \in Thread \ {t} : local[u][k][b][p] = 0
  /\ builders[k][b][p] = IF HasMerged(t, k) THEN 1 ELSE 0
NotCounted(k, b, p) ==
  builders[k][b][p] = 0 /\ \A t \in Thread : local[t][k][b][p] = 0
CountedOnce ==
  \A k \in Direction, b \in Bin, p \in Pair :
    IF b \in Falls(p, k) /\ p[1] \notin rest
      THEN \E t \in Thread : CountedBy(t, k, b, p)
      ELSE NotCounted(k, b, p)

VarioInv == VarioTyped /\ Exclusive /\ CountedOnce

-----------------------------------------------------------------------------

\* The facts about the constants that the proofs use.
LEMMA SampleFacts ==
  ASSUME sample \in Samples
  PROVE  /\ sample.size \in Nat /\ sample.directions \in Nat \ {0}
         /\ Direction = 1..sample.directions /\ 1 \in Direction
         /\ \A k \in Direction : k \in Nat /\ k >= 1 /\ k <= sample.directions
         /\ \A p \in Pair : p[1] \in {i \in 1..sample.size : i < sample.size}
  BY VarioAssumption DEF IsSample, Direction, Pair

\* The invariant holds at first.
LEMMA VarioInvInit == VarioInit => VarioInv
  <1> SUFFICES ASSUME VarioInit PROVE VarioInv
    OBVIOUS
  <1>1. /\ sample \in Samples /\ rest = {i \in 1..sample.size : i < sample.size}
        /\ varioPc = [t \in Thread |-> "loop"] /\ local = [t \in Thread |-> NewBuilders]
        /\ builders = NewBuilders /\ loaded = [t \in Thread |-> Empty]
        /\ next = [t \in Thread |-> 1] /\ critical = Nothing
    BY DEF VarioInit
  <1>2. Empty \in Counts /\ NewBuilders \in [Direction -> Counts]
    BY DEF Empty, NewBuilders, Counts
  <1>3. VarioTyped
    BY <1>1, <1>2, SampleFacts DEF VarioTyped
  <1>4. Exclusive
    BY <1>1, VarioAssumption DEF Exclusive
  <1>5. ASSUME NEW k \in Direction, NEW b \in Bin, NEW p \in Pair
        PROVE  p[1] \in rest /\ NotCounted(k, b, p)
    <2>1. NewBuilders[k][b][p] = 0
      BY DEF NewBuilders, Empty
    <2>. QED BY <1>1, <2>1, SampleFacts DEF NotCounted
  <1>. QED BY <1>3, <1>4, <1>5 DEF VarioInv, CountedOnce

\* The thread that takes the first point i gives the pairs of it to its own builders only.
LEMMA TakePointCounts ==
  ASSUME VarioInv, NEW t \in Thread, TakePoint(t)
  PROVE  VarioInv'
  <1> DEFINE i == CHOOSE i \in rest : \A j \in rest : i <= j
  <1>1. /\ varioPc[t] = "loop" /\ rest # {}
        /\ UNCHANGED <<sample, varioPc, builders, loaded, next, critical, result>>
        /\ rest' = rest \ {i}
        /\ local' = [local EXCEPT ![t] =
             [k \in Direction |-> [b \in Bin |-> [p \in Pair |->
                @[k][b][p] + (IF p[1] = i /\ b \in Falls(p, k) THEN 1 ELSE 0)]]]]
    BY DEF TakePoint
  <1>2. VarioTyped /\ Exclusive /\ CountedOnce
    BY DEF VarioInv
  <1>3. i \in rest
    <2>1. rest \subseteq Nat
      BY <1>2, SampleFacts DEF VarioTyped
    <2>. QED BY <1>1, <2>1, LeastNumber
  <1> HIDE DEF i
  <1>4. ASSUME NEW k \in Direction, NEW b \in Bin, NEW p \in Pair
        PROVE  /\ local'[t][k][b][p]
                    = local[t][k][b][p] + (IF p[1] = i /\ b \in Falls(p, k) THEN 1 ELSE 0)
               /\ \A u \in Thread \ {t} : local'[u][k][b][p] = local[u][k][b][p]
    BY <1>1, <1>2 DEF VarioTyped
  <1>5. Direction' = Direction /\ Bin' = Bin /\ Pair' = Pair /\ Counts' = Counts
    BY <1>1 DEF Direction, Bin, Pair, Counts
  <1>6. VarioTyped'
    <2>1. \A k \in Direction, b \in Bin, p \in Pair : local[t][k][b][p] \in Nat
      BY <1>2 DEF VarioTyped, Counts
    <2>2. [k \in Direction |-> [b \in Bin |-> [p \in Pair |->
             local[t][k][b][p] + (IF p[1] = i /\ b \in Falls(p, k) THEN 1 ELSE 0)]]]
          \in [Direction -> Counts]
      BY <2>1 DEF Counts
    <2>3. local' \in [Thread -> [Direction -> Counts]]
      BY <1>1, <1>2, <2>2 DEF VarioTyped
    <2>. QED BY <1>1, <1>2, <1>5, <2>3 DEF VarioTyped
  <1>7. Exclusive'
    BY <1>1, <1>2 DEF Exclusive
  <1>8. ASSUME NEW k \in Direction, NEW b \in Bin, NEW p \in Pair
        PROVE  IF b \in Falls(p, k) /\ p[1] \notin rest'
                 THEN \E u \in Thread : CountedBy(u, k, b, p)'
                 ELSE NotCounted(k, b, p)'
    <2>1. \A u \in Thread : HasMerged(u, k)' = HasMerged(u, k)
      BY <1>1 DEF HasMerged
    <2>2. \A u \in Thread : local[u][k][b][p] \in Nat
      BY <1>2 DEF VarioTyped, Counts
    <2>3. CASE p[1] = i /\ b \in Falls(p, k)
      <3>1. NotCounted(k, b, p)
        BY <1>2, <1>3, <2>3 DEF CountedOnce
      <3>2. ~HasMerged(t, k)
        <4>1. next[t] = 1 /\ k \in Nat /\ k >= 1
          BY <1>1, <1>2, SampleFacts DEF Exclusive, VarioTyped
        <4>. QED BY <1>1, <4>1 DEF HasMerged
      <3>3. local'[t][k][b][p] = 1
        BY <1>4, <2>3, <3>1 DEF NotCounted
      <3>4. CountedBy(t, k, b, p)'
        BY <1>1, <1>4, <2>1, <3>1, <3>2, <3>3 DEF CountedBy, NotCounted
      <3>. QED BY <1>1, <2>3, <3>4
    <2>4. CASE ~(p[1] = i /\ b \in Falls(p, k))
      <3>1. \A u \in Thread : local'[u][k][b][p] = local[u][k][b][p]
        BY <1>4, <2>2, <2>4
      <3>2. b \in Falls(p, k) => (p[1] \notin rest' <=> p[1] \notin rest)
        BY <1>1, <2>4
      <3>3. \A u \in Thread : CountedBy(u, k, b, p)' <=> CountedBy(u, k, b, p)
        BY <1>1, <2>1, <3>1 DEF CountedBy
      <3>4. NotCounted(k, b, p)' <=> NotCounted(k, b, p)
        BY <1>1, <3>1 DEF NotCounted
      <3>. QED BY <1>2, <3>2, <3>3, <3>4 DEF CountedOnce
    <2>. QED BY <2>3, <2>4
  <1>9. CountedOnce'
    BY <1>1, <1>5, <1>8 DEF CountedOnce, Falls, Bins, Bin
  <1>. QED BY <1>6, <1>7, <1>9 DEF VarioInv

\* A step that leaves the builders and what is merged alone leaves the counts alone.
LEMMA CountsSame ==
  ASSUME CountedOnce, UNCHANGED <<sample, rest, local, builders>>,
         \A t \in Thread, k \in Direction : HasMerged(t, k)' = HasMerged(t, k)
  PROVE  CountedOnce'
  <1>1. Direction' = Direction /\ Bin' = Bin /\ Pair' = Pair
    BY DEF Direction, Bin, Pair
  <1>2. \A k \in Direction, b \in Bin, p \in Pair :
          /\ Falls(p, k)' = Falls(p, k)
          /\ NotCounted(k, b, p)' = NotCounted(k, b, p)
          /\ \A t \in Thread : CountedBy(t, k, b, p)' <=> CountedBy(t, k, b, p)
    BY DEF Falls, Bins, Bin, NotCounted, CountedBy
  <1>. QED BY <1>1, <1>2 DEF CountedOnce

\* The one thread that is in the critical section has loaded nothing yet.
LEMMA EnterKeeps ==
  ASSUME VarioInv, NEW t \in Thread, Enter(t)
  PROVE  VarioInv'
  <1>1. /\ varioPc[t] = "loop" /\ rest = {} /\ critical = Nothing /\ critical' = t
        /\ varioPc' = [varioPc EXCEPT ![t] = "load"]
        /\ UNCHANGED <<sample, rest, local, builders, loaded, next, result>>
    BY DEF Enter
  <1>2. VarioTyped /\ Exclusive /\ CountedOnce
    BY DEF VarioInv
  <1>3. varioPc'[t] = "load" /\ \A u \in Thread \ {t} : varioPc'[u] = varioPc[u]
    BY <1>1, <1>2 DEF VarioTyped
  <1>4. VarioTyped'
    BY <1>1, <1>2 DEF VarioTyped, Direction, Bin, Pair, Counts
  <1>5. Exclusive'
    BY <1>1, <1>2, <1>3, VarioAssumption DEF Exclusive
  <1>6. \A u \in Thread, k \in Direction : HasMerged(u, k)' = HasMerged(u, k)
    BY <1>1, <1>3 DEF HasMerged
  <1>7. CountedOnce'
    BY <1>1, <1>2, <1>6, CountsSame
  <1>. QED BY <1>4, <1>5, <1>7 DEF VarioInv

\* What a thread has loaded is what the result has.
LEMMA LoadKeeps ==
  ASSUME VarioInv, NEW t \in Thread, LoadBuilder(t)
  PROVE  VarioInv'
  <1>1. /\ varioPc[t] = "load" /\ loaded' = [loaded EXCEPT ![t] = builders[next[t]]]
        /\ varioPc' = [varioPc EXCEPT ![t] = "store"]
        /\ UNCHANGED <<sample, rest, local, builders, next, critical, result>>
    BY DEF LoadBuilder
  <1>2. VarioTyped /\ Exclusive /\ CountedOnce
    BY DEF VarioInv
  <1>3. /\ varioPc'[t] = "store" /\ loaded'[t] = builders[next[t]]
        /\ \A u \in Thread \ {t} : varioPc'[u] = varioPc[u] /\ loaded'[u] = loaded[u]
    BY <1>1, <1>2 DEF VarioTyped
  <1>4. VarioTyped'
    <2>1. builders[next[t]] \in Counts
      BY <1>2 DEF VarioTyped
    <2>. QED BY <1>1, <1>2, <2>1 DEF VarioTyped, Direction, Bin, Pair, Counts
  <1>5. Exclusive'
    BY <1>1, <1>2, <1>3 DEF Exclusive
  <1>6. \A u \in Thread, k \in Direction : HasMerged(u, k)' = HasMerged(u, k)
    BY <1>1, <1>3 DEF HasMerged
  <1>7. CountedOnce'
    BY <1>1, <1>2, <1>6, CountsSame
  <1>. QED BY <1>4, <1>5, <1>7 DEF VarioInv

\* The thread with the critical section adds its own counts of one direction to what it
\* has loaded, which is still what the result has.
LEMMA StoreKeeps ==
  ASSUME VarioInv, NEW t \in Thread, StoreBuilder(t)
  PROVE  VarioInv'
  <1> DEFINE m == next[t]
             last == ~(m < sample.directions)
  <1>1. /\ varioPc[t] = "store"
        /\ builders' = [builders EXCEPT ![m] = SumOf(loaded[t], local[t][m])]
        /\ UNCHANGED <<sample, rest, local, loaded, result>>
    BY DEF StoreBuilder
  <1>2. /\ ~last => /\ next' = [next EXCEPT ![t] = m + 1]
                    /\ varioPc' = [varioPc EXCEPT ![t] = "load"] /\ critical' = critical
        /\ last => /\ varioPc' = [varioPc EXCEPT ![t] = "done"]
                   /\ critical' = Nothing /\ next' = next
    BY DEF StoreBuilder
  <1>3. VarioTyped /\ Exclusive /\ CountedOnce
    BY DEF VarioInv
  <1>4. /\ m \in Direction /\ m \in Nat /\ m >= 1 /\ m <= sample.directions
        /\ sample.directions \in Nat /\ Direction = 1..sample.directions
    BY <1>3, SampleFacts DEF VarioTyped
  <1>5. critical = t /\ rest = {} /\ loaded[t] = builders[m]
    BY <1>1, <1>3 DEF Exclusive
  <1>6. /\ varioPc'[t] = (IF last THEN "done" ELSE "load")
        /\ next'[t] = (IF last THEN m ELSE m + 1)
        /\ \A u \in Thread \ {t} : varioPc'[u] = varioPc[u] /\ next'[u] = next[u]
    BY <1>2, <1>3 DEF VarioTyped
  <1>7. Direction' = Direction /\ Bin' = Bin /\ Pair' = Pair /\ Counts' = Counts
    BY <1>1 DEF Direction, Bin, Pair, Counts
  <1> HIDE DEF m
  <1>8. /\ \A b \in Bin, p \in Pair : builders'[m][b][p] = builders[m][b][p] + local[t][m][b][p]
        /\ \A k \in Direction \ {m} : builders'[k] = builders[k]
    BY <1>1, <1>3, <1>4, <1>5 DEF VarioTyped, SumOf
  <1>9. VarioTyped'
    <2>1. SumOf(loaded[t], local[t][m]) \in Counts
      <3>1. loaded[t] \in Counts /\ local[t][m] \in Counts
        BY <1>3, <1>4 DEF VarioTyped
      <3>2. \A b \in Bin, p \in Pair : loaded[t][b][p] \in Nat /\ local[t][m][b][p] \in Nat
        BY <3>1 DEF Counts
      <3>. QED BY <3>2 DEF Counts, SumOf
    <2>2. builders' \in [Direction -> Counts]
      BY <1>1, <1>3, <2>1 DEF VarioTyped
    <2>3. next' \in [Thread -> Direction]
      <3>1. ~last => m + 1 \in Direction
        BY <1>4
      <3>. QED BY <1>2, <1>3, <3>1 DEF VarioTyped
    <2>4. varioPc' \in [Thread -> {"loop", "load", "store", "done"}]
      BY <1>2, <1>3 DEF VarioTyped
    <2>5. critical' \in Thread \cup {Nothing}
      BY <1>2, <1>3 DEF VarioTyped
    <2>. QED BY <1>1, <1>3, <1>7, <2>2, <2>3, <2>4, <2>5 DEF VarioTyped
  <1>10. Exclusive'
    BY <1>1, <1>2, <1>3, <1>5, <1>6, VarioAssumption DEF Exclusive
  <1>11. ASSUME NEW k \in Direction
         PROVE  /\ HasMerged(t, k)' <=> k = m \/ HasMerged(t, k)
                /\ k = m => ~HasMerged(t, k)
                /\ \A u \in Thread \ {t} : HasMerged(u, k)' <=> HasMerged(u, k)
    <2>1. k \in Nat /\ k >= 1 /\ k <= sample.directions
      BY <1>4
    <2>2. HasMerged(t, k) <=> m > k
      BY <1>1 DEF HasMerged, m
    <2>3. HasMerged(t, k)' <=> last \/ (~last /\ m + 1 > k)
      BY <1>4, <1>6, <2>1 DEF HasMerged
    <2>4. \A u \in Thread \ {t} : HasMerged(u, k)' <=> HasMerged(u, k)
      BY <1>6 DEF HasMerged
    <2>. QED BY <1>4, <2>1, <2>2, <2>3, <2>4
  <1>12. ASSUME NEW k \in Direction, NEW b \in Bin, NEW p \in Pair
         PROVE  IF b \in Falls(p, k) /\ p[1] \notin rest
                  THEN \E u \in Thread : CountedBy(u, k, b, p)'
                  ELSE NotCounted(k, b, p)'
    <2>1. CASE b \in Falls(p, k) /\ p[1] \notin rest
      <3>1. PICK u \in Thread : CountedBy(u, k, b, p)
        BY <1>3, <2>1 DEF CountedOnce
      <3>2. CASE k # m
        <4>1. builders'[k][b][p] = builders[k][b][p]
          BY <1>8, <3>2
        <4>2. HasMerged(u, k)' <=> HasMerged(u, k)
          BY <1>11, <3>2
        <4>. QED BY <1>1, <2>1, <3>1, <4>1, <4>2 DEF CountedBy
      <3>3. CASE k = m /\ u = t
        <4>1. builders[k][b][p] = 0 /\ local[t][k][b][p] = 1
          BY <1>11, <3>1, <3>3 DEF CountedBy
        <4>2. builders'[k][b][p] = 1
          BY <1>8, <3>3, <4>1
        <4>. QED BY <1>1, <1>11, <2>1, <3>1, <3>3, <4>2 DEF CountedBy
      <3>4. CASE k = m /\ u # t
        <4>1. local[t][k][b][p] = 0 /\ builders[k][b][p] \in {0, 1}
          BY <3>1, <3>4 DEF CountedBy
        <4>2. builders'[k][b][p] = builders[k][b][p]
          BY <1>8, <3>4, <4>1
        <4>3. HasMerged(u, k)' <=> HasMerged(u, k)
          BY <1>11, <3>4
        <4>. QED BY <1>1, <2>1, <3>1, <4>2, <4>3 DEF CountedBy
      <3>. QED BY <3>2, <3>3, <3>4
    <2>2. CASE ~(b \in Falls(p, k) /\ p[1] \notin rest)
      <3>1. NotCounted(k, b, p)
        BY <1>3, <2>2 DEF CountedOnce
      <3>2. builders'[k][b][p] = 0
        BY <1>8, <3>1 DEF NotCounted
      <3>. QED BY <1>1, <2>2, <3>1, <3>2 DEF NotCounted
    <2>. QED BY <2>1, <2>2
  <1>13. CountedOnce'
    BY <1>1, <1>7, <1>12 DEF CountedOnce, Falls, Bins, Bin
  <1>. QED BY <1>9, <1>10, <1>13 DEF VarioInv

\* The invariant is kept by every step of every thread.
LEMMA VarioInvNext == VarioInv /\ [VarioNext]_varioVars => VarioInv'
  <1> SUFFICES ASSUME VarioInv, [VarioNext]_varioVars PROVE VarioInv'
    OBVIOUS
  <1>1. ASSUME NEW t \in Thread, TakePoint(t) PROVE VarioInv'
    BY <1>1, TakePointCounts
  <1>2. ASSUME NEW t \in Thread, Enter(t) PROVE VarioInv'
    BY <1>2, EnterKeeps
  <1>3. ASSUME NEW t \in Thread, LoadBuilder(t) PROVE VarioInv'
    BY <1>3, LoadKeeps
  <1>4. ASSUME NEW t \in Thread, StoreBuilder(t) PROVE VarioInv'
    BY <1>4, StoreKeeps
  <1>5. ASSUME UNCHANGED <<sample, rest, varioPc, local, builders, loaded, next, critical>>
        PROVE  VarioInv'
    <2>1. VarioTyped /\ Exclusive /\ CountedOnce
      BY DEF VarioInv
    <2>2. VarioTyped' /\ Exclusive'
      BY <1>5, <2>1 DEF VarioTyped, Exclusive, Direction, Bin, Pair, Counts
    <2>3. CountedOnce'
      BY <1>5, <2>1, CountsSame DEF HasMerged
    <2>. QED BY <2>2, <2>3 DEF VarioInv
  <1>6. CASE CollectVariograms
    BY <1>5, <1>6 DEF CollectVariograms
  <1>7. CASE UNCHANGED varioVars
    BY <1>5, <1>7 DEF varioVars
  <1>. QED BY <1>1, <1>2, <1>3, <1>4, <1>6, <1>7 DEF VarioNext

-----------------------------------------------------------------------------
\* VariogramCalculator::calculate, for any points, directions, bins, number of threads and
\* schedule: when the threads are done, every pair is counted once in each bin that it
\* falls into and in no other one.
THEOREM CountedInEverySchedule == VarioSpec => []PairsCountedOnce
  <1>1. VarioInv => PairsCountedOnce
    <2> SUFFICES ASSUME VarioInv, \A t \in Thread : varioPc[t] = "done",
                        NEW k \in Direction, NEW b \in Bin, NEW p \in Pair
                 PROVE  builders[k][b][p] = IF b \in Falls(p, k) THEN 1 ELSE 0
      BY DEF PairsCountedOnce
    <2>1. rest = {}
      BY VarioAssumption DEF VarioInv, Exclusive
    <2>2. \A t \in Thread : HasMerged(t, k)
      BY DEF HasMerged
    <2>. QED BY <2>1, <2>2 DEF VarioInv, CountedOnce, CountedBy, NotCounted
  <1>. QED BY <1>1, VarioInvInit, VarioInvNext, PTL DEF VarioSpec

\* The critical section: no two threads merge at a time, so that what a thread has read
\* of the result is what it still is when the thread writes.
THEOREM OneMergesAtATime ==
  VarioSpec => [](\A t, u \in Thread :
                    /\ {varioPc[t], varioPc[u]} \subseteq {"load", "store"} => t = u
                    /\ varioPc[t] = "store" => loaded[t] = builders[next[t]])
  <1>1. VarioInv => \A t, u \in Thread :
                      /\ {varioPc[t], varioPc[u]} \subseteq {"load", "store"} => t = u
                      /\ varioPc[t] = "store" => loaded[t] = builders[next[t]]
    BY DEF VarioInv, Exclusive
  <1>. QED BY <1>1, VarioInvInit, VarioInvNext, PTL DEF VarioSpec

-----------------------------------------------------------------------------
(* Normals *)

\* The points of a component.
Members(c) == {c[a] : a \in DOMAIN c}
Distinct(c) == \A a, b \in DOMAIN c : c[a] = c[b] => a = b

NormalTyped ==
  /\ surface \in Surfaces /\ estimated \in BOOLEAN
  /\ normals \in IF estimated THEN [Point -> Sign] ELSE {<<>>}
  /\ planes \subseteq Nat
  /\ oriented \subseteq Point /\ component \in Seq(Point) /\ queue \subseteq Point \X Point
  /\ normalPc \in {"idle", "find", "propagate"}
  /\ normalPc # "idle" => estimated
  /\ DOMAIN via \subseteq Point /\ \A i \in DOMAIN via : via[i] \in Point \X Point
  /\ finished \subseteq Seq(Point) /\ \A c \in finished : c # <<>>

\* The components that have points: the finished ones and the one that grows.
Started == IF normalPc = "propagate" THEN finished \cup {component} ELSE finished

\* Points that are oriented have no normal or are in a component, in one place of one.
\* A point and the one it was oriented after are in the same component.
Components ==
  /\ \A c \in Started : c # <<>> /\ Distinct(c) /\ Members(c) \subseteq oriented
  /\ \A c \in Started : \A m \in 2..Len(c) : c[m] \in DOMAIN via
  /\ \A c, d \in Started : c # d => Members(c) \cap Members(d) = {}
  /\ \A i \in oriented : normals[i] = 0 \/ \E c \in Started : i \in Members(c)
  /\ \A i \in DOMAIN via : \E c \in Started : i \in Members(c) /\ via[i][1] \in Members(c)

\* The pairs of a point of the component that grows and a neighbor that is not oriented
\* are in the queue, and whatever came after that point came over links at least as strong.
\* When the queue is empty the neighbors of the component are oriented.
Reach ==
  \A a \in DOMAIN component : \A j \in surface.knn[component[a]] \ oriented :
    /\ <<component[a], j>> \in queue
    /\ \A m \in (a + 1)..Len(component) :
         Weight(via[component[m]]) >= Weight(<<component[a], j>>)

NormalInv ==
  /\ NormalTyped /\ NormalsAgree /\ StrongestFirst
  /\ normalPc # "idle" => Components
  /\ normalPc = "propagate" => /\ component \notin finished /\ Reach
                              /\ \A e \in queue : e[1] \in Members(component)

-----------------------------------------------------------------------------

\* MinOf is one of them.
LEMMA MinIn ==
  ASSUME NEW S \in SUBSET Nat, S # {}
  PROVE  MinOf(S) \in S /\ \A j \in S : MinOf(S) <= j
  BY LeastNumber DEF MinOf

\* What is known of a surface.
LEMMA SurfaceFacts ==
  ASSUME surface \in Surfaces
  PROVE  /\ PointCount \in Nat /\ Point \subseteq Nat
         /\ surface.knn \in [Point -> SUBSET Point]
         /\ surface.axes \in [Point -> [Point -> Sign]]
         /\ surface.weight \in [Point -> [Point -> Nat]]
         /\ surface.height \in [Point -> Int] /\ surface.up \in [Point -> Sign]
         /\ surface.views \subseteq [Point -> Sign]
         /\ \A radii \in Radii : \A r \in radii : \A i \in Point :
              surface.within[i][r] \in 1..PointCount
  <1>1. IsSurface(surface)
    BY NormalAssumption
  <1>2. surface.up \in Seq(Sign)
    BY <1>1 DEF IsSurface
  <1>3. PointCount \in Nat /\ Point = 1..Len(surface.up)
    BY <1>2 DEF PointCount, Point
  <1>4. surface.up \in [Point -> Sign]
    BY <1>2, <1>3
  <1>. QED BY <1>1, <1>3, <1>4 DEF IsSurface, PointCount

\* A component that has points has a highest one.
LEMMA HighestIn ==
  ASSUME surface \in Surfaces, NEW c \in Seq(Point), c # <<>>
  PROVE  Highest(c) \in Members(c) /\ Members(c) \subseteq Point
  <1>. DEFINE High(a) == surface.height[c[a]]
              P == {n \in Nat : n = 0 \/ \E a \in 1..n : \A b \in 1..n : High(b) <= High(a)}
              Tops == {a \in DOMAIN c : \A b \in DOMAIN c : High(b) <= High(a)}
  <1>1. Len(c) \in Nat \ {0} /\ DOMAIN c = 1..Len(c) /\ \A a \in DOMAIN c : c[a] \in Point
    OBVIOUS
  <1>2. \A a \in 1..Len(c) : High(a) \in Int
    BY <1>1, SurfaceFacts
  <1>. HIDE DEF High
  <1>3. 0 \in P
    OBVIOUS
  <1>4. ASSUME NEW k \in 1..Len(c), k - 1 \in P PROVE k \in P
    <2>1. CASE k = 1
      BY <1>1, <1>2, <2>1
    <2>2. CASE k # 1
      <3>1. PICK a \in 1..(k - 1) : \A b \in 1..(k - 1) : High(b) <= High(a)
        BY <1>1, <1>4, <2>2
      <3>2. a \in 1..k /\ \A b \in 1..k : b \in 1..(k - 1) \/ b = k
        BY <1>1
      <3>3. \A b \in 1..k : High(b) \in Int
        BY <1>1, <1>2
      <3>4. CASE High(k) <= High(a)
        <4>1. a \in 1..k /\ \A b \in 1..k : High(b) <= High(a)
          BY <3>1, <3>2, <3>4
        <4>. QED BY <1>1, <4>1
      <3>5. CASE ~(High(k) <= High(a))
        <4>1. \A b \in 1..k : High(b) <= High(k)
          BY <1>1, <3>1, <3>2, <3>3, <3>5
        <4>. QED BY <1>1, <4>1
      <3>. QED BY <3>4, <3>5
    <2>. QED BY <2>1, <2>2
  <1>. HIDE DEF P
  <1>5. Len(c) \in P
    <2>1. \A k \in 0..Len(c) : k \in P
      BY <1>1, <1>3, <1>4, UpTo
    <2>. QED BY <1>1, <2>1
  <1>6. Tops # {} /\ Tops \in SUBSET Nat /\ Tops \subseteq DOMAIN c
    BY <1>1, <1>5 DEF P
  <1>7. MinOf(Tops) \in DOMAIN c
    <2>. HIDE DEF Tops
    <2>. QED BY <1>6, MinIn
  <1>8. Highest(c) = c[MinOf(Tops)]
    BY DEF Highest, High
  <1>. QED BY <1>1, <1>7, <1>8 DEF Members

\* The parts of a surface that a step leaves alone.
LEMMA SameSurface ==
  ASSUME surface' = surface
  PROVE  /\ Point' = Point /\ PointCount' = PointCount
         /\ \A c : Highest(c)' = Highest(c)
         /\ \A p : Weight(p)' = Weight(p)
  BY DEF Point, PointCount, Highest, Weight

\* Every operation but orient_closed_surface starts with no orientation.
LEMMA ForgetKeeps ==
  ASSUME NormalInv, Forget, surface' = surface, normalPc = "idle", normalPc' = "idle",
         estimated' = TRUE, normals' \in [Point -> Sign], planes' \subseteq Nat
  PROVE  NormalInv'
  <1>1. /\ oriented' = {} /\ component' = <<>> /\ queue' = {} /\ via' = <<>> /\ finished' = {}
        /\ Point' = Point
    BY SameSurface DEF Forget
  <1>2. <<>> \in Seq(Point) /\ DOMAIN <<>> = {} /\ Len(<<>>) = 0
    OBVIOUS
  <1>3. NormalTyped'
    BY <1>1, <1>2 DEF NormalTyped, NormalInv
  <1>4. NormalsAgree' /\ StrongestFirst'
    BY <1>1, <1>2 DEF NormalsAgree, StrongestFirst
  <1>. QED BY <1>3, <1>4 DEF NormalInv

\* New normals take the orientation away.
LEMMA EstimateKeeps ==
  ASSUME NormalInv, NEW found, Estimated(found), normalPc = "idle", planes' \subseteq Nat
  PROVE  NormalInv'
  BY ForgetKeeps DEF Estimated

\* estimate_with_knn
LEMMA KnnKeeps ==
  ASSUME NormalInv, NEW ks \in Ks, EstimateWithKnn(ks)
  PROVE  NormalInv'
  <1>1. PointCount \in Nat /\ ks \subseteq Nat /\ planes \subseteq Nat
    BY SurfaceFacts, NormalAssumption DEF NormalInv, NormalTyped
  <1>2. planes' \subseteq Nat
    <2>1. {IF k < PointCount THEN k ELSE PointCount : k \in ks} \subseteq Nat
      BY <1>1
    <2>. QED BY <1>1, <2>1 DEF EstimateWithKnn
  <1>3. \E found : Estimated(found)
    BY DEF EstimateWithKnn
  <1>. QED BY <1>2, <1>3, EstimateKeeps DEF EstimateWithKnn

\* estimate_with_radius
LEMMA RadiusKeeps ==
  ASSUME NormalInv, NEW radii \in Radii, EstimateWithRadius(radii)
  PROVE  NormalInv'
  <1>. DEFINE found == {i \in Point : surface.within[i][MaxOf(radii)] >= 3}
  <1>1. /\ Estimated(found) /\ normalPc = "idle"
        /\ planes' = {surface.within[i][r] : i \in found, r \in radii}
    BY DEF EstimateWithRadius
  <1>2. planes' \subseteq Nat
    <2>1. \A i \in Point, r \in radii : surface.within[i][r] \in Nat
      BY SurfaceFacts DEF NormalInv, NormalTyped
    <2>. QED BY <1>1, <2>1
  <1>. HIDE DEF found
  <1>. QED BY <1>1, <1>2, EstimateKeeps

\* filter_by_plane_factor
LEMMA FilterKeeps ==
  ASSUME NormalInv, NEW below \in SUBSET Point, FilterByPlaneFactor(below)
  PROVE  NormalInv'
  <1>1. normals \in [Point -> Sign] /\ planes \subseteq Nat
    BY DEF NormalInv, NormalTyped, FilterByPlaneFactor
  <1>2. normals' \in [Point -> Sign]
    BY <1>1 DEF FilterByPlaneFactor, Sign
  <1>. QED BY <1>1, <1>2, ForgetKeeps DEF FilterByPlaneFactor, NormalInv, NormalTyped

\* orient_toward_direction and orient_toward_point
LEMMA OrientTowardKeeps ==
  ASSUME NormalInv, NEW view \in surface.views, OrientToward(view)
  PROVE  NormalInv'
  <1>1. normals \in [Point -> Sign] /\ planes \subseteq Nat
    BY DEF NormalInv, NormalTyped, OrientToward
  <1>2. normals' \in [Point -> Sign]
    BY <1>1 DEF OrientToward, Sign
  <1>. QED BY <1>1, <1>2, ForgetKeeps DEF OrientToward, NormalInv, NormalTyped

\* There are no normals at first.
LEMMA NormalInvInit == NormalInit => NormalInv
  <1>. SUFFICES ASSUME NormalInit PROVE NormalInv
    OBVIOUS
  <1>1. <<>> \in Seq(Point) /\ DOMAIN <<>> = {} /\ Len(<<>>) = 0
    OBVIOUS
  <1>. QED BY <1>1 DEF NormalInit, NormalInv, NormalTyped, NormalsAgree, StrongestFirst

\* A sequence of points without repetition that are all oriented gets one that is not.
LEMMA SeedKeeps ==
  ASSUME NormalInv, Seed
  PROVE  NormalInv'
  <1>. DEFINE cur == MinOf(Point \ oriented)
  <1>1. /\ normalPc = "find" /\ oriented # Point /\ normalPc' = "propagate"
        /\ UNCHANGED <<surface, estimated, normals, planes, via, finished>>
        /\ oriented' = oriented \cup {cur} /\ component' = <<cur>>
        /\ queue' = Pairs(cur, oriented \cup {cur})
    BY DEF Seed
  <1>2. NormalTyped /\ NormalsAgree /\ StrongestFirst /\ Components
    BY <1>1 DEF NormalInv
  <1>3. cur \in Point \ oriented
    BY <1>1, <1>2, SurfaceFacts, MinIn DEF NormalTyped
  <1>. HIDE DEF cur
  <1>4. <<cur>> \in Seq(Point) /\ DOMAIN <<cur>> = {1} /\ Len(<<cur>>) = 1 /\ <<cur>>[1] = cur
    BY <1>3
  <1>5. Members(component') = {cur}
    BY <1>1, <1>4 DEF Members
  <1>6. Point' = Point /\ (\A c : Highest(c)' = Highest(c)) /\ (\A p : Weight(p)' = Weight(p))
    BY <1>1, SameSurface
  <1>7. queue' \subseteq Point \X Point /\ \A e \in queue' : e[1] = cur
    BY <1>1, <1>2, <1>3, SurfaceFacts DEF Pairs, NormalTyped
  <1>8. NormalTyped'
    BY <1>1, <1>2, <1>3, <1>4, <1>6, <1>7 DEF NormalTyped
  <1>9. NormalsAgree'
    BY <1>1, <1>2, <1>6 DEF NormalsAgree, Dot
  <1>10. StrongestFirst'
    <2>1. ASSUME NEW a \in DOMAIN component', NEW b \in DOMAIN component', a < b
          PROVE  FALSE
      BY <1>1, <1>4, <2>1
    <2>2. surface' = surface /\ finished' = finished /\ via' = via
      BY <1>1
    <2>. QED BY <1>2, <1>6, <2>1, <2>2 DEF StrongestFirst
  <1>11. Components'
    <2>1. Started' = finished \cup {component'} /\ Started = finished
      BY <1>1 DEF Started
    <2>2. /\ component' # <<>> /\ Distinct(component') /\ Members(component') \subseteq oriented'
      BY <1>1, <1>4, <1>5 DEF Distinct
    <2>3. \A c \in finished : Members(c) \cap Members(component') = {}
      BY <1>2, <1>3, <1>5, <2>1 DEF Components
    <2>4. \A c \in Started' : c # <<>> /\ Distinct(c) /\ Members(c) \subseteq oriented'
      BY <1>1, <1>2, <2>1, <2>2 DEF Components
    <2>5. /\ \A c, d \in Started' : c # d => Members(c) \cap Members(d) = {}
          /\ \A c \in Started' : \A m \in 2..Len(c) : c[m] \in DOMAIN via'
      BY <1>1, <1>2, <1>4, <2>1, <2>3 DEF Components
    <2>6. \A i \in oriented' : normals'[i] = 0 \/ \E c \in Started' : i \in Members(c)
      BY <1>1, <1>2, <1>5, <2>1 DEF Components
    <2>7. \A i \in DOMAIN via' : \E c \in Started' : i \in Members(c) /\ via'[i][1] \in Members(c)
      BY <1>1, <1>2, <2>1 DEF Components
    <2>. QED BY <2>4, <2>5, <2>6, <2>7 DEF Components
  <1>12. Reach'
    <2>1. \A a \in DOMAIN component' : a = 1 /\ component'[a] = cur /\ Len(component') = 1
      BY <1>1, <1>4
    <2>2. \A j \in surface'.knn[cur] \ oriented' : <<cur, j>> \in queue'
      BY <1>1 DEF Pairs
    <2>. QED BY <2>1, <2>2 DEF Reach
  <1>13. component' \notin finished'
    BY <1>1, <1>2, <1>3, <1>5 DEF Components, Started
  <1>. QED BY <1>1, <1>5, <1>7, <1>8, <1>9, <1>10, <1>11, <1>12, <1>13 DEF NormalInv

\* orient_closed_surface takes the points without a normal for oriented.
LEMMA StartKeeps ==
  ASSUME NormalInv, OrientClosedSurface
  PROVE  NormalInv'
  <1>1. /\ component' = <<>> /\ queue' = {} /\ via' = <<>> /\ finished' = {} /\ estimated
        /\ oriented' = {i \in Point : normals[i] = 0} /\ normalPc' = "find"
        /\ UNCHANGED <<surface, estimated, normals, planes>> /\ Point' = Point
    BY SameSurface DEF OrientClosedSurface
  <1>2. <<>> \in Seq(Point) /\ DOMAIN <<>> = {} /\ Len(<<>>) = 0
    OBVIOUS
  <1>3. NormalTyped'
    BY <1>1, <1>2 DEF NormalTyped, NormalInv
  <1>4. NormalsAgree' /\ StrongestFirst'
    BY <1>1, <1>2 DEF NormalsAgree, StrongestFirst
  <1>5. Components'
    BY <1>1, <1>2 DEF Components, Started
  <1>. QED BY <1>1, <1>3, <1>4, <1>5 DEF NormalInv

\* A pair whose second point is oriented is not needed.
LEMMA SkipKeeps ==
  ASSUME NormalInv, Skip
  PROVE  NormalInv'
  <1>1. PICK e \in Top : e[2] \in oriented /\ queue' = queue \ {e}
    BY DEF Skip
  <1>2. /\ normalPc = "propagate"
        /\ UNCHANGED <<surface, estimated, normals, planes, oriented, component, normalPc, via,
                       finished>>
    BY DEF Skip
  <1>3. NormalTyped /\ NormalsAgree /\ StrongestFirst /\ Components /\ Reach
        /\ component \notin finished /\ \A f \in queue : f[1] \in Members(component)
    BY <1>2 DEF NormalInv
  <1>4. Point' = Point /\ (\A c : Highest(c)' = Highest(c)) /\ (\A p : Weight(p)' = Weight(p))
    BY <1>2, SameSurface
  <1>5. NormalTyped'
    BY <1>1, <1>2, <1>3, <1>4 DEF NormalTyped
  <1>6. NormalsAgree'
    BY <1>2, <1>3, <1>4 DEF NormalsAgree, Dot
  <1>7. StrongestFirst'
    BY <1>2, <1>3, <1>4 DEF StrongestFirst
  <1>8. Components'
    BY <1>2, <1>3 DEF Components, Started
  <1>9. Reach'
    <2>1. \A a \in DOMAIN component : \A j \in surface.knn[component[a]] \ oriented :
            <<component[a], j>> \in queue'
      <3>1. \A a \in DOMAIN component : \A j \in surface.knn[component[a]] \ oriented :
              <<component[a], j>> # e
        BY <1>1
      <3>. QED BY <1>1, <1>3, <3>1 DEF Reach
    <2>. QED BY <1>2, <1>3, <1>4, <2>1 DEF Reach
  <1>10. \A f \in queue' : f[1] \in Members(component')
    BY <1>1, <1>2, <1>3
  <1>. QED BY <1>2, <1>5, <1>6, <1>7, <1>8, <1>9, <1>10 DEF NormalInv

\* Products of signs.
LEMMA TwoSigns ==
  ASSUME NEW u \in Sign, NEW v \in Sign
  PROVE  /\ -u \in Sign /\ u * v \in Sign
         /\ (-u) * v = -(u * v) /\ (-u) * (-v) = u * v
  <1>1. u \in {-1, 0, 1} /\ v \in {-1, 0, 1}
    BY DEF Sign
  <1>2. CASE v = 0
    BY <1>1, <1>2 DEF Sign
  <1>3. CASE v = 1
    BY <1>1, <1>3 DEF Sign
  <1>4. CASE v = -1
    BY <1>1, <1>4 DEF Sign
  <1>. QED BY <1>1, <1>2, <1>3, <1>4

\* Products of three: a sign comes out of either factor, and two go.
LEMMA SignProducts ==
  ASSUME NEW u \in Sign, NEW v \in Sign, NEW w \in Sign
  PROVE  /\ u * v * w \in Sign
         /\ (-u) * v * w = -(u * v * w) /\ (-u) * (-v) * w = u * v * w
  <1>1. PICK p \in Sign : p = u * v
    BY TwoSigns
  <1>2. (-u) * v = -p /\ (-u) * (-v) = p
    BY <1>1, TwoSigns
  <1>3. p * w \in Sign /\ (-p) * w = -(p * w)
    BY TwoSigns
  <1>. QED BY <1>1, <1>2, <1>3

\* A point that the heaviest pair leads to is turned to agree with the one that it comes
\* from, and joins the component.
LEMMA PopKeeps ==
  ASSUME NormalInv, Pop
  PROVE  NormalInv'
  <1>1. NormalTyped /\ NormalsAgree /\ StrongestFirst /\ Components /\ Reach
        /\ component \notin finished /\ \A f \in queue : f[1] \in Members(component)
    BY DEF NormalInv, Pop
  <1>2. PICK e \in Top :
          /\ e[2] \notin oriented
          /\ normals' = [normals EXCEPT ![e[2]] = IF Dot(e[2], e[1]) < 0 THEN -@ ELSE @]
          /\ oriented' = oriented \cup {e[2]}
          /\ component' = Append(component, e[2])
          /\ via' = [i \in DOMAIN via \cup {e[2]} |-> IF i = e[2] THEN e ELSE via[i]]
          /\ queue' = (queue \ {e}) \cup Pairs(e[2], oriented \cup {e[2]})
    BY DEF Pop
  <1>3. /\ normalPc = "propagate" /\ normalPc' = "propagate"
        /\ UNCHANGED <<surface, estimated, planes, normalPc, finished>>
    BY DEF Pop
  <1>4. PICK from \in Point, cur \in Point : e = <<from, cur>>
    BY <1>1, <1>2 DEF Top, NormalTyped
  <1>5. /\ cur \notin oriented /\ e \in queue /\ from \in Members(component)
        /\ \A f \in queue : Weight(f) <= Weight(e)
    BY <1>1, <1>2, <1>4 DEF Top
  <1>6. /\ normals' = [normals EXCEPT ![cur] = IF Dot(cur, from) < 0 THEN -@ ELSE @]
        /\ oriented' = oriented \cup {cur} /\ component' = Append(component, cur)
        /\ via' = [i \in DOMAIN via \cup {cur} |-> IF i = cur THEN <<from, cur>> ELSE via[i]]
        /\ queue' = (queue \ {<<from, cur>>}) \cup Pairs(cur, oriented \cup {cur})
    BY <1>2, <1>4
  <1>7. Point' = Point /\ (\A c : Highest(c)' = Highest(c)) /\ (\A p : Weight(p)' = Weight(p))
    BY <1>3, SameSurface
  <1>8. /\ surface \in Surfaces /\ normals \in [Point -> Sign]
        /\ surface.axes \in [Point -> [Point -> Sign]] /\ surface.knn \in [Point -> SUBSET Point]
        /\ component \in Seq(Point)
    BY <1>1, <1>3, SurfaceFacts DEF NormalTyped
  <1>9. /\ component' \in Seq(Point) /\ Len(component') = Len(component) + 1
        /\ DOMAIN component' = 1..(Len(component) + 1) /\ DOMAIN component = 1..Len(component)
        /\ Len(component) \in Nat /\ component'[Len(component) + 1] = cur
        /\ \A a \in DOMAIN component : component'[a] = component[a] /\ component[a] \in Point
    BY <1>6, <1>8
  <1>10. /\ Members(component') = Members(component) \cup {cur}
         /\ Members(component) \subseteq oriented
         /\ component \in Started
    <2>1. Members(component') = Members(component) \cup {cur}
      BY <1>9 DEF Members
    <2>2. component \in Started
      BY <1>3 DEF Started
    <2>. QED BY <1>1, <2>1, <2>2 DEF Components
  <1>11. from # cur /\ from \in oriented
    BY <1>5, <1>10
  <1>12. /\ normals' \in [Point -> Sign]
         /\ \A i \in Point : i # cur => normals'[i] = normals[i]
         /\ normals'[cur] = IF Dot(cur, from) < 0 THEN -normals[cur] ELSE normals[cur]
    <2>1. -normals[cur] \in Sign
      BY <1>8, TwoSigns
    <2>. QED BY <1>6, <1>8, <2>1
  <1>13. Dot(cur, from)' >= 0
    <2>1. PICK u \in Sign, v \in Sign, w \in Sign :
            u = normals[cur] /\ v = normals[from] /\ w = surface.axes[cur][from]
      BY <1>8
    <2>2. Dot(cur, from) = u * v * w
      BY <2>1 DEF Dot
    <2>3. Dot(cur, from)' = normals'[cur] * v * w
      BY <1>3, <1>11, <1>12, <2>1 DEF Dot
    <2>4. u * v * w \in {-1, 0, 1} /\ (-u) * v * w = -(u * v * w)
      BY SignProducts DEF Sign
    <2>5. CASE u * v * w < 0
      BY <1>12, <2>1, <2>2, <2>3, <2>4, <2>5
    <2>6. CASE ~(u * v * w < 0)
      BY <1>12, <2>1, <2>2, <2>3, <2>4, <2>6
    <2>. QED BY <2>5, <2>6
  <1>14. /\ cur \notin DOMAIN via /\ DOMAIN via' = DOMAIN via \cup {cur}
         /\ via'[cur] = <<from, cur>>
         /\ \A i \in DOMAIN via : via'[i] = via[i] /\ i \in oriented /\ via[i][1] \in oriented
                                  /\ i \in Point /\ via[i][1] \in Point
    <2>1. \A i \in DOMAIN via : i \in oriented /\ via[i][1] \in oriented
      BY <1>1 DEF Components
    <2>2. oriented \subseteq Point
      BY <1>1 DEF NormalTyped
    <2>. QED BY <1>5, <1>6, <2>1, <2>2
  <1>15. queue' \subseteq Point \X Point /\ \A f \in queue' : f[1] \in Members(component')
    <2>1. \A f \in Pairs(cur, oriented \cup {cur}) : f \in Point \X Point /\ f[1] = cur
      BY <1>8 DEF Pairs
    <2>. QED BY <1>1, <1>6, <1>10, <2>1 DEF NormalTyped
  <1>16. NormalTyped'
    <2>1. oriented' \subseteq Point /\ DOMAIN via' \subseteq Point
      BY <1>1, <1>6, <1>14 DEF NormalTyped
    <2>2. ASSUME NEW i \in DOMAIN via' PROVE via'[i] \in Point \X Point
      <3>1. \A k \in DOMAIN via : via[k] \in Point \X Point
        BY <1>1 DEF NormalTyped
      <3>. QED BY <1>14, <3>1
    <2>. QED BY <1>1, <1>3, <1>7, <1>9, <1>12, <1>15, <2>1, <2>2 DEF NormalTyped
  <1>17. NormalsAgree'
    <2>1. ASSUME NEW i \in DOMAIN via' PROVE Dot(i, via[i][1])' >= 0
      <3>1. CASE i = cur
        <4>1. via'[i][1] = from
          BY <1>14, <3>1
        <4>. QED BY <1>13, <3>1, <4>1 DEF Dot
      <3>2. CASE i # cur
        <4>1. i \in DOMAIN via /\ i # cur /\ via[i][1] # cur /\ via'[i] = via[i]
              /\ i \in Point /\ via[i][1] \in Point
          BY <1>5, <1>14, <3>2
        <4>2. Dot(i, via[i][1]) >= 0
          BY <1>1, <4>1 DEF NormalsAgree
        <4>3. normals'[i] = normals[i] /\ normals'[via[i][1]] = normals[via[i][1]]
          BY <1>12, <4>1
        <4>. QED BY <1>3, <4>1, <4>2, <4>3 DEF Dot
      <3>. QED BY <3>1, <3>2
    <2>2. ASSUME NEW c \in finished'
          PROVE  normals'[Highest(c)] * surface'.up[Highest(c)] >= 0
      <3>1. c \in finished /\ c \in Seq(Point) /\ c # <<>> /\ c \in Started
        BY <1>1, <1>3 DEF NormalTyped, Started
      <3>2. Highest(c) \in Point /\ Highest(c) \in oriented
        BY <1>1, <1>8, <3>1, HighestIn DEF Components
      <3>3. normals[Highest(c)] * surface.up[Highest(c)] >= 0
        BY <1>1, <3>1 DEF NormalsAgree
      <3>4. normals'[Highest(c)] = normals[Highest(c)] /\ surface' = surface
        BY <1>3, <1>5, <1>12, <3>2
      <3>. QED BY <3>3, <3>4
    <2>3. \A c \in finished' : normals'[Highest(c)'] * surface'.up[Highest(c)'] >= 0
      BY <1>7, <2>2
    <2>. QED BY <2>1, <2>3 DEF NormalsAgree
  <1>18. ASSUME NEW a \in DOMAIN component, NEW j \in surface.knn[component[a]] \ oriented
         PROVE  /\ \A m \in (a + 1)..Len(component') :
                     Weight(via'[component'[m]]) >= Weight(<<component[a], j>>)
                /\ <<component[a], j>> \in queue
    <2>1. /\ <<component[a], j>> \in queue
          /\ \A m \in (a + 1)..Len(component) :
               Weight(via[component[m]]) >= Weight(<<component[a], j>>)
      BY <1>1 DEF Reach
    <2>2. Weight(<<from, cur>>) >= Weight(<<component[a], j>>)
      <3>1. Weight(<<component[a], j>>) <= Weight(<<from, cur>>)
        BY <1>4, <1>5, <2>1
      <3>2. surface.weight \in [Point -> [Point -> Nat]] /\ component[a] \in Point /\ j \in Point
        BY <1>8, <1>9, SurfaceFacts
      <3>3. Weight(<<component[a], j>>) \in Nat /\ Weight(<<from, cur>>) \in Nat
        BY <3>2 DEF Weight
      <3>. QED BY <3>1, <3>3
    <2>3. ASSUME NEW m \in (a + 1)..Len(component')
          PROVE  Weight(via'[component'[m]]) >= Weight(<<component[a], j>>)
      <3>1. CASE m = Len(component) + 1
        BY <1>9, <1>14, <2>2, <3>1
      <3>2. CASE m # Len(component) + 1
        <4>1. m \in (a + 1)..Len(component) /\ m \in DOMAIN component /\ m \in 2..Len(component)
          BY <1>9, <3>2
        <4>2. component[m] \in DOMAIN via
          BY <1>1, <1>10, <4>1 DEF Components
        <4>. QED BY <1>9, <1>14, <2>1, <4>1, <4>2
      <3>. QED BY <3>1, <3>2
    <2>. QED BY <2>1, <2>3
  <1>19. StrongestFirst'
    <2>1. ASSUME NEW c \in finished', NEW a \in DOMAIN c, NEW b \in DOMAIN c, a < b,
                 c[b] \in surface.knn[c[a]], NEW m \in (a + 1)..b
          PROVE  Weight(via'[c[m]]) >= Weight(<<c[a], c[b]>>)
      <3>1. c \in finished /\ c \in Seq(Point) /\ c # <<>> /\ c \in Started
        BY <1>1, <1>3 DEF NormalTyped, Started
      <3>2. m \in DOMAIN c
        BY <3>1
      <3>3. c[m] \in oriented
        BY <1>1, <3>1, <3>2 DEF Components, Members
      <3>4. Weight(via[c[m]]) >= Weight(<<c[a], c[b]>>)
        BY <1>1, <2>1, <3>1 DEF StrongestFirst
      <3>5. c[m] \in DOMAIN via
        <4>1. m \in 2..Len(c)
          BY <2>1, <3>1, <3>2
        <4>. QED BY <1>1, <3>1, <4>1 DEF Components
      <3>6. via'[c[m]] = via[c[m]]
        BY <1>14, <3>5
      <3>. QED BY <3>4, <3>6
    <2>2. ASSUME NEW a \in DOMAIN component', NEW b \in DOMAIN component', a < b,
                 component'[b] \in surface.knn[component'[a]], NEW m \in (a + 1)..b
          PROVE  Weight(via'[component'[m]]) >= Weight(<<component'[a], component'[b]>>)
      <3>1. a \in DOMAIN component /\ m \in (a + 1)..Len(component') /\ a \in Nat /\ b \in Nat
        BY <1>9, <2>2
      <3>2. CASE b = Len(component) + 1
        <4>1. component'[b] = cur /\ component'[a] = component[a]
          BY <1>9, <3>1, <3>2
        <4>. QED BY <1>5, <1>18, <2>2, <3>1, <4>1
      <3>3. CASE b # Len(component) + 1
        <4>1. /\ b \in DOMAIN component /\ m \in DOMAIN component /\ m \in 2..Len(component)
              /\ component'[b] = component[b] /\ component'[a] = component[a]
              /\ component'[m] = component[m]
          BY <1>9, <2>2, <3>1, <3>3
        <4>2. Weight(via[component[m]]) >= Weight(<<component[a], component[b]>>)
          BY <1>1, <2>2, <3>1, <4>1 DEF StrongestFirst
        <4>3. component[m] \in DOMAIN via
          BY <1>1, <1>10, <4>1 DEF Components
        <4>. QED BY <1>14, <4>1, <4>2, <4>3
      <3>. QED BY <3>2, <3>3
    <2>3. ASSUME NEW c \in finished' \cup {component'}, NEW a \in DOMAIN c, NEW b \in DOMAIN c,
                 a < b, c[b] \in surface.knn[c[a]], NEW m \in (a + 1)..b
          PROVE  Weight(via'[c[m]]) >= Weight(<<c[a], c[b]>>)
      BY <2>1, <2>2, <2>3
    <2>4. surface' = surface
      BY <1>3
    <2>. QED BY <1>7, <2>3, <2>4 DEF StrongestFirst
  <1>20. Components'
    <2>1. Started' = finished \cup {component'} /\ Started = finished \cup {component}
      BY <1>3 DEF Started
    <2>2. component' # <<>> /\ Distinct(component') /\ Members(component') \subseteq oriented'
      <3>1. Distinct(component) /\ \A a \in DOMAIN component : component[a] # cur
        BY <1>1, <1>5, <1>10 DEF Components, Members
      <3>2. Distinct(component')
        BY <1>9, <3>1 DEF Distinct
      <3>. QED BY <1>6, <1>9, <1>10, <3>2
    <2>3. ASSUME NEW c \in finished
          PROVE  Members(c) \cap Members(component') = {}
      <3>1. Members(c) \cap Members(component) = {}
        BY <1>1, <2>1 DEF Components
      <3>2. cur \notin Members(c)
        BY <1>1, <1>5, <2>1 DEF Components
      <3>. QED BY <1>10, <3>1, <3>2
    <2>4. ASSUME NEW c \in Started'
          PROVE  /\ c # <<>> /\ Distinct(c) /\ Members(c) \subseteq oriented'
                 /\ \A m \in 2..Len(c) : c[m] \in DOMAIN via'
      <3>1. CASE c = component'
        <4>1. ASSUME NEW m \in 2..Len(component') PROVE component'[m] \in DOMAIN via'
          <5>1. CASE m = Len(component) + 1
            BY <1>9, <1>14, <5>1
          <5>2. CASE m # Len(component) + 1
            <6>1. m \in 2..Len(component) /\ m \in DOMAIN component
              BY <1>9, <4>1, <5>2
            <6>. QED BY <1>1, <1>9, <1>14, <2>1, <6>1 DEF Components
          <5>. QED BY <5>1, <5>2
        <4>. QED BY <2>2, <3>1, <4>1
      <3>2. CASE c # component'
        <4>1. c \in finished /\ c \in Started
          BY <2>1, <3>2
        <4>2. /\ c # <<>> /\ Distinct(c) /\ Members(c) \subseteq oriented
              /\ \A m \in 2..Len(c) : c[m] \in DOMAIN via
          BY <1>1, <4>1 DEF Components
        <4>. QED BY <1>6, <1>14, <4>2
      <3>. QED BY <3>1, <3>2
    <2>5. \A c, d \in Started' : c # d => Members(c) \cap Members(d) = {}
      <3>1. \A c, d \in finished : c # d => Members(c) \cap Members(d) = {}
        BY <1>1, <2>1 DEF Components
      <3>. QED BY <2>1, <2>3, <3>1
    <2>6. ASSUME NEW i \in oriented'
          PROVE  normals'[i] = 0 \/ \E c \in Started' : i \in Members(c)
      <3>1. CASE i = cur
        BY <1>10, <2>1, <3>1
      <3>2. CASE i # cur
        <4>1. i \in oriented /\ i \in Point /\ normals'[i] = normals[i]
          BY <1>1, <1>6, <1>12, <3>2 DEF NormalTyped
        <4>2. CASE normals[i] = 0
          BY <4>1, <4>2
        <4>3. CASE normals[i] # 0
          <5>1. PICK c \in Started : i \in Members(c)
            BY <1>1, <4>1, <4>3 DEF Components
          <5>2. c = component => i \in Members(component')
            BY <1>10, <5>1
          <5>. QED BY <2>1, <5>1, <5>2
        <4>. QED BY <4>2, <4>3
      <3>. QED BY <3>1, <3>2
    <2>7. ASSUME NEW i \in DOMAIN via'
          PROVE  \E c \in Started' : i \in Members(c) /\ via'[i][1] \in Members(c)
      <3>1. CASE i = cur
        <4>1. via'[i][1] = from
          BY <1>14, <3>1
        <4>. QED BY <1>5, <1>10, <2>1, <3>1, <4>1
      <3>2. CASE i # cur
        <4>1. i \in DOMAIN via /\ via'[i] = via[i]
          BY <1>14, <3>2
        <4>2. PICK c \in Started : i \in Members(c) /\ via[i][1] \in Members(c)
          BY <1>1, <4>1 DEF Components
        <4>3. c = component => i \in Members(component') /\ via[i][1] \in Members(component')
          BY <1>10, <4>2
        <4>. QED BY <2>1, <4>1, <4>2, <4>3
      <3>. QED BY <3>1, <3>2
    <2>. QED BY <2>4, <2>5, <2>6, <2>7 DEF Components
  <1>21. Reach'
    <2>1. ASSUME NEW a \in DOMAIN component', NEW j \in surface.knn[component'[a]] \ oriented'
          PROVE  /\ <<component'[a], j>> \in queue'
                 /\ \A m \in (a + 1)..Len(component') :
                      Weight(via'[component'[m]]) >= Weight(<<component'[a], j>>)
      <3>1. CASE a = Len(component) + 1
        <4>1. component'[a] = cur /\ j \in surface.knn[cur] \ (oriented \cup {cur})
          BY <1>6, <1>9, <3>1
        <4>2. <<component'[a], j>> \in queue'
          BY <1>6, <4>1 DEF Pairs
        <4>3. \A m \in (a + 1)..Len(component') : FALSE
          BY <1>9, <3>1
        <4>. QED BY <4>2, <4>3
      <3>2. CASE a # Len(component) + 1
        <4>1. a \in DOMAIN component /\ component'[a] = component[a] /\ j # cur
              /\ j \in surface.knn[component[a]] \ oriented
          BY <1>6, <1>9, <3>2
        <4>. QED BY <1>6, <1>18, <4>1
      <3>. QED BY <3>1, <3>2
    <2>2. surface' = surface
      BY <1>3
    <2>. QED BY <1>7, <2>1, <2>2 DEF Reach
  <1>22. component' \notin finished'
    <2>1. cur \in Members(component') /\ \A c \in finished : cur \notin Members(c)
      <3>1. \A c \in finished : Members(c) \subseteq oriented
        BY <1>1, <1>3 DEF Components, Started
      <3>. QED BY <1>5, <1>10, <3>1
    <2>. QED BY <1>3, <2>1
  <1>. QED BY <1>3, <1>15, <1>16, <1>17, <1>19, <1>20, <1>21, <1>22 DEF NormalInv

\* A component that is done is turned as a whole, or not at all.
LEMMA TurnKeeps ==
  ASSUME NormalInv, TurnComponent
  PROVE  NormalInv'
  <1>. DEFINE top == Highest(component)
              turned == IF normals[top] * surface.up[top] < 0
                          THEN {component[a] : a \in DOMAIN component} ELSE {}
  <1>1. NormalTyped /\ NormalsAgree /\ StrongestFirst /\ Components
        /\ component \notin finished
    BY DEF NormalInv, TurnComponent
  <1>2. /\ normalPc = "propagate" /\ normalPc' = "find"
        /\ UNCHANGED <<surface, estimated, planes, oriented, component, queue, via>>
        /\ finished' = finished \cup {component}
        /\ normals' = [i \in Point |-> IF i \in turned THEN -normals[i] ELSE normals[i]]
    BY DEF TurnComponent
  <1>3. Point' = Point /\ (\A c : Highest(c)' = Highest(c)) /\ (\A p : Weight(p)' = Weight(p))
    BY <1>2, SameSurface
  <1>4. Started' = Started /\ Started = finished \cup {component} /\ component \in Started
    BY <1>2 DEF Started
  <1>5. /\ surface \in Surfaces /\ normals \in [Point -> Sign]
        /\ surface.axes \in [Point -> [Point -> Sign]] /\ surface.up \in [Point -> Sign]
        /\ component \in Seq(Point) /\ component # <<>>
    BY <1>1, <1>2, <1>4, SurfaceFacts DEF NormalTyped, Components
  <1>6. top \in Members(component) /\ Members(component) \subseteq Point
    BY <1>5, HighestIn
  <1>7. \/ turned = {} /\ normals[top] * surface.up[top] >= 0
        \/ turned = Members(component) /\ normals[top] * surface.up[top] < 0
    <2>1. normals[top] * surface.up[top] \in {-1, 0, 1}
      BY <1>5, <1>6, TwoSigns DEF Sign
    <2>. QED BY <2>1 DEF Members
  <1>. HIDE DEF turned
  <1>8. /\ normals' \in [Point -> Sign]
        /\ \A i \in Point : normals'[i] = IF i \in turned THEN -normals[i] ELSE normals[i]
    <2>1. \A i \in Point : -normals[i] \in Sign
      BY <1>5, TwoSigns
    <2>. QED BY <1>2, <1>5, <2>1
  <1>9. NormalTyped'
    BY <1>1, <1>2, <1>3, <1>5, <1>8 DEF NormalTyped
  <1>10. \A c \in Started : \A i, j \in Members(c) : i \in turned <=> j \in turned
    <2>1. \A c \in Started : c # component => Members(c) \cap Members(component) = {}
      BY <1>1, <1>4 DEF Components
    <2>. QED BY <1>7, <2>1
  <1>11. ASSUME NEW i \in DOMAIN via' PROVE Dot(i, via[i][1])' >= 0
    <2>1. /\ i \in DOMAIN via /\ via'[i] = via[i] /\ i \in Point /\ via[i][1] \in Point
          /\ Dot(i, via[i][1]) >= 0
      BY <1>1, <1>2 DEF NormalTyped, NormalsAgree
    <2>2. i \in turned <=> via[i][1] \in turned
      BY <1>1, <1>10, <2>1 DEF Components
    <2>3. PICK u \in Sign, v \in Sign, w \in Sign :
            u = normals[i] /\ v = normals[via[i][1]] /\ w = surface.axes[i][via[i][1]]
      BY <1>5, <2>1
    <2>4. u * v * w >= 0 /\ (-u) * (-v) * w = u * v * w
      BY <2>1, <2>3, SignProducts DEF Dot
    <2>5. Dot(i, via[i][1])' = normals'[i] * normals'[via[i][1]] * w
      BY <1>2, <2>1, <2>3 DEF Dot
    <2>6. CASE i \in turned
      <3>1. normals'[i] = -u /\ normals'[via[i][1]] = -v
        BY <1>8, <2>1, <2>2, <2>3, <2>6
      <3>. QED BY <2>4, <2>5, <3>1
    <2>7. CASE i \notin turned
      <3>1. normals'[i] = u /\ normals'[via[i][1]] = v
        BY <1>8, <2>1, <2>2, <2>3, <2>7
      <3>. QED BY <2>4, <2>5, <3>1
    <2>. QED BY <2>6, <2>7
  <1>12. ASSUME NEW c \in finished'
         PROVE  normals'[Highest(c)] * surface'.up[Highest(c)] >= 0
    <2>1. CASE c = component
      <3>1. PICK u \in Sign, v \in Sign : u = normals[top] /\ v = surface.up[top]
        BY <1>5, <1>6
      <3>2. u * v \in {-1, 0, 1} /\ (-u) * v = -(u * v)
        BY TwoSigns DEF Sign
      <3>3. CASE turned = {} /\ normals[top] * surface.up[top] >= 0
        BY <1>2, <1>6, <1>8, <2>1, <3>3
      <3>4. CASE turned = Members(component) /\ normals[top] * surface.up[top] < 0
        <4>1. normals'[top] = -u
          BY <1>6, <1>8, <3>1, <3>4
        <4>2. normals'[top] * surface'.up[top] >= 0
          BY <1>2, <3>1, <3>2, <3>4, <4>1
        <4>. QED BY <2>1, <4>2
      <3>. QED BY <1>7, <3>3, <3>4
    <2>2. CASE c # component
      <3>1. c \in finished /\ c \in Seq(Point) /\ c # <<>> /\ c \in Started
        BY <1>1, <1>2, <1>4, <2>2 DEF NormalTyped
      <3>2. Highest(c) \in Point /\ Highest(c) \in Members(c)
        BY <1>5, <3>1, HighestIn
      <3>3. Highest(c) \notin turned
        BY <1>1, <1>4, <1>7, <2>2, <3>1, <3>2 DEF Components
      <3>4. normals[Highest(c)] * surface.up[Highest(c)] >= 0
        BY <1>1, <3>1 DEF NormalsAgree
      <3>5. normals'[Highest(c)] = normals[Highest(c)] /\ surface' = surface
        BY <1>2, <1>8, <3>2, <3>3
      <3>. QED BY <3>4, <3>5
    <2>. QED BY <2>1, <2>2
  <1>. HIDE DEF top
  <1>13. NormalsAgree'
    <2>1. \A c \in finished' : normals'[Highest(c)'] * surface'.up[Highest(c)'] >= 0
      BY <1>3, <1>12
    <2>. QED BY <1>11, <2>1 DEF NormalsAgree
  <1>14. StrongestFirst'
    <2>1. /\ finished' \cup {component'} = finished \cup {component}
          /\ surface' = surface /\ via' = via
      BY <1>2
    <2>. QED BY <1>1, <1>3, <2>1 DEF StrongestFirst
  <1>15. Components'
    <2>1. \A i \in Point : normals'[i] = 0 <=> normals[i] = 0
      BY <1>5, <1>8 DEF Sign
    <2>2. oriented' = oriented /\ oriented \subseteq Point /\ via' = via
      BY <1>1, <1>2 DEF NormalTyped
    <2>3. \A i \in oriented' : normals'[i] = 0 \/ \E c \in Started' : i \in Members(c)
      BY <1>1, <1>4, <2>1, <2>2 DEF Components
    <2>. QED BY <1>1, <1>4, <2>2, <2>3 DEF Components
  <1>. QED BY <1>2, <1>9, <1>13, <1>14, <1>15 DEF NormalInv

\* In the end the signs and the history of the components stay.
LEMMA DoneKeeps ==
  ASSUME NormalInv, Done
  PROVE  NormalInv'
  <1>1. /\ normalPc = "find" /\ normalPc' = "idle" /\ oriented' = {} /\ component' = <<>>
        /\ UNCHANGED <<surface, estimated, normals, planes, queue, via, finished>>
    BY DEF Done
  <1>2. <<>> \in Seq(Point) /\ DOMAIN <<>> = {} /\ Len(<<>>) = 0
    OBVIOUS
  <1>3. NormalTyped /\ NormalsAgree /\ StrongestFirst
    BY DEF NormalInv
  <1>4. Point' = Point /\ (\A c : Highest(c)' = Highest(c)) /\ (\A p : Weight(p)' = Weight(p))
    BY <1>1, SameSurface
  <1>5. NormalTyped'
    BY <1>1, <1>2, <1>3, <1>4 DEF NormalTyped
  <1>6. NormalsAgree'
    BY <1>1, <1>3, <1>4 DEF NormalsAgree, Dot
  <1>7. StrongestFirst'
    <2>1. surface' = surface /\ finished' = finished /\ via' = via
      BY <1>1
    <2>. QED BY <1>1, <1>2, <1>3, <1>4, <2>1 DEF StrongestFirst
  <1>. QED BY <1>1, <1>5, <1>6, <1>7 DEF NormalInv

\* The invariant is kept by every operation and every step of an orientation.
LEMMA NormalInvNext == NormalInv /\ [NormalNext]_normalVars => NormalInv'
  <1>. SUFFICES ASSUME NormalInv, [NormalNext]_normalVars PROVE NormalInv'
    OBVIOUS
  <1>1. ASSUME NEW ks \in Ks, EstimateWithKnn(ks) PROVE NormalInv'
    BY <1>1, KnnKeeps
  <1>2. ASSUME NEW radii \in Radii, EstimateWithRadius(radii) PROVE NormalInv'
    BY <1>2, RadiusKeeps
  <1>3. ASSUME NEW below \in SUBSET Point, FilterByPlaneFactor(below) PROVE NormalInv'
    BY <1>3, FilterKeeps
  <1>4. ASSUME NEW view \in surface.views, OrientToward(view) PROVE NormalInv'
    BY <1>4, OrientTowardKeeps
  <1>5. CASE OrientClosedSurface
    BY <1>5, StartKeeps
  <1>6. CASE ClosedStep
    BY <1>6, SeedKeeps, SkipKeeps, PopKeeps, TurnKeeps, DoneKeeps DEF ClosedStep
  <1>7. CASE UNCHANGED normalVars
    <2>1. UNCHANGED <<surface, estimated, normals, planes, oriented, component, queue, normalPc,
                      via, finished>>
      BY <1>7 DEF normalVars
    <2>2. Point' = Point /\ (\A c : Highest(c)' = Highest(c)) /\ (\A p : Weight(p)' = Weight(p))
      BY <2>1, SameSurface
    <2>3. NormalTyped' /\ NormalsAgree' /\ StrongestFirst'
      BY <2>1, <2>2 DEF NormalInv, NormalTyped, NormalsAgree, StrongestFirst, Dot
    <2>4. (normalPc # "idle" => Components)' /\ (normalPc = "propagate" => Reach)'
      BY <2>1, <2>2 DEF NormalInv, Components, Started, Reach
    <2>. QED BY <2>1, <2>3, <2>4 DEF NormalInv
  <1>. QED BY <1>1, <1>2, <1>3, <1>4, <1>5, <1>6, <1>7 DEF NormalNext

\* Every normal is in one component, in one place of it.
LEMMA OnceOriented == NormalInv => EachOrientedOnce
  <1>. SUFFICES ASSUME NormalInv, normalPc = "find", oriented = Point,
                       NEW i \in Point, normals[i] # 0
                PROVE  /\ Cardinality({c \in finished : \E a \in DOMAIN c : c[a] = i}) = 1
                       /\ \A c \in finished : Cardinality({a \in DOMAIN c : c[a] = i}) <= 1
    BY DEF EachOrientedOnce
  <1>1. Components /\ Started = finished
    BY DEF NormalInv, Started
  <1>2. PICK d \in finished : i \in Members(d)
    BY <1>1 DEF Components
  <1>3. {c \in finished : \E a \in DOMAIN c : c[a] = i} = {d}
    <2>1. \A c \in finished : (\E a \in DOMAIN c : c[a] = i) <=> i \in Members(c)
      BY DEF Members
    <2>2. \A c \in finished : i \in Members(c) => c = d
      BY <1>1, <1>2 DEF Components
    <2>. QED BY <1>2, <2>1, <2>2
  <1>4. ASSUME NEW c \in finished PROVE Cardinality({a \in DOMAIN c : c[a] = i}) <= 1
    <2>1. \A a, b \in DOMAIN c : c[a] = i /\ c[b] = i => a = b
      BY <1>1 DEF Components, Distinct
    <2>2. CASE {a \in DOMAIN c : c[a] = i} = {}
      BY <2>2, FS_EmptySet
    <2>3. CASE {a \in DOMAIN c : c[a] = i} # {}
      <3>1. PICK a \in DOMAIN c : c[a] = i
        BY <2>3
      <3>2. {b \in DOMAIN c : c[b] = i} = {a}
        BY <2>1, <3>1
      <3>3. Cardinality({a}) = 1
        BY FS_Singleton
      <3>. QED BY <3>2, <3>3
    <2>. QED BY <2>2, <2>3
  <1>. QED BY <1>3, <1>4, FS_Singleton

\* NormalEstimator, for any surface and any sequence of operations: the types.
THEOREM NormalTypes == NormalSpec => []NormalTypeOK
  <1>1. NormalInv => NormalTypeOK
    BY DEF NormalInv, NormalTyped, NormalTypeOK
  <1>. QED BY <1>1, NormalInvInit, NormalInvNext, PTL DEF NormalSpec

\* orient_closed_surface: normals agree with those they were oriented after, each is in one
\* component, in one place of it, and strong links come before weak ones.
THEOREM NormalsRight == NormalSpec => [](NormalsAgree /\ EachOrientedOnce /\ StrongestFirst)
  <1>1. NormalInv => NormalsAgree /\ EachOrientedOnce /\ StrongestFirst
    BY OnceOriented DEF NormalInv
  <1>. QED BY <1>1, NormalInvInit, NormalInvNext, PTL DEF NormalSpec

\* estimate_with_radius with a single radius, and estimate_with_knn: planes are fitted to
\* three points or more.
THEOREM PlanesOfThreeWithOneRadius ==
  ASSUME \A radii \in Radii : \A r, q \in radii : r = q
  PROVE  NormalSpec => []PlanesOfThree
  <1>1. NormalInit => PlanesOfThree
    BY DEF NormalInit, PlanesOfThree
  <1>2. NormalInv /\ PlanesOfThree /\ [NormalNext]_normalVars => PlanesOfThree'
    <2>. SUFFICES ASSUME NormalInv, PlanesOfThree, [NormalNext]_normalVars PROVE PlanesOfThree'
      OBVIOUS
    <2>1. surface \in Surfaces
      BY DEF NormalInv, NormalTyped
    <2>2. ASSUME NEW ks \in Ks, EstimateWithKnn(ks) PROVE PlanesOfThree'
      <3>1. PointCount \in Nat /\ \A k \in ks : k \in Nat /\ k >= 3
        BY <2>1, SurfaceFacts, NormalAssumption
      <3>2. PointCount < 3 => UNCHANGED planes
        BY <2>2 DEF EstimateWithKnn
      <3>3. ~(PointCount < 3) =>
               planes' = {IF k < PointCount THEN k ELSE PointCount : k \in ks}
        BY <2>2 DEF EstimateWithKnn
      <3>. QED BY <3>1, <3>2, <3>3 DEF PlanesOfThree
    <2>3. ASSUME NEW radii \in Radii, EstimateWithRadius(radii) PROVE PlanesOfThree'
      <3>1. radii # {} /\ radii \subseteq Nat
        BY NormalAssumption
      <3>2. \E r \in radii : \A q \in radii : q <= r
        <4>1. PICK r \in radii : r \in Nat
          BY <3>1
        <4>2. \A q \in radii : q = r
          BY <2>3
        <4>. QED BY <4>1, <4>2
      <3>3. MaxOf(radii) \in radii
        BY <3>2 DEF MaxOf
      <3>4. \A q \in radii : q = MaxOf(radii)
        BY <3>3
      <3>. QED BY <2>3, <3>4 DEF EstimateWithRadius, PlanesOfThree
    <2>4. CASE UNCHANGED planes
      BY <2>4 DEF PlanesOfThree
    <2>5. ~(\E ks \in Ks : EstimateWithKnn(ks)) /\ ~(\E radii \in Radii : EstimateWithRadius(radii))
            => UNCHANGED planes
      BY DEF NormalNext, FilterByPlaneFactor, OrientToward, OrientClosedSurface, ClosedStep,
             Seed, Skip, Pop, TurnComponent, Done, normalVars
    <2>. QED BY <2>2, <2>3, <2>4, <2>5
  <1>. QED BY <1>1, <1>2, NormalInvInit, NormalInvNext, PTL DEF NormalSpec

-----------------------------------------------------------------------------
(* Offsets *)

\* The points before point on its side, and all of the sides before, are done.
Before(s, a) == s < side \/ (s = side /\ a < point)
Passed(s, a) == sdfPc = "done" \/ Before(s, a)

\* What a row says, and that the rows are those of the points that are done.
SideOf(row) == IF row.value < 0 THEN -1 ELSE 1
RowRight(row) ==
  /\ row.point \in CloudPoint /\ row.value \in Int
  /\ SideOf(row) * row.value \in 1..FirstDistance(row.point)
  /\ \A b \in CloudPoint \ {row.point} :
       cloud.reach[SideOf(row)][row.point][b] >= SideOf(row) * row.value

SdfInv ==
  /\ cloud \in Clouds /\ offset \in Offsets
  /\ side \in {-1, 1} /\ point \in CloudPoint /\ distance \in 0..Never
  /\ rows \in Seq([point : CloudPoint, value : Int])
  /\ sdfPc \in {"next", "search", "done"}
  /\ sdfPc = "search" => cloud.normal[point] /\ distance \in 1..FirstDistance(point)
  /\ \A k \in DOMAIN rows : RowRight(rows[k])
  /\ \A a \in CloudPoint : \A s \in {-1, 1} :
       (\E k \in DOMAIN rows : rows[k].point = a /\ SideOf(rows[k]) = s)
         <=> cloud.normal[a] /\ Passed(s, a)

\* What is known of a cloud.
LEMMA CloudFacts ==
  ASSUME cloud \in Clouds, offset \in Offsets
  PROVE  /\ Len(cloud.normal) \in Nat /\ Len(cloud.normal) >= 2
         /\ CloudPoint = 1..Len(cloud.normal) /\ Never \in Nat
         /\ cloud.normal \in [CloudPoint -> BOOLEAN]
         /\ \A s \in {-1, 1} : \A a, b \in CloudPoint : cloud.reach[s][a][b] \in 100..Never
         /\ \A a \in CloudPoint : FirstDistance(a) \in 1..Never
  <1>1. IsCloud(cloud) /\ Never \in Nat /\ offset \in Int /\ offset < Never
    BY SdfAssumption
  <1>2. /\ Len(cloud.normal) >= 2 /\ cloud.normal \in Seq(BOOLEAN)
        /\ CloudPoint = 1..Len(cloud.normal) /\ cloud.spacing \in [CloudPoint -> 100..Never]
        /\ cloud.reach \in [{-1, 1} -> [CloudPoint -> [CloudPoint -> 100..Never]]]
    BY <1>1 DEF IsCloud, CloudPoint
  <1>3. cloud.normal \in [CloudPoint -> BOOLEAN] /\ Len(cloud.normal) \in Nat
    BY <1>2
  <1>4. \A s \in {-1, 1} : \A a, b \in CloudPoint : cloud.reach[s][a][b] \in 100..Never
    BY <1>2
  <1>5. ASSUME NEW a \in CloudPoint PROVE FirstDistance(a) \in 1..Never
    <2>1. cloud.spacing[a] \in 100..Never
      BY <1>2
    <2>. QED BY <1>1, <2>1 DEF FirstDistance
  <1>. QED BY <1>1, <1>2, <1>3, <1>4, <1>5

\* No point is gone through at first.
LEMMA SdfInvInit == SdfInit => SdfInv
  <1>. SUFFICES ASSUME SdfInit PROVE SdfInv
    OBVIOUS
  <1>1. /\ cloud \in Clouds /\ offset \in Offsets /\ side = -1 /\ point = 1 /\ distance = 0
        /\ rows = <<>> /\ sdfPc = "next" /\ Never \in Nat /\ CloudPoint \subseteq Nat
        /\ 1 \in CloudPoint /\ \A a \in CloudPoint : a >= 1
    BY CloudFacts DEF SdfInit
  <1>2. <<>> \in Seq([point : CloudPoint, value : Int]) /\ DOMAIN <<>> = {}
    OBVIOUS
  <1>3. \A a \in CloudPoint : \A s \in {-1, 1} : ~Passed(s, a)
    BY <1>1 DEF Passed, Before
  <1>. QED BY <1>1, <1>2, <1>3 DEF SdfInv

\* To go on to the next point is to be done with this one and no other.
LEMMA AdvancePasses ==
  ASSUME SdfInv, Advance, cloud' = cloud, sdfPc # "done",
         NEW a \in CloudPoint, NEW s \in {-1, 1}
  PROVE  /\ Passed(s, a)' <=> Passed(s, a) \/ (s = side /\ a = point)
         /\ ~Passed(side, point)
  <1>1. /\ side \in {-1, 1} /\ point \in 1..Len(cloud.normal) /\ Len(cloud.normal) \in Nat
        /\ a \in 1..Len(cloud.normal)
    BY CloudFacts DEF SdfInv
  <1>2. CASE point < Len(cloud.normal) /\ point' = point + 1 /\ sdfPc' = "next" /\ UNCHANGED side
    BY <1>1, <1>2 DEF Passed, Before
  <1>3. CASE point = Len(cloud.normal) /\ side = -1 /\ point' = 1 /\ side' = 1 /\ sdfPc' = "next"
    BY <1>1, <1>3 DEF Passed, Before
  <1>4. CASE point = Len(cloud.normal) /\ side = 1 /\ sdfPc' = "done" /\ UNCHANGED <<side, point>>
    BY <1>1, <1>4 DEF Passed, Before
  <1>. QED BY <1>2, <1>3, <1>4 DEF Advance

\* The next point and side.
LEMMA AdvanceTypes ==
  ASSUME SdfInv, Advance, cloud' = cloud
  PROVE  side' \in {-1, 1} /\ point' \in CloudPoint /\ sdfPc' \in {"next", "done"}
  BY CloudFacts DEF SdfInv, Advance

\* A point without a normal gets no row.
LEMMA NoNormalKeeps ==
  ASSUME SdfInv, NoNormal
  PROVE  SdfInv'
  <1>1. /\ sdfPc = "next" /\ ~cloud.normal[point] /\ Advance
        /\ UNCHANGED <<cloud, offset, distance, rows>>
        /\ CloudPoint' = CloudPoint /\ \A row : RowRight(row)' = RowRight(row)
    BY DEF NoNormal, CloudPoint, RowRight, FirstDistance
  <1>2. side' \in {-1, 1} /\ point' \in CloudPoint /\ sdfPc' \in {"next", "done"}
    BY <1>1, AdvanceTypes
  <1>3. ASSUME NEW a \in CloudPoint, NEW s \in {-1, 1}
        PROVE  cloud.normal[a] /\ Passed(s, a)' <=> cloud.normal[a] /\ Passed(s, a)
    BY <1>1, AdvancePasses
  <1>. QED BY <1>1, <1>2, <1>3 DEF SdfInv

\* The search starts at the offset that was asked for, or the automatic one.
LEMMA SdfStartKeeps ==
  ASSUME SdfInv, SdfStart
  PROVE  SdfInv'
  <1>1. /\ sdfPc = "next" /\ cloud.normal[point] /\ distance' = FirstDistance(point)
        /\ sdfPc' = "search" /\ UNCHANGED <<cloud, offset, side, point, rows>>
        /\ CloudPoint' = CloudPoint /\ (\A row : RowRight(row)' = RowRight(row))
        /\ \A a : FirstDistance(a)' = FirstDistance(a)
    BY DEF SdfStart, CloudPoint, RowRight, FirstDistance
  <1>2. distance' \in 1..Never /\ distance' \in 1..FirstDistance(point) /\ Never \in Nat
    BY <1>1, CloudFacts DEF SdfInv
  <1>3. \A a \in CloudPoint : \A s \in {-1, 1} : Passed(s, a)' <=> Passed(s, a)
    BY <1>1 DEF Passed, Before
  <1>. QED BY <1>1, <1>2, <1>3 DEF SdfInv

\* An offset that shrinks stays positive: the distance that it comes from is 100 or more.
LEMMA ShrinkKeeps ==
  ASSUME SdfInv, Shrink
  PROVE  SdfInv'
  <1>1. PICK j \in Nearest(distance) \ {point} :
          distance' = (99 * cloud.reach[side][point][j]) \div 100
    BY DEF Shrink
  <1>2. /\ sdfPc = "search" /\ sdfPc' = "search" /\ UNCHANGED <<cloud, offset, side, point, rows>>
        /\ CloudPoint' = CloudPoint /\ (\A row : RowRight(row)' = RowRight(row))
        /\ \A a : FirstDistance(a)' = FirstDistance(a)
    BY DEF Shrink, CloudPoint, RowRight, FirstDistance
  <1>3. /\ j \in CloudPoint /\ cloud.reach[side][point][j] <= distance
    <2>1. j \in CloudPoint /\ (cloud.reach[side][point][j] < distance
                                \/ cloud.reach[side][point][j] = distance)
      BY <1>1 DEF Nearest
    <2>2. /\ side \in {-1, 1} /\ point \in CloudPoint /\ distance \in 0..Never
          /\ cloud \in Clouds /\ offset \in Offsets
      BY DEF SdfInv
    <2>3. cloud.reach[side][point][j] \in 100..Never /\ Never \in Nat
      BY <2>1, <2>2, CloudFacts
    <2>. QED BY <2>1, <2>2, <2>3
  <1>4. PICK r \in 100..Never : r = cloud.reach[side][point][j]
    BY <1>3, CloudFacts DEF SdfInv
  <1>5. distance \in 1..FirstDistance(point) /\ FirstDistance(point) \in 1..Never /\ Never \in Nat
    BY <1>2, CloudFacts DEF SdfInv
  <1>6. distance' \in 1..FirstDistance(point) /\ distance' \in 0..Never
    BY <1>1, <1>3, <1>4, <1>5
  <1>7. \A a \in CloudPoint : \A s \in {-1, 1} : Passed(s, a)' <=> Passed(s, a)
    BY <1>2 DEF Passed, Before
  <1>. QED BY <1>2, <1>6, <1>7 DEF SdfInv

\* The row of the point and the side that are gone through next.
LEMMA AddPointKeeps ==
  ASSUME SdfInv, AddPoint
  PROVE  SdfInv'
  <1>. DEFINE row == [point |-> point, value |-> side * distance]
  <1>1. /\ sdfPc = "search" /\ point \in Nearest(distance) /\ rows' = Append(rows, row)
        /\ Advance /\ UNCHANGED <<cloud, offset, distance>>
        /\ CloudPoint' = CloudPoint /\ \A r : RowRight(r)' = RowRight(r)
    BY DEF AddPoint, CloudPoint, RowRight, FirstDistance
  <1>2. side' \in {-1, 1} /\ point' \in CloudPoint /\ sdfPc' \in {"next", "done"}
    BY <1>1, AdvanceTypes
  <1>3. /\ side \in {-1, 1} /\ distance \in 1..FirstDistance(point) /\ point \in CloudPoint
        /\ FirstDistance(point) \in 1..Never /\ cloud.normal[point]
    BY <1>1, CloudFacts DEF SdfInv
  <1>4. row.point = point /\ row.value \in Int /\ SideOf(row) = side /\ side * row.value = distance
    BY <1>3 DEF SideOf
  <1>5. RowRight(row)
    <2>1. \A b \in CloudPoint \ {point} : cloud.reach[side][point][b] >= distance
      <3>1. \A b \in CloudPoint \ {point} : ~(cloud.reach[side][point][b] < distance)
        BY <1>1, <1>3 DEF Nearest
      <3>2. \A b \in CloudPoint \ {point} : cloud.reach[side][point][b] \in 100..Never
        BY <1>3, CloudFacts DEF SdfInv
      <3>. QED BY <1>3, <3>1, <3>2
    <2>. QED BY <1>3, <1>4, <2>1 DEF RowRight
  <1>6. row \in [point : CloudPoint, value : Int]
    BY <1>3, <1>4
  <1>. HIDE DEF row
  <1>7. /\ rows \in Seq([point : CloudPoint, value : Int])
        /\ rows' \in Seq([point : CloudPoint, value : Int])
        /\ DOMAIN rows = 1..Len(rows) /\ Len(rows) \in Nat
        /\ DOMAIN rows' = 1..(Len(rows) + 1) /\ rows'[Len(rows) + 1] = row
        /\ \A k \in DOMAIN rows : rows'[k] = rows[k]
    BY <1>1, <1>6 DEF SdfInv
  <1>8. ASSUME NEW k \in DOMAIN rows' PROVE RowRight(rows'[k])
    <2>1. CASE k = Len(rows) + 1
      BY <1>5, <1>7, <2>1
    <2>2. CASE k # Len(rows) + 1
      BY <1>7, <2>2 DEF SdfInv
    <2>. QED BY <2>1, <2>2
  <1>9. ASSUME NEW a \in CloudPoint, NEW s \in {-1, 1}
        PROVE  (\E k \in DOMAIN rows' : rows'[k].point = a /\ SideOf(rows'[k]) = s)
                 <=> cloud.normal[a] /\ Passed(s, a)'
    <2>1. (\E k \in DOMAIN rows' : rows'[k].point = a /\ SideOf(rows'[k]) = s)
            <=> \/ \E k \in DOMAIN rows : rows[k].point = a /\ SideOf(rows[k]) = s
                \/ point = a /\ side = s
      <3>1. /\ Len(rows) + 1 \in DOMAIN rows'
            /\ \A k \in DOMAIN rows' : k \in DOMAIN rows \/ k = Len(rows) + 1
        BY <1>7
      <3>2. DOMAIN rows \subseteq DOMAIN rows'
        BY <1>7
      <3>. QED BY <1>4, <1>7, <3>1, <3>2
    <2>2. Passed(s, a)' <=> Passed(s, a) \/ (s = side /\ a = point)
      BY <1>1, AdvancePasses
    <2>. QED BY <1>3, <2>1, <2>2 DEF SdfInv
  <1>10. /\ cloud' \in Clouds /\ offset' \in Offsets /\ distance' \in 0..Never
         /\ rows' \in Seq([point : CloudPoint, value : Int]) /\ sdfPc' # "search"
    BY <1>1, <1>2, <1>7 DEF SdfInv
  <1>11. \A k \in DOMAIN rows' : RowRight(rows[k])'
    BY <1>1, <1>8 DEF RowRight, FirstDistance
  <1>. QED BY <1>1, <1>2, <1>9, <1>10, <1>11 DEF SdfInv

\* The invariant is kept by every step.
LEMMA SdfInvNext == SdfInv /\ [SdfNext]_sdfVars => SdfInv'
  <1>. SUFFICES ASSUME SdfInv, [SdfNext]_sdfVars PROVE SdfInv'
    OBVIOUS
  <1>1. CASE UNCHANGED sdfVars
    BY <1>1 DEF sdfVars, SdfInv, CloudPoint, RowRight, FirstDistance, Passed, Before
  <1>. QED BY <1>1, NoNormalKeeps, SdfStartKeeps, ShrinkKeeps, AddPointKeeps DEF SdfNext

\* The sign of a value is the side that it is on.
LEMMA RowSign ==
  ASSUME NEW row, row.value \in Int, SideOf(row) * row.value >= 1, NEW s \in {-1, 1}
  PROVE  s * row.value > 0 <=> SideOf(row) = s
  <1>1. CASE s = 1
    BY <1>1 DEF SideOf
  <1>2. CASE s = -1
    BY <1>2 DEF SideOf
  <1>. QED BY <1>1, <1>2

\* The values that are added, in words of OffsetsBelong.
LEMMA OffsetsRight == SdfInv => OffsetsBelong
  <1>. SUFFICES ASSUME SdfInv PROVE OffsetsBelong
    OBVIOUS
  <1>1. ASSUME NEW k \in DOMAIN rows
        PROVE  /\ RowRight(rows[k]) /\ rows[k].value \in Int /\ rows[k].point \in CloudPoint
               /\ SideOf(rows[k]) * rows[k].value \in 1..FirstDistance(rows[k].point)
               /\ \A s \in {-1, 1} : s * rows[k].value > 0 <=> SideOf(rows[k]) = s
    <2>1. RowRight(rows[k])
      BY DEF SdfInv
    <2>2. /\ rows[k].value \in Int /\ rows[k].point \in CloudPoint
          /\ SideOf(rows[k]) * rows[k].value \in 1..FirstDistance(rows[k].point)
      BY <2>1 DEF RowRight
    <2>3. SideOf(rows[k]) * rows[k].value >= 1
      BY <2>2
    <2>. QED BY <2>1, <2>2, <2>3, RowSign
  <1>2. ASSUME sdfPc = "done", NEW a \in CloudPoint, NEW s \in {-1, 1}
        PROVE  cloud.normal[a] <=> \E k \in DOMAIN rows : rows[k].point = a /\ s * rows[k].value > 0
    <2>1. cloud.normal[a] <=> \E k \in DOMAIN rows : rows[k].point = a /\ SideOf(rows[k]) = s
      BY <1>2 DEF SdfInv, Passed
    <2>. QED BY <1>1, <2>1
  <1>. QED BY <1>1, <1>2 DEF OffsetsBelong, RowRight, SideOf

\* SdfDataGenerator::estimate_impl, for any points and offset: the types.
THEOREM SdfTypes == SdfSpec => []SdfTypeOK
  <1>1. SdfInv => SdfTypeOK
    <2>. SUFFICES ASSUME SdfInv PROVE SdfTypeOK
      OBVIOUS
    <2>1. ASSUME NEW k \in DOMAIN rows
          PROVE  rows[k].point \in CloudPoint /\ rows[k].value \in -Never..Never
      <3>1. /\ rows[k].value \in Int /\ rows[k].point \in CloudPoint
            /\ SideOf(rows[k]) * rows[k].value \in 1..FirstDistance(rows[k].point)
        BY DEF SdfInv, RowRight
      <3>2. FirstDistance(rows[k].point) \in 1..Never /\ Never \in Nat
        BY <3>1, CloudFacts DEF SdfInv
      <3>. QED BY <3>1, <3>2 DEF SideOf
    <2>. QED BY <2>1 DEF SdfInv, SdfTypeOK
  <1>. QED BY <1>1, SdfInvInit, SdfInvNext, PTL DEF SdfSpec

\* NormalEstimator and SdfDataGenerator, for any points, neighbors and offsets: orientation
\* goes along the strongest links and reaches each normal once, and each added point is
\* nearest to its own one.
THEOREM NormalsAndOffsetsRight == NormalSpec /\ SdfSpec => []NormalsAndOffsets
  <1>1. NormalInv /\ SdfInv => NormalsAndOffsets
    BY OnceOriented, OffsetsRight DEF NormalInv, NormalsAndOffsets
  <1>. QED BY <1>1, NormalInvInit, NormalInvNext, SdfInvInit, SdfInvNext, PTL
         DEF NormalSpec, SdfSpec

-----------------------------------------------------------------------------
(* Cross validation *)

\* The members of S in their order.
LEMMA AscendingRight ==
  ASSUME NEW n \in Nat, NEW S \in SUBSET (1..n)
  PROVE  Ascending(S, n) \in Seq(Nat) /\ ToSet(Ascending(S, n)) = S
  <1>. DEFINE T == Seq(1..n)
              step == [k \in 1..n |-> [u \in T |-> IF k \in S THEN Append(u, k) ELSE u]]
              Rec(g) == g = [k \in 0..n |-> IF k = 0 THEN <<>>
                                            ELSE IF k \in S THEN Append(g[k - 1], k) ELSE g[k - 1]]
  <1>1. <<>> \in T
    OBVIOUS
  <1>2. step \in [1..n -> [T -> T]]
    <2>1. ASSUME NEW k \in 1..n, NEW u \in T
          PROVE  (IF k \in S THEN Append(u, k) ELSE u) \in T
      <3>1. u \in Seq(1..n) /\ k \in 1..n
        OBVIOUS
      <3>2. Append(u, k) \in Seq(1..n)
        BY <3>1
      <3>. QED BY <3>2
    <2>. HIDE DEF T
    <2>. QED BY <2>1
  <1>3. PICK f \in [0..n -> T] : f[0] = <<>> /\ \A k \in 1..n : f[k] = step[k][f[k - 1]]
    <2>. HIDE DEF step, T, Rec
    <2>1. PICK N, U, turn, none : N = n /\ U = T /\ turn = step /\ none = <<>>
      OBVIOUS
    <2>2. N \in Nat /\ none \in U /\ turn \in [1..N -> [U -> U]]
      BY <1>1, <1>2, <2>1
    <2>3. \E h : Runs(h, N, U, none, turn)
      BY <2>2, Recursion
    <2>. QED BY <2>1, <2>3 DEF Runs
  <1>4. \A k \in 1..n : f[k] = (IF k \in S THEN Append(f[k - 1], k) ELSE f[k - 1]) /\ f[k - 1] \in T
    <2>1. ASSUME NEW k \in 1..n
          PROVE  f[k] = (IF k \in S THEN Append(f[k - 1], k) ELSE f[k - 1]) /\ f[k - 1] \in T
      <3>1. k - 1 \in 0..n
        OBVIOUS
      <3>2. f[k - 1] \in T /\ f[k] = step[k][f[k - 1]]
        BY <1>3, <3>1
      <3>. HIDE DEF T
      <3>3. step[k] = [u \in T |-> IF k \in S THEN Append(u, k) ELSE u]
        OBVIOUS
      <3>. HIDE DEF step
      <3>. QED BY <3>2, <3>3
    <2>. QED BY <2>1
  <1>5. Rec(f)
    <2>1. \A k \in 0..n : f[k] = IF k = 0 THEN <<>>
                                 ELSE IF k \in S THEN Append(f[k - 1], k) ELSE f[k - 1]
      <3>1. \A k \in 0..n : k # 0 => k \in 1..n
        OBVIOUS
      <3>. HIDE DEF T, step
      <3>. QED BY <1>3, <1>4, <3>1
    <2>. HIDE DEF T, step
    <2>. QED BY <1>3, <2>1
  <1>6. PICK g : g = (CHOOSE h : Rec(h))
    OBVIOUS
  <1>7. Rec(g)
    <2>. HIDE DEF Rec
    <2>. QED BY <1>5, <1>6
  <1>8. Ascending(S, n) = g[n]
    BY <1>6 DEF Ascending
  <1>. DEFINE P == {k \in 0..n : g[k] \in T /\ ToSet(g[k]) = S \cap (1..k)}
  <1>9. 0 \in P
    <2>1. g[0] = <<>>
      BY <1>7
    <2>2. ToSet(<<>>) = {}
      <3>1. DOMAIN <<>> = {}
        OBVIOUS
      <3>. QED BY <3>1 DEF ToSet
    <2>3. S \cap (1..0) = {} /\ 0 \in 0..n
      OBVIOUS
    <2>. QED BY <1>1, <2>1, <2>2, <2>3
  <1>10. ASSUME NEW k \in 1..n, k - 1 \in P PROVE k \in P
    <2>1. k \in 0..n /\ k # 0 /\ g[k - 1] \in T /\ ToSet(g[k - 1]) = S \cap (1..(k - 1))
      BY <1>10
    <2>2. g[k] = IF k \in S THEN Append(g[k - 1], k) ELSE g[k - 1]
      BY <1>7, <2>1
    <2>3. PICK u \in T : u = g[k - 1]
      BY <2>1
    <2>4. ToSet(Append(u, k)) = ToSet(u) \cup {k} /\ Append(u, k) \in T
      <3>1. u \in Seq(1..n) /\ k \in 1..n
        BY <2>3
      <3>2. /\ Append(u, k) \in Seq(1..n) /\ DOMAIN u = 1..Len(u) /\ Len(u) \in Nat
            /\ DOMAIN Append(u, k) = 1..(Len(u) + 1) /\ Append(u, k)[Len(u) + 1] = k
            /\ \A a \in 1..Len(u) : Append(u, k)[a] = u[a]
        BY <3>1
      <3>3. 1..(Len(u) + 1) = (1..Len(u)) \cup {Len(u) + 1}
        BY <3>2
      <3>4. ToSet(Append(u, k)) = ToSet(u) \cup {k}
        BY <3>2, <3>3 DEF ToSet
      <3>. QED BY <3>2, <3>4
    <2>5. 1..k = (1..(k - 1)) \cup {k}
      OBVIOUS
    <2>. HIDE DEF T, Rec
    <2>6. g[k] \in T /\ ToSet(g[k]) = S \cap (1..k)
      BY <2>1, <2>2, <2>3, <2>4, <2>5
    <2>. QED BY <2>1, <2>6
  <1>11. n \in P
    <2>1. \A k \in 0..n : k \in P
      <3>. HIDE DEF P
      <3>. QED BY <1>9, <1>10, UpTo
    <2>. HIDE DEF P
    <2>. QED BY <2>1
  <1>12. g[n] \in Seq(Nat)
    BY <1>11
  <1>. QED BY <1>8, <1>11, <1>12

\* The points of one set, and those of all others.
SetOf(id) == {i \in CrossPoints : set_ids[i] = id}
OthersOf(id) == {i \in CrossPoints : set_ids[i] # id}
Predicted(i) == predictions[i] \in Seq(Nat) /\ ToSet(predictions[i]) = OthersOf(set_ids[i])

\* A point's set is still to be taken, or is the one that is held out, or the point was
\* predicted from all others.
CrossInv ==
  /\ set_ids \in SetIds
  /\ ids \subseteq ToSet(set_ids)
  /\ cvPc \in {"next", "fit", "predict", "done", "thrown"}
  /\ cvCenters = NotYet \/ ToSet(cvCenters) \subseteq CrossPoints
  /\ predictions \in [CrossPoints -> Seq(Nat) \cup {NotYet}]
  /\ cvPc = "done" => ids = {}
  /\ cvPc \in {"fit", "predict"} =>
       \E id \in ToSet(set_ids) :
         /\ ToSet(test_set) = SetOf(id)
         /\ train_set \in Seq(Nat) /\ ToSet(train_set) = OthersOf(id)
         /\ cvPc = "predict" => cvCenters = train_set
         /\ \A i \in CrossPoints : set_ids[i] \in ids \cup {id} \/ Predicted(i)
  /\ cvPc \in {"next", "done"} => \A i \in CrossPoints : set_ids[i] \in ids \/ Predicted(i)

\* The points of the sets, and their sets.
LEMMA CrossFacts ==
  ASSUME set_ids \in SetIds
  PROVE  /\ CrossPoints = 1..Len(set_ids) /\ Len(set_ids) \in Nat /\ L \in Nat
         /\ NotYet \notin Seq(Nat) /\ \A i \in CrossPoints : set_ids[i] \in ToSet(set_ids)
  <1>1. set_ids \in Seq(Int) /\ L \in Nat /\ NotYet \notin Seq(Nat)
    BY CrossAssumption
  <1>2. DOMAIN set_ids = 1..Len(set_ids) /\ Len(set_ids) \in Nat
    BY <1>1
  <1>. QED BY <1>1, <1>2 DEF CrossPoints, ToSet

\* Cross validation starts with every set to come.
LEMMA CrossInvInit == CrossInit => CrossInv
  <1>. SUFFICES ASSUME CrossInit PROVE CrossInv
    OBVIOUS
  <1>. QED BY CrossFacts DEF CrossInit, CrossInv

\* The points that are not in a set are in the others.
LEMMA TakeSetKeeps ==
  ASSUME CrossInv, NEW id \in ids, TakeSet(id)
  PROVE  CrossInv'
  <1>1. /\ cvPc = "next" /\ ids' = ids \ {id} /\ cvCenters' = NotYet /\ cvPc' = "fit"
        /\ test_set' = Ascending(SetOf(id), Len(set_ids))
        /\ train_set' = complementary_indices(test_set', Len(set_ids))
        /\ UNCHANGED <<set_ids, predictions>>
    BY DEF TakeSet, SetOf
  <1>2. /\ CrossPoints = 1..Len(set_ids) /\ Len(set_ids) \in Nat
        /\ set_ids \in SetIds /\ ids \subseteq ToSet(set_ids)
        /\ predictions \in [CrossPoints -> Seq(Nat) \cup {NotYet}]
        /\ \A i \in CrossPoints : set_ids[i] \in ids \/ Predicted(i)
    BY <1>1, CrossFacts DEF CrossInv
  <1>3. SetOf(id) \subseteq 1..Len(set_ids)
    BY <1>2 DEF SetOf
  <1>4. ToSet(test_set') = SetOf(id)
    BY <1>1, <1>2, <1>3, AscendingRight
  <1>5. train_set' \in Seq(Nat) /\ ToSet(train_set') = (1..Len(set_ids)) \ SetOf(id)
    <2>1. train_set' = Ascending((1..Len(set_ids)) \ SetOf(id), Len(set_ids))
      BY <1>1, <1>4 DEF complementary_indices
    <2>2. (1..Len(set_ids)) \ SetOf(id) \subseteq 1..Len(set_ids)
      OBVIOUS
    <2>. QED BY <1>2, <2>1, <2>2, AscendingRight
  <1>6. (1..Len(set_ids)) \ SetOf(id) = OthersOf(id)
    BY <1>2 DEF SetOf, OthersOf
  <1>7. CrossPoints' = CrossPoints /\ SetOf(id)' = SetOf(id) /\ OthersOf(id)' = OthersOf(id)
        /\ \A i \in CrossPoints : Predicted(i)' = Predicted(i)
    BY <1>1 DEF CrossPoints, SetOf, OthersOf, Predicted
  <1>8. \A i \in CrossPoints : set_ids[i] \in ids' \cup {id} \/ Predicted(i)'
    BY <1>1, <1>2, <1>7
  <1>9. id \in ToSet(set_ids) /\ ids' \subseteq ToSet(set_ids)
    BY <1>1, <1>2
  <1>10. \E e \in ToSet(set_ids)' :
           /\ ToSet(test_set)' = SetOf(e)'
           /\ train_set' \in Seq(Nat) /\ ToSet(train_set)' = OthersOf(e)'
           /\ \A i \in CrossPoints' : set_ids'[i] \in ids' \cup {e} \/ Predicted(i)'
    BY <1>1, <1>4, <1>5, <1>6, <1>7, <1>8, <1>9
  <1>. QED BY <1>1, <1>2, <1>7, <1>9, <1>10 DEF CrossInv

\* Every step of cross validation keeps it.
LEMMA CrossInvNext == CrossInv /\ [CrossNext]_cvVars => CrossInv'
  <1>. SUFFICES ASSUME CrossInv, [CrossNext]_cvVars PROVE CrossInv'
    OBVIOUS
  <1>1. ASSUME NEW id \in ids, TakeSet(id) PROVE CrossInv'
    BY <1>1, TakeSetKeeps
  <1>2. UNCHANGED set_ids => /\ CrossPoints' = CrossPoints
                             /\ \A id : SetOf(id)' = SetOf(id) /\ OthersOf(id)' = OthersOf(id)
    BY DEF CrossPoints, SetOf, OthersOf
  <1>3. UNCHANGED <<set_ids, predictions>> => \A i : Predicted(i)' = Predicted(i)
    BY DEF CrossPoints, OthersOf, Predicted
  <1>4. CASE FitSet
    <2>1. /\ cvPc = "fit" /\ cvPc' = "predict" /\ cvCenters' = train_set
          /\ UNCHANGED <<set_ids, ids, test_set, train_set, predictions>>
      BY <1>4 DEF FitSet
    <2>2. PICK id \in ToSet(set_ids) :
            /\ ToSet(test_set) = SetOf(id)
            /\ train_set \in Seq(Nat) /\ ToSet(train_set) = OthersOf(id)
            /\ \A i \in CrossPoints : set_ids[i] \in ids \cup {id} \/ Predicted(i)
      BY <2>1 DEF CrossInv
    <2>3. ToSet(cvCenters)' \subseteq CrossPoints'
      BY <1>2, <2>1, <2>2 DEF OthersOf
    <2>4. \E e \in ToSet(set_ids)' :
           /\ ToSet(test_set)' = SetOf(e)'
           /\ train_set' \in Seq(Nat) /\ ToSet(train_set)' = OthersOf(e)'
           /\ cvCenters' = train_set'
           /\ \A i \in CrossPoints' : set_ids'[i] \in ids' \cup {e} \/ Predicted(i)'
      BY <1>2, <1>3, <2>1, <2>2
    <2>. QED BY <1>2, <1>3, <2>1, <2>3, <2>4 DEF CrossInv
  <1>5. CASE FailSet
    <2>1. cvPc' = "thrown"
            /\ UNCHANGED <<set_ids, ids, test_set, train_set, cvCenters, predictions>>
      BY <1>5 DEF FailSet
    <2>. QED BY <1>2, <2>1 DEF CrossInv
  <1>6. CASE Predict
    <2>1. /\ cvPc = "predict" /\ cvPc' = "next"
          /\ UNCHANGED <<set_ids, ids, test_set, train_set, cvCenters>>
          /\ predictions'
               = [i \in CrossPoints |-> IF i \in ToSet(test_set) THEN cvCenters ELSE predictions[i]]
      BY <1>6 DEF Predict
    <2>2. PICK id \in ToSet(set_ids) :
            /\ ToSet(test_set) = SetOf(id) /\ cvCenters = train_set
            /\ train_set \in Seq(Nat) /\ ToSet(train_set) = OthersOf(id)
            /\ \A i \in CrossPoints : set_ids[i] \in ids \cup {id} \/ Predicted(i)
      BY <2>1 DEF CrossInv
    <2>3. predictions' \in [CrossPoints -> Seq(Nat) \cup {NotYet}]
      <3>1. predictions \in [CrossPoints -> Seq(Nat) \cup {NotYet}]
        BY DEF CrossInv
      <3>. QED BY <2>1, <2>2, <3>1
    <2>4. \A i \in CrossPoints : set_ids[i] \in ids \/ Predicted(i)'
      <3>1. ASSUME NEW i \in CrossPoints, set_ids[i] = id PROVE Predicted(i)'
        <4>1. i \in ToSet(test_set)
          BY <2>2, <3>1 DEF SetOf
        <4>2. predictions'[i] = train_set
          BY <2>1, <2>2, <4>1
        <4>. QED BY <1>2, <2>1, <2>2, <3>1, <4>2 DEF Predicted
      <3>2. ASSUME NEW i \in CrossPoints, set_ids[i] # id, Predicted(i) PROVE Predicted(i)'
        <4>1. i \notin ToSet(test_set)
          BY <2>2, <3>2 DEF SetOf
        <4>2. predictions'[i] = predictions[i]
          BY <2>1, <4>1
        <4>. QED BY <1>2, <2>1, <3>2, <4>2 DEF Predicted
      <3>. QED BY <2>2, <3>1, <3>2
    <2>. QED BY <1>2, <2>1, <2>3, <2>4 DEF CrossInv
  <1>7. CASE ReturnPredictions
    <2>1. /\ cvPc = "next" /\ ids = {} /\ cvPc' = "done"
          /\ UNCHANGED <<set_ids, ids, test_set, train_set, cvCenters, predictions>>
      BY <1>7 DEF ReturnPredictions
    <2>. QED BY <1>2, <1>3, <2>1 DEF CrossInv
  <1>8. CASE UNCHANGED cvVars
    BY <1>2, <1>3, <1>8 DEF cvVars, CrossInv
  <1>. QED BY <1>1, <1>4, <1>5, <1>6, <1>7, <1>8 DEF CrossNext

\* Once all sets are done, the others' points predicted every point.
LEMMA HeldOutHolds == CrossInv => HeldOut
  <1>. SUFFICES ASSUME CrossInv, cvPc = "done", NEW i \in CrossPoints
                PROVE  predictions[i] # NotYet
                         /\ ToSet(predictions[i]) = {j \in CrossPoints : set_ids[j] # set_ids[i]}
    BY DEF HeldOut
  <1>1. Predicted(i)
    BY DEF CrossInv
  <1>2. NotYet \notin Seq(Nat)
    BY CrossFacts DEF CrossInv
  <1>. QED BY <1>1, <1>2 DEF Predicted, OthersOf

\* The types of the variables of cross_validate.
THEOREM CrossTypes == CrossSpec => []CrossTypeOK
  <1>1. CrossInv => CrossTypeOK
    BY DEF CrossInv, CrossTypeOK
  <1>. QED BY <1>1, CrossInvInit, CrossInvNext, PTL DEF CrossSpec

\* cross_validate predicts each point from the points of all other sets.
THEOREM HeldOutAlways == CrossSpec => []HeldOut
  BY CrossInvInit, CrossInvNext, HeldOutHolds, PTL DEF CrossSpec

-----------------------------------------------------------------------------
(* Angles of an anisotropy *)

Surds == Int \X Int
Signs == [1..3 -> {1, -1}]
Matrices == [1..3 -> [1..3 -> Surds]]
Signed(e, u) == IF e = 1 THEN u ELSE Minus(u)
\* Rows of m are those of n by the signs r, and columns by the signs s.
TurnedBy(r, s, m, n) == \A i, j \in 1..3 : m[i][j] = Signed(r[i] * s[j], n[i][j])

\* Numbers a + b * sqrt(2) are closed under their operations, and signs are too.
LEMMA SignedSurds ==
  ASSUME NEW u \in Surds, NEW v \in Surds, NEW d \in {1, -1}, NEW e \in {1, -1}
  PROVE  /\ Minus(u) \in Surds /\ Plus(u, v) \in Surds /\ Times(u, v) \in Surds
         /\ Signed(e, u) \in Surds
         /\ Plus(Signed(e, u), Signed(e, v)) = Signed(e, Plus(u, v))
         /\ Times(Signed(d, u), Signed(e, v)) = Signed(d * e, Times(u, v))
         /\ Minus(Minus(u)) = u
         /\ Signed(d, Signed(e, u)) = Signed(d * e, u)
  <1>1. PICK a \in Int, b \in Int : u = <<a, b>>
    BY DEF Surds
  <1>2. PICK g \in Int, h \in Int : v = <<g, h>>
    BY DEF Surds
  <1>3. Minus(u) = <<-a, -b>> /\ Minus(v) = <<-g, -h>> /\ Plus(u, v) = <<a + g, b + h>>
    BY <1>1, <1>2 DEF Minus, Plus
  <1>4. Times(u, v) = <<(a * g) + (2 * b * h), (a * h) + (b * g)>>
    BY <1>1, <1>2 DEF Times
  <1>5. /\ Minus(Minus(u)) = u /\ Minus(u) \in Surds /\ Plus(u, v) \in Surds
             /\ Times(u, v) \in Surds
    BY <1>1, <1>3, <1>4 DEF Minus, Surds
  <1>6. Plus(Minus(u), Minus(v)) = Minus(Plus(u, v))
    BY <1>3 DEF Plus, Minus
  <1>7. /\ Times(Minus(u), v) = Minus(Times(u, v))
        /\ Times(u, Minus(v)) = Minus(Times(u, v))
        /\ Times(Minus(u), Minus(v)) = Times(u, v)
    <2>1. \A x1, y1 \in Int : (-x1) * y1 = -(x1 * y1) /\ x1 * (-y1) = -(x1 * y1)
            /\ (-x1) * (-y1) = x1 * y1
      OBVIOUS
    <2>2. PICK ag \in Int, bh \in Int, ah \in Int, bg \in Int :
            ag = a * g /\ bh = (2 * b) * h /\ ah = a * h /\ bg = b * g
      OBVIOUS
    <2>3. Times(u, v) = <<ag + bh, ah + bg>>
      BY <1>4, <2>2
    <2>4. Times(Minus(u), v) = <<(-ag) + (-bh), (-ah) + (-bg)>>
      BY <1>1, <1>2, <1>3, <2>2 DEF Times
    <2>5. Times(u, Minus(v)) = <<(-ag) + (-bh), (-ah) + (-bg)>>
      BY <1>1, <1>2, <1>3, <2>2 DEF Times
    <2>6. Times(Minus(u), Minus(v)) = <<ag + bh, ah + bg>>
      BY <1>1, <1>2, <1>3, <2>2 DEF Times
    <2>7. Minus(Times(u, v)) = <<-(ag + bh), -(ah + bg)>>
      BY <2>3 DEF Minus
    <2>. QED BY <2>3, <2>4, <2>5, <2>6, <2>7
  <1>. QED BY <1>5, <1>6, <1>7 DEF Signed

\* Signs of the first matrix's columns and of the second's rows cancel.
LEMMA SignedProduct ==
  ASSUME NEW k \in Matrices, NEW l \in Matrices, NEW o \in Matrices, NEW p \in Matrices,
         NEW r \in Signs, NEW s \in Signs, NEW t \in Signs,
         TurnedBy(r, s, k, l), TurnedBy(s, t, o, p)
  PROVE  TurnedBy(r, t, Product(k, o), Product(l, p))
  <1>1. ASSUME NEW i \in 1..3, NEW j \in 1..3
        PROVE  Product(k, o)[i][j] = Signed(r[i] * t[j], Product(l, p)[i][j])
    <2>. DEFINE e == r[i] * t[j]
                T(g) == Times(l[i][g], p[g][j])
    <2>1. /\ Product(k, o)[i][j]
               = Plus(Plus(Times(k[i][1], o[1][j]), Times(k[i][2], o[2][j])), Times(k[i][3], o[3][j]))
          /\ Product(l, p)[i][j] = Plus(Plus(T(1), T(2)), T(3))
      BY DEF Product
    <2>2. e \in {1, -1}
      BY DEF Signs
    <2>3. ASSUME NEW g \in 1..3 PROVE Times(k[i][g], o[g][j]) = Signed(e, T(g)) /\ T(g) \in Surds
      <3>1. k[i][g] = Signed(r[i] * s[g], l[i][g]) /\ o[g][j] = Signed(s[g] * t[j], p[g][j])
        BY DEF TurnedBy
      <3>2. l[i][g] \in Surds /\ p[g][j] \in Surds
        BY DEF Matrices
      <3>3. r[i] \in {1, -1} /\ s[g] \in {1, -1} /\ t[j] \in {1, -1}
        BY DEF Signs
      <3>4. r[i] * s[g] \in {1, -1} /\ s[g] * t[j] \in {1, -1} /\ (r[i] * s[g]) * (s[g] * t[j]) = e
        BY <3>3
      <3>5. PICK c \in {1, -1}, d \in {1, -1} : c = r[i] * s[g] /\ d = s[g] * t[j] /\ c * d = e
        BY <3>4
      <3>6. Times(Signed(c, l[i][g]), Signed(d, p[g][j])) = Signed(c * d, T(g)) /\ T(g) \in Surds
        <4>1. PICK u \in Surds, v \in Surds : u = l[i][g] /\ v = p[g][j]
          BY <3>2
        <4>2. Times(Signed(c, u), Signed(d, v)) = Signed(c * d, Times(u, v)) /\ Times(u, v) \in Surds
          BY SignedSurds
        <4>. QED BY <4>1, <4>2
      <3>. QED BY <3>1, <3>5, <3>6
    <2>. HIDE DEF e, T
    <2>4. PICK a \in Surds, b \in Surds, c \in Surds : a = T(1) /\ b = T(2) /\ c = T(3)
      BY <2>3
    <2>5. /\ Times(k[i][1], o[1][j]) = Signed(e, a) /\ Times(k[i][2], o[2][j]) = Signed(e, b)
          /\ Times(k[i][3], o[3][j]) = Signed(e, c)
      BY <2>3, <2>4
    <2>6. Plus(Signed(e, a), Signed(e, b)) = Signed(e, Plus(a, b)) /\ Plus(a, b) \in Surds
      BY <2>2, SignedSurds
    <2>7. PICK ab \in Surds : ab = Plus(a, b)
      BY <2>6
    <2>8. Plus(Signed(e, ab), Signed(e, c)) = Signed(e, Plus(ab, c))
      BY <2>2, SignedSurds
    <2>9. Product(k, o)[i][j] = Signed(e, Product(l, p)[i][j])
      BY <2>1, <2>4, <2>5, <2>6, <2>7, <2>8
    <2>. QED BY <2>9 DEF e
  <1>. QED BY <1>1 DEF TurnedBy

\* The product of two such matrices is one.
LEMMA MatrixProductType ==
  ASSUME NEW k \in Matrices, NEW l \in Matrices
  PROVE  Product(k, l) \in Matrices
  <1>1. ASSUME NEW i \in 1..3, NEW j \in 1..3
        PROVE  Plus(Plus(Times(k[i][1], l[1][j]), Times(k[i][2], l[2][j])),
                 Times(k[i][3], l[3][j])) \in Surds
    <2>1. ASSUME NEW g \in 1..3 PROVE Times(k[i][g], l[g][j]) \in Surds
      <3>1. k[i][g] \in Surds /\ l[g][j] \in Surds /\ 1 \in {1, -1}
        BY DEF Matrices
      <3>. QED BY <3>1, SignedSurds
    <2>2. PICK a \in Surds, b \in Surds, c \in Surds :
             a = Times(k[i][1], l[1][j]) /\ b = Times(k[i][2], l[2][j])
               /\ c = Times(k[i][3], l[3][j])
      BY <2>1
    <2>3. Plus(a, b) \in Surds
      BY SignedSurds
    <2>. QED BY <2>2, <2>3, SignedSurds
  <1>0. PICK f : f = Product(k, l)
    OBVIOUS
  <1>2. f = [i \in 1..3 |-> [j \in 1..3 |->
            Plus(Plus(Times(k[i][1], l[1][j]), Times(k[i][2], l[2][j])), Times(k[i][3], l[3][j]))]]
    BY <1>0 DEF Product
  <1>3. \A i \in 1..3 : f[i] \in [1..3 -> Surds]
    BY <1>1, <1>2
  <1>4. f \in [1..3 -> [1..3 -> Surds]]
    BY <1>2, <1>3
  <1>5. f \in Matrices
    BY <1>4 DEF Matrices
  <1>. QED BY <1>0, <1>5

\* Angles of k times 45 degrees: of the same multiple, half a turn further and turned back.
Same(k, l) == k % 8 = l % 8

\* The table of the eight angles has all of these.
LEMMA Octants ==
  ASSUME NEW k \in Int
  PROVE  /\ Cos(45 * k) \in Surds /\ Sin(45 * k) \in Surds
         /\ Cos(45 * (k + 4)) = Minus(Cos(45 * k)) /\ Sin(45 * (k + 4)) = Minus(Sin(45 * k))
         /\ Cos(-(45 * k)) = Cos(45 * k) /\ Sin(-(45 * k)) = Minus(Sin(45 * k))
         /\ \A l \in Int : Same(k, l) => Cos(45 * k) = Cos(45 * l) /\ Sin(45 * k) = Sin(45 * l)
  <1>. DEFINE Table ==
         <<<<2, 0>>, <<0, 1>>, <<0, 0>>, <<0, -1>>, <<-2, 0>>, <<0, -1>>, <<0, 0>>, <<0, 1>>>>
              At8(i) == Table[i + 1]
  <1>1. \A l \in Int : Cos(45 * l) = At8(l % 8) /\ Sin(45 * l) = At8((l - 2) % 8)
    <2>1. ASSUME NEW l \in Int PROVE (45 * l) \div 45 = l /\ ((45 * l) - 90) \div 45 = l - 2
      OBVIOUS
    <2>. QED BY <2>1 DEF Cos, Sin
  <1>2. \A i \in 0..7 : At8(i) \in Surds /\ At8((i + 4) % 8) = Minus(At8(i))
          /\ At8((-i) % 8) = At8(i)
    <2>1. \A i \in 0..7 : i = 0 \/ i = 1 \/ i = 2 \/ i = 3 \/ i = 4 \/ i = 5 \/ i = 6 \/ i = 7
      OBVIOUS
    <2>. QED BY <2>1 DEF Surds, Minus
  <1>. HIDE DEF At8
  <1>3. \A l \in Int : /\ l % 8 \in 0..7 /\ (l - 2) % 8 \in 0..7
                       /\ ((l + 4) % 8) = ((l % 8) + 4) % 8 /\ ((-l) % 8) = (-(l % 8)) % 8
                       /\ (((l + 4) - 2) % 8) = (((l - 2) % 8) + 4) % 8
                       /\ ((-l) - 2) % 8 = ((-((l - 2) % 8)) + 4) % 8
    OBVIOUS
  <1>4. -(45 * k) = 45 * (-k) /\ -k \in Int /\ k + 4 \in Int
    OBVIOUS
  <1>5. Cos(45 * k) \in Surds /\ Sin(45 * k) \in Surds
    BY <1>1, <1>2, <1>3
  <1>6. Cos(45 * (k + 4)) = Minus(Cos(45 * k))
    <2>1. PICK i \in 0..7 : i = k % 8
      BY <1>3
    <2>2. Cos(45 * (k + 4)) = At8((i + 4) % 8) /\ Cos(45 * k) = At8(i)
      BY <1>1, <1>3, <1>4, <2>1
    <2>. QED BY <1>2, <2>2
  <1>7. Sin(45 * (k + 4)) = Minus(Sin(45 * k))
    <2>1. Sin(45 * (k + 4)) = At8(((k + 4) - 2) % 8)
      BY <1>1, <1>4
    <2>. QED BY <1>1, <1>2, <1>3, <2>1
  <1>8. Cos(-(45 * k)) = Cos(45 * k)
    <2>1. PICK i \in 0..7 : i = k % 8
      BY <1>3
    <2>2. Cos(-(45 * k)) = At8((-i) % 8) /\ Cos(45 * k) = At8(i)
      BY <1>1, <1>3, <1>4, <2>1
    <2>. QED BY <1>2, <2>2
  <1>9. Sin(-(45 * k)) = Minus(Sin(45 * k))
    <2>1. PICK i \in 0..7 : i = (k - 2) % 8
      BY <1>3
    <2>2. Sin(-(45 * k)) = At8(((-i) + 4) % 8)
      BY <1>1, <1>3, <1>4, <2>1
    <2>3. PICK j \in 0..7 : j = (-i) % 8 /\ ((-i) + 4) % 8 = (j + 4) % 8
      BY <2>1
    <2>4. At8((j + 4) % 8) = Minus(At8(j)) /\ At8(j) = At8(i)
      BY <1>2, <2>1, <2>3
    <2>. QED BY <1>1, <2>1, <2>2, <2>3, <2>4
  <1>10. \A l \in Int : Same(k, l) => Cos(45 * k) = Cos(45 * l) /\ Sin(45 * k) = Sin(45 * l)
    <2>1. \A l \in Int : Same(k, l) => (k - 2) % 8 = (l - 2) % 8 /\ k % 8 = l % 8
      BY DEF Same
    <2>. QED BY <1>1, <2>1
  <1>. QED BY <1>5, <1>6, <1>7, <1>8, <1>9, <1>10

\* A turn by an angle whose cosine and sine differ by signs.
LEMMA TurnSigns ==
  ASSUME NEW th, NEW y, Cos(th) \in Surds, Sin(th) \in Surds, Cos(y) \in Surds, Sin(y) \in Surds,
         NEW a \in {1, -1}, NEW b \in {1, -1}, Cos(th) = Signed(a, Cos(y)),
         Sin(th) = Signed(b, Sin(y)),
         NEW r \in Signs, NEW s \in Signs
  PROVE  /\ TurnZ(y) \in Matrices /\ TurnX(y) \in Matrices
         /\ /\ r[1] * s[1] = a /\ r[2] * s[2] = a /\ r[1] * s[2] = b /\ r[2] * s[1] = b
            /\ r[3] * s[3] = 1
            => TurnedBy(r, s, TurnZ(th), TurnZ(y))
         /\ /\ r[2] * s[2] = a /\ r[3] * s[3] = a /\ r[2] * s[3] = b /\ r[3] * s[2] = b
            /\ r[1] * s[1] = 1
            => TurnedBy(r, s, TurnX(th), TurnX(y))
  <1>1. PICK c \in Surds, d \in Surds, e \in Surds, f \in Surds :
          c = Cos(th) /\ d = Sin(th) /\ e = Cos(y) /\ f = Sin(y)
    OBVIOUS
  <1>2. c = Signed(a, e) /\ d = Signed(b, f) /\ Minus(d) = Signed(b, Minus(f))
    <2>1. PICK g \in Int, h \in Int : f = <<g, h>>
      BY DEF Surds
    <2>. QED BY <1>1, <2>1 DEF Signed, Minus
  <1>3. Minus(f) \in Surds /\ <<0, 0>> \in Surds /\ <<2, 0>> \in Surds
    <2>1. Minus(f) \in Surds
      BY SignedSurds
    <2>. QED BY <2>1 DEF Surds
  <1>4. \A g \in {1, -1} : Signed(g, <<0, 0>>) = <<0, 0>>
    BY DEF Signed, Minus
  <1>5. \A i, j \in 1..3 : r[i] * s[j] \in {1, -1}
    BY DEF Signs
  <1>6. 1..3 = {1, 2, 3}
    OBVIOUS
  <1>7. TurnZ(y) \in Matrices
    <2>1. PICK m : m = TurnZ(y)
      OBVIOUS
    <2>2. m = <<<<e, Minus(f), <<0, 0>>>>, <<f, e, <<0, 0>>>>, <<<<0, 0>>, <<0, 0>>, <<2, 0>>>>>>
      BY <1>1, <2>1 DEF TurnZ
    <2>3. \A i \in 1..3 : m[i] \in [1..3 -> Surds]
      BY <1>3, <2>2
    <2>4. m \in [1..3 -> [1..3 -> Surds]]
      BY <2>2, <2>3
    <2>. QED BY <2>1, <2>4 DEF Matrices
  <1>8. TurnX(y) \in Matrices
    <2>1. PICK m : m = TurnX(y)
      OBVIOUS
    <2>2. m = <<<<<<2, 0>>, <<0, 0>>, <<0, 0>>>>, <<<<0, 0>>, e, Minus(f)>>, <<<<0, 0>>, f, e>>>>
      BY <1>1, <2>1 DEF TurnX
    <2>3. \A i \in 1..3 : m[i] \in [1..3 -> Surds]
      BY <1>3, <2>2
    <2>4. m \in [1..3 -> [1..3 -> Surds]]
      BY <2>2, <2>3
    <2>. QED BY <2>1, <2>4 DEF Matrices
  <1>9. ASSUME r[1] * s[1] = a, r[2] * s[2] = a, r[1] * s[2] = b, r[2] * s[1] = b, r[3] * s[3] = 1
        PROVE  TurnedBy(r, s, TurnZ(th), TurnZ(y))
    <2>1. PICK m : m = TurnZ(y)
      OBVIOUS
    <2>2. m = <<<<e, Minus(f), <<0, 0>>>>, <<f, e, <<0, 0>>>>, <<<<0, 0>>, <<0, 0>>, <<2, 0>>>>>>
      BY <1>1, <2>1 DEF TurnZ
    <2>3. PICK n : n = TurnZ(th)
      OBVIOUS
    <2>4. n = <<<<c, Minus(d), <<0, 0>>>>, <<d, c, <<0, 0>>>>, <<<<0, 0>>, <<0, 0>>, <<2, 0>>>>>>
      BY <1>1, <2>3 DEF TurnZ
    <2>5. \A j \in 1..3 : n[1][j] = Signed(r[1] * s[j], m[1][j])
      BY <1>2, <1>4, <1>5, <1>6, <1>9, <2>2, <2>4
    <2>6. \A j \in 1..3 : n[2][j] = Signed(r[2] * s[j], m[2][j])
      BY <1>2, <1>4, <1>5, <1>6, <1>9, <2>2, <2>4
    <2>7. Signed(1, <<2, 0>>) = <<2, 0>>
      BY DEF Signed
    <2>8. \A j \in 1..3 : n[3][j] = Signed(r[3] * s[j], m[3][j])
      BY <1>4, <1>5, <1>6, <1>9, <2>2, <2>4, <2>7
    <2>. QED BY <1>6, <2>1, <2>3, <2>5, <2>6, <2>8 DEF TurnedBy
  <1>10. ASSUME r[2] * s[2] = a, r[3] * s[3] = a, r[2] * s[3] = b, r[3] * s[2] = b, r[1] * s[1] = 1
         PROVE  TurnedBy(r, s, TurnX(th), TurnX(y))
    <2>1. PICK m : m = TurnX(y)
      OBVIOUS
    <2>2. m = <<<<<<2, 0>>, <<0, 0>>, <<0, 0>>>>, <<<<0, 0>>, e, Minus(f)>>, <<<<0, 0>>, f, e>>>>
      BY <1>1, <2>1 DEF TurnX
    <2>3. PICK n : n = TurnX(th)
      OBVIOUS
    <2>4. n = <<<<<<2, 0>>, <<0, 0>>, <<0, 0>>>>, <<<<0, 0>>, c, Minus(d)>>, <<<<0, 0>>, d, c>>>>
      BY <1>1, <2>3 DEF TurnX
    <2>5. \A j \in 1..3 : n[2][j] = Signed(r[2] * s[j], m[2][j])
      BY <1>2, <1>4, <1>5, <1>6, <1>10, <2>2, <2>4
    <2>6. \A j \in 1..3 : n[3][j] = Signed(r[3] * s[j], m[3][j])
      BY <1>2, <1>4, <1>5, <1>6, <1>10, <2>2, <2>4
    <2>7. Signed(1, <<2, 0>>) = <<2, 0>>
      BY DEF Signed
    <2>8. \A j \in 1..3 : n[1][j] = Signed(r[1] * s[j], m[1][j])
      BY <1>4, <1>5, <1>6, <1>10, <2>2, <2>4, <2>7
    <2>. QED BY <1>6, <2>1, <2>3, <2>5, <2>6, <2>8 DEF TurnedBy
  <1>. QED BY <1>7, <1>8, <1>9, <1>10

\* Such turns one after the other.
Positive == <<1, 1, 1>>

\* The axes of three such turns are those of the other three, or opposite.
LEMMA RotationSigns ==
  ASSUME NEW x1, NEW x2, NEW x3, NEW y1, NEW y2, NEW y3,
         TurnZ(x1) \in Matrices, TurnX(x2) \in Matrices, TurnZ(x3) \in Matrices,
         TurnZ(y1) \in Matrices, TurnX(y2) \in Matrices, TurnZ(y3) \in Matrices,
         NEW s \in Signs, NEW t \in Signs, NEW u \in Signs,
         TurnedBy(Positive, s, TurnZ(x1), TurnZ(y1)), TurnedBy(s, t, TurnX(x2), TurnX(y2)),
         TurnedBy(t, u, TurnZ(x3), TurnZ(y3))
  PROVE  \A j \in 1..3 : SameAxis(Axis(Rotation(y1, y2, y3), j), Axis(Rotation(x1, x2, x3), j))
  <1>1. PICK k \in Matrices, l \in Matrices :
          k = Product(TurnX(x2), TurnZ(x3)) /\ l = Product(TurnX(y2), TurnZ(y3))
    <2>1. \A a, b \in Matrices : Product(a, b) \in Matrices
      BY MatrixProductType
    <2>. QED BY <2>1
  <1>2. TurnedBy(s, u, k, l)
    BY <1>1, SignedProduct
  <1>3. PICK v \in Matrices, w \in Matrices : v = Product(TurnZ(x1), k) /\ w = Product(TurnZ(y1), l)
    <2>1. \A a, b \in Matrices : Product(a, b) \in Matrices
      BY MatrixProductType
    <2>. QED BY <2>1
  <1>4. Positive \in Signs
    BY DEF Positive, Signs
  <1>5. TurnedBy(Positive, u, v, w)
    BY <1>2, <1>3, <1>4, SignedProduct
  <1>6. v = Rotation(x1, x2, x3) /\ w = Rotation(y1, y2, y3)
    BY <1>1, <1>3 DEF Rotation
  <1>7. ASSUME NEW j \in 1..3 PROVE SameAxis(Axis(w, j), Axis(v, j))
    <2>1. u[j] = 1 \/ u[j] = -1
      BY DEF Signs
    <2>2. \A i \in 1..3 : v[i][j] = Signed(u[j], w[i][j]) /\ w[i][j] \in Surds
      <3>1. \A i \in 1..3 : Positive[i] * u[j] = u[j]
        BY <2>1 DEF Positive
      <3>. QED BY <1>5, <3>1 DEF TurnedBy, Matrices
    <2>3. CASE u[j] = 1
      <3>1. \A i \in 1..3 : w[i][j] = v[i][j]
        BY <2>2, <2>3 DEF Signed
      <3>. QED BY <3>1 DEF SameAxis, Axis
    <2>4. CASE u[j] = -1
      <3>1. \A i \in 1..3 : w[i][j] = Minus(v[i][j])
        BY <2>2, <2>4, SignedSurds DEF Signed
      <3>2. PICK a : a = Axis(w, j)
        OBVIOUS
      <3>3. PICK b : b = Axis(v, j)
        OBVIOUS
      <3>4. a = [i \in 1..3 |-> w[i][j]] /\ b = [i \in 1..3 |-> v[i][j]]
        BY <3>2, <3>3 DEF Axis
      <3>5. a = [i \in 1..3 |-> Minus(b[i])]
        BY <3>1, <3>4
      <3>. QED BY <3>2, <3>3, <3>5 DEF SameAxis
    <2>. QED BY <2>1, <2>3, <2>4
  <1>. QED BY <1>6, <1>7

\* The remainder that Raised leaves, for multiples of 45 degrees.
LEMMA RaisedRight ==
  ASSUME NEW k \in Int, NEW n \in {4, 8}
  PROVE  Raised(45 * k, 45 * n) = 45 * (k % n)
  <1>1. \A j \in Nat : (45 * j) % (45 * n) = 45 * (j % n)
    <2>1. \A j \in Nat : (45 * j) % 180 = 45 * (j % 4)
      OBVIOUS
    <2>2. \A j \in Nat : (45 * j) % 360 = 45 * (j % 8)
      OBVIOUS
    <2>. QED BY <2>1, <2>2
  <1>2. CASE k >= 0
    <2>1. k \in Nat /\ ~(45 * k < 0) /\ k % n \in 0..7
      BY <1>2
    <2>2. fmod(45 * k, 45 * n) = 45 * (k % n)
      BY <1>1, <2>1 DEF fmod
    <2>. QED BY <2>1, <2>2 DEF Raised
  <1>3. CASE k < 0
    <2>1. PICK j \in Nat : j = -k /\ 45 * k < 0 /\ -(45 * k) = 45 * j
      BY <1>3
    <2>2. fmod(45 * k, 45 * n) = -(45 * (j % n))
      BY <1>1, <2>1 DEF fmod
    <2>3. j % n \in 0..(n - 1) /\ k % n = (-j) % n
      BY <2>1
    <2>4. CASE j % n = 0
      <3>1. k % n = 0
        BY <2>1, <2>3, <2>4
      <3>. QED BY <2>2, <2>4, <3>1 DEF Raised
    <2>5. CASE j % n # 0
      <3>1. k % n = n - (j % n)
        BY <2>1, <2>3, <2>5
      <3>2. 45 * (j % n) > 0
        BY <2>3, <2>5
      <3>3. Raised(45 * k, 45 * n) = (-(45 * (j % n))) + (45 * n)
        BY <2>2, <2>3, <3>2 DEF Raised
      <3>. QED BY <2>3, <3>1, <3>3
    <2>. QED BY <2>4, <2>5
  <1>. QED BY <1>2, <1>3

\* How the sine and the cosine change with the angle.
LEMMA OctantSigns ==
  ASSUME NEW k \in Int, NEW l \in Int
  PROVE  /\ Same(l, k) => Cos(45 * l) = Signed(1, Cos(45 * k))
              /\ Sin(45 * l) = Signed(1, Sin(45 * k))
         /\ Same(l, k + 4) => Cos(45 * l) = Signed(-1, Cos(45 * k))
              /\ Sin(45 * l) = Signed(-1, Sin(45 * k))
         /\ Same(l, -k) => Cos(45 * l) = Signed(1, Cos(45 * k))
              /\ Sin(45 * l) = Signed(-1, Sin(45 * k))
         /\ Same(l, 4 - k) => Cos(45 * l) = Signed(-1, Cos(45 * k))
              /\ Sin(45 * l) = Signed(1, Sin(45 * k))
  <1>1. k + 4 \in Int /\ -k \in Int /\ 4 - k = (-k) + 4
    OBVIOUS
  <1>2. Same(l, k) => Cos(45 * l) = Cos(45 * k) /\ Sin(45 * l) = Sin(45 * k)
    BY Octants
  <1>3. Same(l, k + 4) => Cos(45 * l) = Cos(45 * (k + 4)) /\ Sin(45 * l) = Sin(45 * (k + 4))
    BY <1>1, Octants
  <1>4. Cos(45 * (k + 4)) = Minus(Cos(45 * k)) /\ Sin(45 * (k + 4)) = Minus(Sin(45 * k))
    BY Octants
  <1>5. PICK h \in Int : h = -k
    BY <1>1
  <1>6. Same(l, h) => Cos(45 * l) = Cos(45 * h) /\ Sin(45 * l) = Sin(45 * h)
    BY Octants
  <1>7. Same(l, h + 4) => Cos(45 * l) = Cos(45 * (h + 4)) /\ Sin(45 * l) = Sin(45 * (h + 4))
    <2>1. h + 4 \in Int
      OBVIOUS
    <2>. QED BY <2>1, Octants
  <1>8. Cos(45 * (h + 4)) = Minus(Cos(45 * h)) /\ Sin(45 * (h + 4)) = Minus(Sin(45 * h))
    BY Octants
  <1>9. Cos(45 * h) = Cos(45 * k) /\ Sin(45 * h) = Minus(Sin(45 * k)) /\ Sin(45 * k) \in Surds
    <2>1. -(45 * k) = 45 * h
      BY <1>5
    <2>. QED BY <2>1, Octants
  <1>10. Minus(Minus(Sin(45 * k))) = Sin(45 * k)
    <2>1. 1 \in {1, -1}
      OBVIOUS
    <2>. QED BY <1>9, <2>1, SignedSurds
  <1>. QED BY <1>1, <1>2, <1>3, <1>4, <1>5, <1>6, <1>7, <1>8, <1>9, <1>10 DEF Signed

\* Rotations by angles whose cosines and sines differ by signs.
Turned(l, k, a, b) == Cos(45 * l) = Signed(a, Cos(45 * k)) /\ Sin(45 * l) = Signed(b, Sin(45 * k))
ColumnsTurned(r, s, a, b) ==
  r[1] * s[1] = a /\ r[2] * s[2] = a /\ r[1] * s[2] = b /\ r[2] * s[1] = b /\ r[3] * s[3] = 1
DipTurned(r, s, a, b) ==
  r[2] * s[2] = a /\ r[3] * s[3] = a /\ r[2] * s[3] = b /\ r[3] * s[2] = b /\ r[1] * s[1] = 1
SameAxes45(k1, k2, k3, l1, l2, l3) ==
  \A j \in 1..3 : SameAxis(Axis(Rotation(45 * k1, 45 * k2, 45 * k3), j),
                           Axis(Rotation(45 * l1, 45 * l2, 45 * l3), j))

\* Three pairs of angles turned so have the same axes.
LEMMA TurnedAxes ==
  ASSUME NEW k1 \in Int, NEW k2 \in Int, NEW k3 \in Int, NEW l1 \in Int, NEW l2 \in Int,
         NEW l3 \in Int,
         NEW a1 \in {1, -1}, NEW a2 \in {1, -1}, NEW a3 \in {1, -1},
         NEW b1 \in {1, -1}, NEW b2 \in {1, -1}, NEW b3 \in {1, -1},
         NEW s \in Signs, NEW t \in Signs, NEW u \in Signs,
         Turned(l1, k1, a1, b1), ColumnsTurned(Positive, s, a1, b1),
         Turned(l2, k2, a2, b2), DipTurned(s, t, a2, b2),
         Turned(l3, k3, a3, b3), ColumnsTurned(t, u, a3, b3)
  PROVE  SameAxes45(k1, k2, k3, l1, l2, l3)
  <1>1. Positive \in Signs
    BY DEF Positive, Signs
  <1>2. ASSUME NEW k \in Int, NEW l \in Int, NEW a \in {1, -1}, NEW b \in {1, -1},
               NEW r \in Signs, NEW v \in Signs, Turned(l, k, a, b)
        PROVE  /\ TurnZ(45 * k) \in Matrices /\ TurnX(45 * k) \in Matrices
               /\ TurnZ(45 * l) \in Matrices /\ TurnX(45 * l) \in Matrices
               /\ ColumnsTurned(r, v, a, b) => TurnedBy(r, v, TurnZ(45 * l), TurnZ(45 * k))
               /\ DipTurned(r, v, a, b) => TurnedBy(r, v, TurnX(45 * l), TurnX(45 * k))
    <2>1. PICK th, y : th = 45 * l /\ y = 45 * k
      OBVIOUS
    <2>2. Cos(th) \in Surds /\ Sin(th) \in Surds /\ Cos(y) \in Surds /\ Sin(y) \in Surds
      BY <2>1, Octants
    <2>3. Cos(th) = Signed(a, Cos(y)) /\ Sin(th) = Signed(b, Sin(y))
      BY <1>2, <2>1 DEF Turned
    <2>4. /\ TurnZ(y) \in Matrices /\ TurnX(y) \in Matrices
          /\ ColumnsTurned(r, v, a, b) => TurnedBy(r, v, TurnZ(th), TurnZ(y))
          /\ DipTurned(r, v, a, b) => TurnedBy(r, v, TurnX(th), TurnX(y))
      BY <2>2, <2>3, TurnSigns DEF ColumnsTurned, DipTurned
    <2>5. Cos(th) = Signed(1, Cos(th)) /\ Sin(th) = Signed(1, Sin(th)) /\ 1 \in {1, -1}
      BY DEF Signed
    <2>6. TurnZ(th) \in Matrices /\ TurnX(th) \in Matrices
      BY <2>2, <2>5, TurnSigns
    <2>. QED BY <2>1, <2>4, <2>6
  <1>3. PICK x1, x2, x3, y1, y2, y3 : /\ x1 = 45 * l1 /\ x2 = 45 * l2 /\ x3 = 45 * l3
                                      /\ y1 = 45 * k1 /\ y2 = 45 * k2 /\ y3 = 45 * k3
    OBVIOUS
  <1>4. /\ TurnZ(x1) \in Matrices /\ TurnZ(y1) \in Matrices
        /\ TurnedBy(Positive, s, TurnZ(x1), TurnZ(y1))
    BY <1>1, <1>2, <1>3
  <1>5. /\ TurnX(x2) \in Matrices /\ TurnX(y2) \in Matrices
        /\ TurnedBy(s, t, TurnX(x2), TurnX(y2))
    BY <1>2, <1>3
  <1>6. /\ TurnZ(x3) \in Matrices /\ TurnZ(y3) \in Matrices
        /\ TurnedBy(t, u, TurnZ(x3), TurnZ(y3))
    BY <1>2, <1>3
  <1>7. \A j \in 1..3 : SameAxis(Axis(Rotation(y1, y2, y3), j), Axis(Rotation(x1, x2, x3), j))
    BY <1>4, <1>5, <1>6, RotationSigns
  <1>. QED BY <1>3, <1>7 DEF SameAxes45

\* What is described: a dip of zero keeps the azimuth, one up to 90 turns it by half a
\* turn, and one that is greater turns it twice and the rotation once.
LEMMA DescribedAngles ==
  ASSUME NEW k1 \in Int, NEW k2 \in 0..4, NEW k3 \in Int,
         axes.euler[1] = 45 * k1, axes.euler[2] = 45 * k2, axes.euler[3] = 45 * k3
  PROVE  Describe3 =
           IF k2 = 0 THEN [az |-> 45 * ((-k1) % 8), dip |-> 0, rot |-> 45 * ((-k3) % 4)]
           ELSE IF k2 <= 2
             THEN [az |-> 45 * ((4 - k1) % 8), dip |-> 45 * k2, rot |-> 45 * ((-k3) % 4)]
           ELSE [az |-> 45 * ((8 - k1) % 8), dip |-> 45 * (4 - k2), rot |-> 45 * (k3 % 4)]
  <1>. DEFINE given == [az |-> -axes.euler[1], dip |-> fmod(-axes.euler[2], 360),
         rot |-> -axes.euler[3]]
  <1>1. fmod(-axes.euler[2], 360) = -(45 * k2)
    <2>1. k2 = 0 \/ k2 = 1 \/ k2 = 2 \/ k2 = 3 \/ k2 = 4
      OBVIOUS
    <2>. QED BY <2>1 DEF fmod
  <1>2. PICK g : g = [az |-> 45 * (-k1), dip |-> -(45 * k2), rot |-> 45 * (-k3)]
    OBVIOUS
  <1>3. given = g
    <2>1. -axes.euler[1] = 45 * (-k1) /\ -axes.euler[3] = 45 * (-k3)
      OBVIOUS
    <2>. QED BY <1>1, <1>2, <2>1
  <1>4. PICK d : d = DipBelow90(DipBelow180(DipPositive(g)))
    OBVIOUS
  <1>5. Describe3 = [d EXCEPT !.az = Raised(d.az, 360), !.rot = Raised(d.rot, 180)]
    BY <1>3, <1>4 DEF Describe3
  <1>6. \A k \in Int : Raised(45 * k, 360) = 45 * (k % 8) /\ Raised(45 * k, 180) = 45 * (k % 4)
    <2>1. ASSUME NEW k \in Int PROVE Raised(45 * k, 360) = 45 * (k % 8)
                   /\ Raised(45 * k, 180) = 45 * (k % 4)
      <3>1. 45 * 8 = 360 /\ 45 * 4 = 180 /\ 4 \in {4, 8} /\ 8 \in {4, 8}
        OBVIOUS
      <3>2. Raised(45 * k, 45 * 8) = 45 * (k % 8) /\ Raised(45 * k, 45 * 4) = 45 * (k % 4)
        BY <3>1, RaisedRight
      <3>. QED BY <3>1, <3>2
    <2>. QED BY <2>1
  <1>11. k2 > 0 => DipPositive(g) = [az |-> 45 * (-k1) + 180, dip |-> 45 * k2, rot |-> 45 * (-k3)]
    <2>1. k2 > 0 => -(45 * k2) < 0 /\ -(-(45 * k2)) = 45 * k2
      OBVIOUS
    <2>2. PICK a, b, e, c : a = 45 * (-k1) /\ b = -(45 * k2) /\ e = 45 * (-k3) /\ c = 45 * k2
      OBVIOUS
    <2>3. k2 > 0 => b < 0 /\ -b = c
      BY <2>1, <2>2
    <2>4. g = [az |-> a, dip |-> b, rot |-> e]
      BY <1>2, <2>2
    <2>5. k2 > 0 => DipPositive(g) = [az |-> a + 180, dip |-> c, rot |-> e]
      BY <2>3, <2>4 DEF DipPositive
    <2>. QED BY <2>2, <2>5
  <1>12. PICK p, q : p = Raised(d.az, 360) /\ q = Raised(d.rot, 180)
    OBVIOUS
  <1>13. \A a, b, e : d = [az |-> a, dip |-> b, rot |-> e]
           => Describe3 = [az |-> p, dip |-> b, rot |-> q]
    <2>1. Describe3 = [d EXCEPT !.az = p, !.rot = q]
      BY <1>5, <1>12
    <2>2. ASSUME NEW a, NEW b, NEW e, d = [az |-> a, dip |-> b, rot |-> e]
          PROVE  Describe3 = [az |-> p, dip |-> b, rot |-> q]
      <3>1. Describe3 = [[az |-> a, dip |-> b, rot |-> e] EXCEPT !.az = p, !.rot = q]
        BY <2>1, <2>2
      <3>. QED BY <3>1
    <2>. QED BY <2>2
  <1>7. CASE k2 = 0
    <2>1. d = [az |-> 45 * (-k1), dip |-> 0, rot |-> 45 * (-k3)]
      BY <1>2, <1>4, <1>7 DEF DipPositive, DipBelow180, DipBelow90
    <2>2. Raised(d.az, 360) = 45 * ((-k1) % 8) /\ Raised(d.rot, 180) = 45 * ((-k3) % 4)
      <3>1. -k1 \in Int /\ -k3 \in Int
        OBVIOUS
      <3>. QED BY <1>6, <2>1, <3>1
    <2>3. p = Raised(d.az, 360) /\ q = Raised(d.rot, 180)
      BY <1>12
    <2>4. Describe3 = [az |-> p, dip |-> d.dip, rot |-> q]
      BY <1>13, <2>1
    <2>. QED BY <1>7, <2>1, <2>2, <2>3, <2>4
  <1>8. CASE k2 \in 1..2
    <2>1. d = [az |-> 45 * (4 - k1), dip |-> 45 * k2, rot |-> 45 * (-k3)]
      <3>1. DipPositive(g) = [az |-> 45 * (-k1) + 180, dip |-> 45 * k2, rot |-> 45 * (-k3)]
        BY <1>8, <1>11
      <3>2. 45 * (-k1) + 180 = 45 * (4 - k1) /\ ~(45 * k2 > 180) /\ ~(45 * k2 > 90)
        BY <1>8
      <3>. QED BY <1>4, <3>1, <3>2 DEF DipBelow180, DipBelow90
    <2>2. Raised(d.az, 360) = 45 * ((4 - k1) % 8) /\ Raised(d.rot, 180) = 45 * ((-k3) % 4)
      <3>1. 4 - k1 \in Int /\ -k3 \in Int
        OBVIOUS
      <3>. QED BY <1>6, <2>1, <3>1
    <2>3. p = Raised(d.az, 360) /\ q = Raised(d.rot, 180)
      BY <1>12
    <2>4. Describe3 = [az |-> p, dip |-> d.dip, rot |-> q]
      BY <1>13, <2>1
    <2>. QED BY <1>8, <2>1, <2>2, <2>3, <2>4
  <1>9. CASE k2 \in 3..4
    <2>1. d = [az |-> 45 * (8 - k1), dip |-> 45 * (4 - k2), rot |-> 45 * k3]
      <3>1. DipPositive(g) = [az |-> 45 * (-k1) + 180, dip |-> 45 * k2, rot |-> 45 * (-k3)]
        BY <1>9, <1>11
      <3>2. /\ (45 * (-k1) + 180) + 180 = 45 * (8 - k1) /\ ~(45 * k2 > 180) /\ 45 * k2 > 90
            /\ 180 - 45 * k2 = 45 * (4 - k2) /\ -(45 * (-k3)) = 45 * k3
        BY <1>9
      <3>3. DipBelow180(DipPositive(g)) = DipPositive(g)
        BY <3>1, <3>2 DEF DipBelow180
      <3>. QED BY <1>4, <3>1, <3>2, <3>3 DEF DipBelow90
    <2>2. Raised(d.az, 360) = 45 * ((8 - k1) % 8) /\ Raised(d.rot, 180) = 45 * (k3 % 4)
      <3>1. 8 - k1 \in Int
        OBVIOUS
      <3>. QED BY <1>6, <2>1, <3>1
    <2>3. p = Raised(d.az, 360) /\ q = Raised(d.rot, 180)
      BY <1>12
    <2>4. Describe3 = [az |-> p, dip |-> d.dip, rot |-> q]
      BY <1>13, <2>1
    <2>. QED BY <1>9, <2>1, <2>2, <2>3, <2>4
  <1>10. k2 = 0 \/ k2 \in 1..2 \/ k2 \in 3..4
    OBVIOUS
  <1>. QED BY <1>7, <1>8, <1>9, <1>10

\* The axes are as described, in three dimensions.
Shown(d, k1, k2, k3) ==
  /\ d.az \in 0..359 /\ d.dip \in 0..90 /\ d.rot \in 0..179
  /\ \A j \in 1..3 : SameAxis(Axis(Rotation(45 * k1, 45 * k2, 45 * k3), j),
                              Axis(Rotation(-d.az, -d.dip, -d.rot), j))

\* The description has the axes of the angles in each of its three cases.
LEMMA ShownRight ==
  ASSUME NEW k1 \in Int, NEW k2 \in 0..4, NEW k3 \in Int, NEW d,
         NEW l1 \in 0..7, NEW l2 \in 0..2, NEW l3 \in 0..3,
         d.az = 45 * l1, d.dip = 45 * l2, d.rot = 45 * l3,
         \/ k2 = 0 /\ l2 = 0 /\ Same(-l1, k1) /\ (Same(-l3, k3) \/ Same(-l3, k3 + 4))
         \/ k2 \in 1..2 /\ l2 = k2 /\ Same(-l1, k1 + 4) /\ (Same(-l3, k3) \/ Same(-l3, k3 + 4))
         \/ k2 \in 3..4 /\ l2 = 4 - k2 /\ Same(-l1, k1) /\ (Same(-l3, -k3) \/ Same(-l3, 4 - k3))
  PROVE  Shown(d, k1, k2, k3)
  <1>1. d.az \in 0..359 /\ d.dip \in 0..90 /\ d.rot \in 0..179
    OBVIOUS
  <1>2. PICK m1 \in Int, m2 \in Int, m3 \in Int : m1 = -l1 /\ m2 = -l2 /\ m3 = -l3
    OBVIOUS
  <1>3. 45 * m1 = -d.az /\ 45 * m2 = -d.dip /\ 45 * m3 = -d.rot
    BY <1>2
  <1>. DEFINE plus == <<1, 1, 1>>
              turned == <<-1, -1, 1>>
              over == <<1, -1, -1>>
              across == <<-1, 1, -1>>
  <1>4. plus \in Signs /\ turned \in Signs /\ over \in Signs /\ across \in Signs
    BY DEF Signs
  <1>5. 1 \in {1, -1} /\ -1 \in {1, -1} /\ k2 \in Int
    OBVIOUS
  <1>6. \A k, m \in Int :
          /\ Same(m, k) => Turned(m, k, 1, 1)
          /\ Same(m, k + 4) => Turned(m, k, -1, -1)
          /\ Same(m, -k) => Turned(m, k, 1, -1)
          /\ Same(m, 4 - k) => Turned(m, k, -1, 1)
    BY OctantSigns DEF Turned
  <1>7. /\ ColumnsTurned(Positive, plus, 1, 1) /\ ColumnsTurned(Positive, turned, -1, -1)
        /\ DipTurned(plus, plus, 1, 1) /\ DipTurned(turned, turned, 1, -1)
             /\ DipTurned(plus, over, -1, -1)
        /\ ColumnsTurned(plus, plus, 1, 1) /\ ColumnsTurned(plus, turned, -1, -1)
        /\ ColumnsTurned(turned, turned, 1, 1) /\ ColumnsTurned(turned, plus, -1, -1)
        /\ ColumnsTurned(over, over, 1, -1) /\ ColumnsTurned(over, across, -1, 1)
    BY DEF ColumnsTurned, DipTurned, Positive
  <1>. HIDE DEF plus, turned, over, across
  <1>8. CASE k2 = 0 /\ l2 = 0 /\ Same(-l1, k1) /\ (Same(-l3, k3) \/ Same(-l3, k3 + 4))
    <2>1. Same(m2, k2)
      BY <1>2, <1>8 DEF Same
    <2>2. Turned(m1, k1, 1, 1) /\ Turned(m2, k2, 1, 1)
      BY <1>2, <1>5, <1>6, <1>8, <2>1
    <2>3. Turned(m3, k3, 1, 1) \/ Turned(m3, k3, -1, -1)
      BY <1>2, <1>6, <1>8
    <2>4. CASE Turned(m3, k3, 1, 1)
      <3>1. SameAxes45(k1, k2, k3, m1, m2, m3)
        BY <1>4, <1>5, <1>7, <2>2, <2>4, TurnedAxes
      <3>. QED BY <1>1, <1>3, <3>1 DEF Shown, SameAxes45
    <2>5. CASE Turned(m3, k3, -1, -1)
      <3>1. SameAxes45(k1, k2, k3, m1, m2, m3)
        BY <1>4, <1>5, <1>7, <2>2, <2>5, TurnedAxes
      <3>. QED BY <1>1, <1>3, <3>1 DEF Shown, SameAxes45
    <2>. QED BY <2>3, <2>4, <2>5
  <1>9. CASE k2 \in 1..2 /\ l2 = k2 /\ Same(-l1, k1 + 4) /\ (Same(-l3, k3) \/ Same(-l3, k3 + 4))
    <2>1. Same(m2, -k2)
      BY <1>2, <1>9 DEF Same
    <2>2. Turned(m1, k1, -1, -1) /\ Turned(m2, k2, 1, -1)
      BY <1>2, <1>5, <1>6, <1>9, <2>1
    <2>3. Turned(m3, k3, 1, 1) \/ Turned(m3, k3, -1, -1)
      BY <1>2, <1>6, <1>9
    <2>4. CASE Turned(m3, k3, 1, 1)
      <3>1. SameAxes45(k1, k2, k3, m1, m2, m3)
        BY <1>4, <1>5, <1>7, <2>2, <2>4, TurnedAxes
      <3>. QED BY <1>1, <1>3, <3>1 DEF Shown, SameAxes45
    <2>5. CASE Turned(m3, k3, -1, -1)
      <3>1. SameAxes45(k1, k2, k3, m1, m2, m3)
        BY <1>4, <1>5, <1>7, <2>2, <2>5, TurnedAxes
      <3>. QED BY <1>1, <1>3, <3>1 DEF Shown, SameAxes45
    <2>. QED BY <2>3, <2>4, <2>5
  <1>10. CASE k2 \in 3..4 /\ l2 = 4 - k2 /\ Same(-l1, k1) /\ (Same(-l3, -k3) \/ Same(-l3, 4 - k3))
    <2>1. Same(m2, k2 + 4)
      BY <1>2, <1>10 DEF Same
    <2>2. Turned(m1, k1, 1, 1) /\ Turned(m2, k2, -1, -1)
      BY <1>2, <1>5, <1>6, <1>10, <2>1
    <2>3. Turned(m3, k3, 1, -1) \/ Turned(m3, k3, -1, 1)
      BY <1>2, <1>6, <1>10
    <2>4. CASE Turned(m3, k3, 1, -1)
      <3>1. SameAxes45(k1, k2, k3, m1, m2, m3)
        BY <1>4, <1>5, <1>7, <2>2, <2>4, TurnedAxes
      <3>. QED BY <1>1, <1>3, <3>1 DEF Shown, SameAxes45
    <2>5. CASE Turned(m3, k3, -1, 1)
      <3>1. SameAxes45(k1, k2, k3, m1, m2, m3)
        BY <1>4, <1>5, <1>7, <2>2, <2>5, TurnedAxes
      <3>. QED BY <1>1, <1>3, <3>1 DEF Shown, SameAxes45
    <2>. QED BY <2>3, <2>4, <2>5
  <1>. QED BY <1>8, <1>9, <1>10

\* A multiple of the matrix without a turn multiplies a matrix from both sides alike.
Diagonal(c) == [i \in 1..3 |-> [j \in 1..3 |-> IF i = j THEN <<c, 0>> ELSE <<0, 0>>]]

\* The product from either side multiplies every entry.
LEMMA DiagonalProduct ==
  ASSUME NEW c \in Int, NEW m \in Matrices
  PROVE  /\ Diagonal(c) \in Matrices
         /\ Product(Diagonal(c), m)
              = [i \in 1..3 |-> [j \in 1..3 |-> <<c * m[i][j][1], c * m[i][j][2]>>]]
         /\ Product(m, Diagonal(c))
              = [i \in 1..3 |-> [j \in 1..3 |-> <<c * m[i][j][1], c * m[i][j][2]>>]]
  <1>1. PICK k : k = Diagonal(c)
    OBVIOUS
  <1>2. k = [i \in 1..3 |-> [j \in 1..3 |-> IF i = j THEN <<c, 0>> ELSE <<0, 0>>]]
    BY <1>1 DEF Diagonal
  <1>3. \A i, j \in 1..3 : k[i][j] = IF i = j THEN <<c, 0>> ELSE <<0, 0>>
    BY <1>2
  <1>4. Diagonal(c) \in Matrices
    <2>1. \A i \in 1..3 : k[i] \in [1..3 -> Surds]
      BY <1>2 DEF Surds
    <2>2. k \in [1..3 -> [1..3 -> Surds]]
      BY <1>2, <2>1
    <2>. QED BY <1>1, <2>2 DEF Matrices
  <1>5. \A u \in Surds : /\ Times(<<c, 0>>, u) = <<c * u[1], c * u[2]>>
                         /\ Times(u, <<c, 0>>) = <<c * u[1], c * u[2]>>
                         /\ Times(<<0, 0>>, u) = <<0, 0>> /\ Times(u, <<0, 0>>) = <<0, 0>>
                         /\ Plus(<<0, 0>>, u) = u /\ Plus(u, <<0, 0>>) = u
                         /\ <<c * u[1], c * u[2]>> \in Surds
    <2>1. ASSUME NEW u \in Surds
          PROVE  /\ Times(<<c, 0>>, u) = <<c * u[1], c * u[2]>>
                 /\ Times(u, <<c, 0>>) = <<c * u[1], c * u[2]>>
                 /\ Times(<<0, 0>>, u) = <<0, 0>> /\ Times(u, <<0, 0>>) = <<0, 0>>
                 /\ Plus(<<0, 0>>, u) = u /\ Plus(u, <<0, 0>>) = u
                 /\ <<c * u[1], c * u[2]>> \in Surds
      <3>1. PICK a \in Int, b \in Int : u = <<a, b>>
        BY DEF Surds
      <3>2. PICK d \in Int, e \in Int : d = c * a /\ e = c * b /\ d = a * c /\ e = b * c
        OBVIOUS
      <3>3. /\ Times(<<c, 0>>, u) = <<d, e>> /\ Times(u, <<c, 0>>) = <<d, e>>
            /\ Times(<<0, 0>>, u) = <<0, 0>> /\ Times(u, <<0, 0>>) = <<0, 0>>
        BY <3>1, <3>2 DEF Times
      <3>4. Plus(<<0, 0>>, u) = u /\ Plus(u, <<0, 0>>) = u
        BY <3>1 DEF Plus
      <3>5. <<c * u[1], c * u[2]>> = <<d, e>> /\ <<d, e>> \in Surds
        BY <3>1, <3>2 DEF Surds
      <3>. QED BY <3>3, <3>4, <3>5
    <2>. QED BY <2>1
  <1>6. \A i, j \in 1..3 : m[i][j] \in Surds
    BY DEF Matrices
  <1>. DEFINE Scaled(i, j) == <<c * m[i][j][1], c * m[i][j][2]>>
  <1>7. \A i, j \in 1..3 : /\ \A g \in 1..3 :
                                Times(k[i][g], m[g][j]) = IF g = i THEN Scaled(i, j) ELSE <<0, 0>>
                           /\ \A g \in 1..3 :
                                Times(m[i][g], k[g][j]) = IF g = j THEN Scaled(i, j) ELSE <<0, 0>>
                           /\ Scaled(i, j) \in Surds
    <2>1. ASSUME NEW i \in 1..3, NEW j \in 1..3
          PROVE  /\ \A g \in 1..3 :
                      Times(k[i][g], m[g][j]) = IF g = i THEN Scaled(i, j) ELSE <<0, 0>>
                 /\ \A g \in 1..3 :
                      Times(m[i][g], k[g][j]) = IF g = j THEN Scaled(i, j) ELSE <<0, 0>>
                 /\ Scaled(i, j) \in Surds
      <3>1. \A g \in 1..3 : k[i][g] = (IF g = i THEN <<c, 0>> ELSE <<0, 0>>) /\ m[g][j] \in Surds
        BY <1>3, <1>6
      <3>2. \A g \in 1..3 : k[g][j] = (IF g = j THEN <<c, 0>> ELSE <<0, 0>>) /\ m[i][g] \in Surds
        BY <1>3, <1>6
      <3>3. \A g \in 1..3 : Times(k[i][g], m[g][j]) = IF g = i THEN Scaled(i, j) ELSE <<0, 0>>
        BY <1>5, <3>1
      <3>4. \A g \in 1..3 : Times(m[i][g], k[g][j]) = IF g = j THEN Scaled(i, j) ELSE <<0, 0>>
        BY <1>5, <3>2
      <3>5. Scaled(i, j) \in Surds
        BY <1>5, <1>6
      <3>. QED BY <3>3, <3>4, <3>5
    <2>. QED BY <2>1
  <1>. HIDE DEF Scaled
  <1>8. <<0, 0>> \in Surds /\ 1..3 = {1, 2, 3}
    BY DEF Surds
  <1>9. \A i, j \in 1..3 :
          /\ Plus(Plus(Times(k[i][1], m[1][j]), Times(k[i][2], m[2][j])),
               Times(k[i][3], m[3][j])) = Scaled(i, j)
          /\ Plus(Plus(Times(m[i][1], k[1][j]), Times(m[i][2], k[2][j])),
               Times(m[i][3], k[3][j])) = Scaled(i, j)
    <2>1. ASSUME NEW i \in 1..3, NEW j \in 1..3
          PROVE  /\ Plus(Plus(Times(k[i][1], m[1][j]), Times(k[i][2], m[2][j])),
                      Times(k[i][3], m[3][j])) = Scaled(i, j)
                 /\ Plus(Plus(Times(m[i][1], k[1][j]), Times(m[i][2], k[2][j])),
                      Times(m[i][3], k[3][j])) = Scaled(i, j)
      <3>1. PICK e \in Surds, o \in Surds : e = Scaled(i, j) /\ o = <<0, 0>>
        BY <1>7, <1>8
      <3>2. \A g \in 1..3 : Times(k[i][g], m[g][j]) = IF g = i THEN e ELSE o
        BY <1>7, <3>1
      <3>3. \A g \in 1..3 : Times(m[i][g], k[g][j]) = IF g = j THEN e ELSE o
        BY <1>7, <3>1
      <3>4. Plus(o, o) = o /\ Plus(o, e) = e /\ Plus(e, o) = e
        BY <1>5, <3>1
      <3>. QED BY <1>8, <3>1, <3>2, <3>3, <3>4
    <2>. QED BY <2>1
  <1>10. PICK f : f = Product(k, m)
    OBVIOUS
  <1>11. f = [i \in 1..3 |-> [j \in 1..3 |->
           Plus(Plus(Times(k[i][1], m[1][j]), Times(k[i][2], m[2][j])), Times(k[i][3], m[3][j]))]]
    BY <1>10 DEF Product
  <1>12. f = [i \in 1..3 |-> [j \in 1..3 |-> Scaled(i, j)]]
    BY <1>9, <1>11
  <1>13. PICK g : g = Product(m, k)
    OBVIOUS
  <1>14. g = [i \in 1..3 |-> [j \in 1..3 |->
           Plus(Plus(Times(m[i][1], k[1][j]), Times(m[i][2], k[2][j])), Times(m[i][3], k[3][j]))]]
    BY <1>13 DEF Product
  <1>15. g = [i \in 1..3 |-> [j \in 1..3 |-> Scaled(i, j)]]
    BY <1>9, <1>14
  <1>. QED BY <1>1, <1>4, <1>10, <1>12, <1>13, <1>15 DEF Scaled

\* A turn about one axis before two that are none, or after them.
LEMMA PlainRotation ==
  ASSUME NEW k \in Int
  PROVE  Rotation(0, 0, 45 * k) = Rotation(45 * k, 0, 0)
  <1>1. PICK m : m = TurnZ(45 * k)
    OBVIOUS
  <1>2. m \in Matrices
    <2>1. /\ Cos(45 * k) \in Surds /\ Sin(45 * k) \in Surds /\ Positive \in Signs /\ 1 \in {1, -1}
          /\ Cos(45 * k) = Signed(1, Cos(45 * k)) /\ Sin(45 * k) = Signed(1, Sin(45 * k))
      <3>1. Cos(45 * k) \in Surds /\ Sin(45 * k) \in Surds
        BY Octants
      <3>. QED BY <3>1 DEF Positive, Signs, Signed
    <2>. QED BY <1>1, <2>1, TurnSigns
  <1>3. TurnZ(0) = Diagonal(2) /\ TurnX(0) = Diagonal(2)
    <2>1. Cos(0) = <<2, 0>> /\ Sin(0) = <<0, 0>> /\ Minus(Sin(0)) = <<0, 0>>
      <3>1. 0 \div 45 = 0 /\ 90 \div 45 = 2 /\ 0 % 8 = 0 /\ 2 % 8 = 2
        OBVIOUS
      <3>2. Cos(0) = <<2, 0>> /\ Cos(90) = <<0, 0>>
        BY <3>1 DEF Cos
      <3>3. \A l \in Int : l = 2 => Cos(-(45 * l)) = Cos(45 * l)
        BY Octants
      <3>4. Sin(0) = <<0, 0>>
        <4>1. 45 * 2 = 90 /\ 0 - 90 = -(45 * 2) /\ 2 \in Int
          OBVIOUS
        <4>. QED BY <3>2, <3>3, <4>1 DEF Sin
      <3>. QED BY <3>2, <3>4 DEF Minus
    <2>2. PICK d : d = Diagonal(2)
      OBVIOUS
    <2>3. d = [i \in 1..3 |-> [j \in 1..3 |-> IF i = j THEN <<2, 0>> ELSE <<0, 0>>]]
      BY <2>2 DEF Diagonal
    <2>4. 1..3 = {1, 2, 3}
      OBVIOUS
    <2>5. d[1] = <<<<2, 0>>, <<0, 0>>, <<0, 0>>>>
      BY <2>3, <2>4
    <2>6. d[2] = <<<<0, 0>>, <<2, 0>>, <<0, 0>>>>
      BY <2>3, <2>4
    <2>7. d[3] = <<<<0, 0>>, <<0, 0>>, <<2, 0>>>>
      BY <2>3, <2>4
    <2>8. d = <<d[1], d[2], d[3]>>
      BY <2>3, <2>4
    <2>. QED BY <2>1, <2>2, <2>5, <2>6, <2>7, <2>8 DEF TurnZ, TurnX
  <1>4. PICK f : f = Product(Diagonal(2), m) /\ f = Product(m, Diagonal(2))
    BY <1>2, DiagonalProduct
  <1>5. f \in Matrices /\ Diagonal(2) \in Matrices
    BY <1>2, <1>4, DiagonalProduct, MatrixProductType
  <1>6. f = [i \in 1..3 |-> [j \in 1..3 |-> <<2 * m[i][j][1], 2 * m[i][j][2]>>]]
    BY <1>2, <1>4, DiagonalProduct
  <1>7. Product(Diagonal(2), f)
          = [i \in 1..3 |-> [j \in 1..3 |-> <<2 * f[i][j][1], 2 * f[i][j][2]>>]]
    BY <1>5, DiagonalProduct
  <1>8. Product(Diagonal(2), Diagonal(2)) = Diagonal(4)
    <2>1. PICK d : d = Diagonal(2)
      OBVIOUS
    <2>2. d = [i \in 1..3 |-> [j \in 1..3 |-> IF i = j THEN <<2, 0>> ELSE <<0, 0>>]]
      BY <2>1 DEF Diagonal
    <2>3. Product(d, d) = [i \in 1..3 |-> [j \in 1..3 |-> <<2 * d[i][j][1], 2 * d[i][j][2]>>]]
      BY <1>5, <2>1, DiagonalProduct
    <2>4. PICK g : g = Product(d, d)
      OBVIOUS
    <2>5. g = [i \in 1..3 |-> [j \in 1..3 |-> IF i = j THEN <<4, 0>> ELSE <<0, 0>>]]
      BY <2>2, <2>3, <2>4
    <2>. QED BY <2>1, <2>4, <2>5 DEF Diagonal
  <1>9. Product(m, Diagonal(4))
          = [i \in 1..3 |-> [j \in 1..3 |-> <<4 * m[i][j][1], 4 * m[i][j][2]>>]]
    BY <1>2, DiagonalProduct
  <1>10. \A i, j \in 1..3 : /\ 2 * f[i][j][1] = 4 * m[i][j][1] /\ 2 * f[i][j][2] = 4 * m[i][j][2]
    <2>1. ASSUME NEW i \in 1..3, NEW j \in 1..3
          PROVE  2 * f[i][j][1] = 4 * m[i][j][1] /\ 2 * f[i][j][2] = 4 * m[i][j][2]
      <3>1. m[i][j] \in Surds
        BY <1>2 DEF Matrices
      <3>2. PICK a \in Int, b \in Int : m[i][j] = <<a, b>>
        BY <3>1 DEF Surds
      <3>3. f[i][j] = <<2 * a, 2 * b>>
        BY <1>6, <3>2
      <3>. QED BY <3>2, <3>3
    <2>. QED BY <2>1
  <1>11. Product(Diagonal(2), f) = Product(m, Diagonal(4))
    BY <1>7, <1>9, <1>10
  <1>. QED BY <1>1, <1>3, <1>4, <1>8, <1>11 DEF Rotation

\* The axes are given, and what is described is of them.
AnglesInv ==
  /\ axes \in [dim : {2}, euler : Turns \X {0} \X {0}] \cup [dim : {3}, euler : EulerAngles]
  /\ described = NotYet \/ described = IF axes.dim = 2 THEN Describe2 ELSE Describe3

\* The description is that of the axes, from the start and after each step.
LEMMA AnglesInvNext ==
  /\ DescriptionInit => AnglesInv
  /\ AnglesInv /\ [DescriptionNext]_descriptionVars => AnglesInv'
  <1>1. DescriptionInit => AnglesInv
    BY DEF DescriptionInit, AnglesInv
  <1>2. UNCHANGED axes => Describe2' = Describe2 /\ Describe3' = Describe3
    BY DEF Describe2, Describe3
  <1>3. AnglesInv /\ Describe => AnglesInv'
    BY <1>2 DEF AnglesInv, Describe
  <1>4. AnglesInv /\ UNCHANGED descriptionVars => AnglesInv'
    BY <1>2 DEF AnglesInv, descriptionVars
  <1>. QED BY <1>1, <1>3, <1>4 DEF DescriptionNext

\* Two angles are zero in two dimensions.
LEMMA ShownIn2 ==
  ASSUME AnglesInv, axes.dim = 2
  PROVE  LET d == Describe2 IN
         /\ d.az \in 0..359 /\ d.dip \in 0..90 /\ d.rot \in 0..179
         /\ \A j \in 1..3 : SameAxis(Axis(Rotation(axes.euler[1], axes.euler[2], axes.euler[3]), j),
                                     Axis(Rotation(-d.az, -d.dip, -d.rot), j))
  <1>1. PICK k \in -4..4 : axes.euler[1] = 45 * k /\ axes.euler[2] = 0 /\ axes.euler[3] = 0
    <2>1. axes \in [dim : {2}, euler : Turns \X {0} \X {0}]
      BY DEF AnglesInv
    <2>. QED BY <2>1 DEF Turns
  <1>2. PICK h \in Int : h = -k
    OBVIOUS
  <1>3. Raised(45 * h, 180) = 45 * (h % 4)
    <2>1. 45 * 4 = 180 /\ 4 \in {4, 8}
      OBVIOUS
    <2>2. Raised(45 * h, 45 * 4) = 45 * (h % 4)
      BY <2>1, RaisedRight
    <2>. QED BY <2>1, <2>2
  <1>4. PICK l, d : l \in Int /\ l = -(h % 4) /\ d = Describe2 /\ h % 4 \in 0..3
    BY <1>2
  <1>5. d = [az |-> 0, dip |-> 0, rot |-> 45 * (h % 4)]
    <2>1. -axes.euler[1] = 45 * h
      BY <1>1, <1>2
    <2>. QED BY <1>3, <1>4, <2>1 DEF Describe2
  <1>6. -d.az = 0 /\ -d.dip = 0 /\ -d.rot = 45 * l
    <2>1. (\A z \in Int : z = 0 => -z = z) /\ -(45 * (h % 4)) = 45 * l /\ 0 \in Int
      BY <1>4
    <2>2. d.az = 0 /\ d.dip = 0 /\ d.rot = 45 * (h % 4)
      BY <1>5
    <2>. QED BY <2>1, <2>2
  <1>7. d.az \in 0..359 /\ d.dip \in 0..90 /\ d.rot \in 0..179
    BY <1>4, <1>5
  <1>8. Same(l, k) \/ Same(l, k + 4)
    BY <1>2, <1>4 DEF Same
  <1>9. Turned(l, k, 1, 1) \/ Turned(l, k, -1, -1)
    <2>1. k \in Int
      OBVIOUS
    <2>. QED BY <1>4, <1>8, <2>1, OctantSigns DEF Turned
  <1>. DEFINE plus == <<1, 1, 1>>
              turned == <<-1, -1, 1>>
  <1>10. /\ plus \in Signs /\ turned \in Signs /\ 1 \in {1, -1} /\ -1 \in {1, -1}
         /\ 0 \in Int /\ k \in Int /\ 45 * 0 = 0
    BY DEF Signs
  <1>11. /\ ColumnsTurned(Positive, plus, 1, 1) /\ DipTurned(plus, plus, 1, 1)
         /\ ColumnsTurned(plus, plus, 1, 1) /\ ColumnsTurned(plus, turned, -1, -1)
    BY DEF ColumnsTurned, DipTurned, Positive
  <1>12. Turned(0, 0, 1, 1)
    BY DEF Turned, Signed
  <1>. HIDE DEF plus, turned
  <1>13. SameAxes45(0, 0, k, 0, 0, l)
    <2>1. CASE Turned(l, k, 1, 1)
      BY <1>4, <1>10, <1>11, <1>12, <2>1, TurnedAxes
    <2>2. CASE Turned(l, k, -1, -1)
      BY <1>4, <1>10, <1>11, <1>12, <2>2, TurnedAxes
    <2>. QED BY <1>9, <2>1, <2>2
  <1>14. Rotation(0, 0, 45 * k) = Rotation(45 * k, 0, 0)
    BY <1>10, PlainRotation
  <1>15. \A j \in 1..3 : SameAxis(Axis(Rotation(45 * k, 0, 0), j), Axis(Rotation(0, 0, 45 * l), j))
    BY <1>10, <1>13, <1>14 DEF SameAxes45
  <1>. QED BY <1>1, <1>4, <1>6, <1>7, <1>15

\* The three cases of the dip.
LEMMA ShownIn3 ==
  ASSUME AnglesInv, axes.dim = 3
  PROVE  LET d == Describe3 IN
         /\ d.az \in 0..359 /\ d.dip \in 0..90 /\ d.rot \in 0..179
         /\ \A j \in 1..3 : SameAxis(Axis(Rotation(axes.euler[1], axes.euler[2], axes.euler[3]), j),
                                     Axis(Rotation(-d.az, -d.dip, -d.rot), j))
  <1>1. PICK k1 \in -4..4, k2 \in 0..4, k3 \in -4..4 :
          axes.euler[1] = 45 * k1 /\ axes.euler[2] = 45 * k2 /\ axes.euler[3] = 45 * k3
    <2>1. axes \in [dim : {3}, euler : EulerAngles]
      BY DEF AnglesInv
    <2>. QED BY <2>1 DEF Turns, EulerAngles
  <1>2. k1 \in Int /\ k3 \in Int
    OBVIOUS
  <1>3. PICK d : d = Describe3
    OBVIOUS
  <1>4. d = IF k2 = 0 THEN [az |-> 45 * ((-k1) % 8), dip |-> 0, rot |-> 45 * ((-k3) % 4)]
            ELSE IF k2 <= 2
              THEN [az |-> 45 * ((4 - k1) % 8), dip |-> 45 * k2, rot |-> 45 * ((-k3) % 4)]
            ELSE [az |-> 45 * ((8 - k1) % 8), dip |-> 45 * (4 - k2), rot |-> 45 * (k3 % 4)]
    BY <1>1, <1>2, <1>3, DescribedAngles
  <1>5. Shown(d, k1, k2, k3)
    <2>1. CASE k2 = 0
      <3>1. PICK l1 \in 0..7, l3 \in 0..3 : l1 = (-k1) % 8 /\ l3 = (-k3) % 4
        OBVIOUS
      <3>2. d.az = 45 * l1 /\ d.dip = 45 * 0 /\ d.rot = 45 * l3
        BY <1>4, <2>1, <3>1
      <3>3. Same(-l1, k1) /\ (Same(-l3, k3) \/ Same(-l3, k3 + 4))
        BY <3>1 DEF Same
      <3>4. 0 \in 0..2
        OBVIOUS
      <3>. QED BY <1>2, <2>1, <3>2, <3>3, <3>4, ShownRight
    <2>2. CASE k2 \in 1..2
      <3>1. PICK l1 \in 0..7, l3 \in 0..3 : l1 = (4 - k1) % 8 /\ l3 = (-k3) % 4
        OBVIOUS
      <3>2. d.az = 45 * l1 /\ d.dip = 45 * k2 /\ d.rot = 45 * l3
        BY <1>4, <2>2, <3>1
      <3>3. Same(-l1, k1 + 4) /\ (Same(-l3, k3) \/ Same(-l3, k3 + 4))
        BY <3>1 DEF Same
      <3>4. k2 \in 0..2
        BY <2>2
      <3>. QED BY <1>2, <2>2, <3>2, <3>3, <3>4, ShownRight
    <2>3. CASE k2 \in 3..4
      <3>1. PICK l1 \in 0..7, l2 \in 0..2, l3 \in 0..3 : l1 = (8 - k1) % 8 /\ l2 = 4 - k2
                   /\ l3 = k3 % 4
        BY <2>3
      <3>2. d.az = 45 * l1 /\ d.dip = 45 * l2 /\ d.rot = 45 * l3
        BY <1>4, <2>3, <3>1
      <3>3. Same(-l1, k1) /\ (Same(-l3, -k3) \/ Same(-l3, 4 - k3))
        BY <3>1 DEF Same
      <3>. QED BY <1>2, <2>3, <3>1, <3>2, <3>3, ShownRight
    <2>4. k2 = 0 \/ k2 \in 1..2 \/ k2 \in 3..4
      OBVIOUS
    <2>. QED BY <2>1, <2>2, <2>3, <2>4
  <1>. QED BY <1>1, <1>3, <1>5 DEF Shown

\* What is described has the same axes, in the ranges of geology.
LEMMA SameAxesHolds == AnglesInv => SameAxes /\ DescriptionTypeOK
  <1>. SUFFICES ASSUME AnglesInv, described # NotYet PROVE SameAxes /\ DescriptionTypeOK
    BY DEF AnglesInv, SameAxes, DescriptionTypeOK
  <1>1. axes.dim \in {2, 3} /\ described = IF axes.dim = 2 THEN Describe2 ELSE Describe3
    BY DEF AnglesInv
  <1>2. /\ described.az \in 0..359 /\ described.dip \in 0..90 /\ described.rot \in 0..179
        /\ \A j \in 1..3 : SameAxis(Axis(Rotation(axes.euler[1], axes.euler[2], axes.euler[3]), j),
                                    Axis(Rotation(-described.az, -described.dip, -described.rot), j))
    BY <1>1, ShownIn2, ShownIn3
  <1>. QED BY <1>1, <1>2 DEF SameAxes, DescriptionTypeOK

\* The types of the variables of the description.
THEOREM DescriptionTypes == DescriptionSpec => []DescriptionTypeOK
  BY AnglesInvNext, SameAxesHolds, PTL DEF DescriptionSpec

\* Model::description gives the angles of the axes of the anisotropy.
THEOREM SameAxesAlways == DescriptionSpec => []SameAxes
  BY AnglesInvNext, SameAxesHolds, PTL DEF DescriptionSpec

-----------------------------------------------------------------------------
(* Models and their fitting *)

\* Every kind of rbf has two parameters.
LEMMA TwoNames ==
  ASSUME NEW k \in DOMAIN Kinds
  PROVE  Len(Kinds[k].names) = 2 /\ DOMAIN Kinds[k].names = 1..2
  <1>1. DOMAIN Kinds = {"cov", "bh3", "th3"}
    BY DEF Kinds
  <1>2. /\ Kinds["cov"].names = <<"psill", "range">> /\ Kinds["bh3"].names = <<"scale", "c">>
        /\ Kinds["th3"].names = <<"scale", "c">>
    BY DEF Kinds, Class
  <1>3. Len(<<"psill", "range">>) = 2 /\ DOMAIN <<"psill", "range">> = 1..2
    OBVIOUS
  <1>4. Len(<<"scale", "c">>) = 2 /\ DOMAIN <<"scale", "c">> = 1..2
    OBVIOUS
  <1>. QED BY <1>1, <1>2, <1>3, <1>4

\* n rbfs of whatever parameters and anisotropies.
Formed(rbfs, n) ==
  /\ n \in Nat /\ Len(rbfs) = n /\ DOMAIN rbfs = 1..n
  /\ \A i \in 1..n : rbfs[i].kind \in DOMAIN Kinds

\* The parameters of the first rbf are after the nugget, and so on.
LEMMA FirstOfRight ==
  ASSUME NEW rbfs, NEW n, Formed(rbfs, n)
  PROVE  /\ \A i \in 1..(n + 1) : FirstOf(rbfs)[i] = 2 * i
         /\ num_parameters(rbfs) = 2 * n + 1
  <1>. DEFINE Rec(g) == g = [i \in 1..(Len(rbfs) + 1) |->
                              IF i = 1 THEN 2 ELSE g[i - 1] + Len(Names(rbfs)[i - 1])]
  <1>1. n \in Nat /\ Len(rbfs) = n /\ DOMAIN rbfs = 1..n
    BY DEF Formed
  <1>2. \A i \in 1..n : Len(Names(rbfs)[i]) = 2
    BY <1>1, TwoNames DEF Formed, Names
  <1>3. PICK f : f = [i \in 1..(n + 1) |-> 2 * i]
    OBVIOUS
  <1>4. Rec(f)
    <2>1. \A i \in 1..(n + 1) : f[i] = IF i = 1 THEN 2 ELSE f[i - 1] + Len(Names(rbfs)[i - 1])
      <3>1. ASSUME NEW i \in 1..(n + 1), i # 1
            PROVE  f[i] = f[i - 1] + Len(Names(rbfs)[i - 1])
        <4>1. i - 1 \in 1..n /\ i - 1 \in 1..(n + 1)
          BY <1>1, <3>1
        <4>2. f[i - 1] = 2 * (i - 1) /\ f[i] = 2 * i /\ Len(Names(rbfs)[i - 1]) = 2
          BY <1>2, <1>3, <4>1
        <4>. QED BY <1>1, <4>2
      <3>2. 1 \in 1..(n + 1) /\ f[1] = 2
        BY <1>1, <1>3
      <3>. QED BY <3>1, <3>2
    <2>. QED BY <1>1, <1>3, <2>1
  <1>5. PICK g : g = (CHOOSE h : Rec(h))
    OBVIOUS
  <1>6. Rec(g)
    <2>. HIDE DEF Rec
    <2>. QED BY <1>4, <1>5
  <1>7. FirstOf(rbfs) = g
    BY <1>5 DEF FirstOf
  <1>8. g = [i \in 1..(n + 1) |-> IF i = 1 THEN 2 ELSE g[i - 1] + Len(Names(rbfs)[i - 1])]
    BY <1>1, <1>6
  <1>. HIDE DEF Rec
  <1>. DEFINE P == {i \in 0..n : g[i + 1] = 2 * (i + 1)}
  <1>9. 0 \in P
    BY <1>1, <1>8
  <1>10. ASSUME NEW i \in 1..n, i - 1 \in P PROVE i \in P
    <2>1. g[i] = 2 * i
      BY <1>1, <1>10
    <2>2. i + 1 \in 1..(n + 1) /\ i + 1 # 1 /\ (i + 1) - 1 = i
      BY <1>1
    <2>3. g[i + 1] = g[i] + Len(Names(rbfs)[i])
      BY <1>8, <2>2
    <2>4. Len(Names(rbfs)[i]) = 2
      BY <1>2
    <2>5. g[i + 1] = (2 * i) + 2
      BY <2>1, <2>3, <2>4
    <2>6. (2 * i) + 2 = 2 * (i + 1) /\ i \in 0..n
      BY <1>1
    <2>. QED BY <2>5, <2>6
  <1>11. \A i \in 0..n : i \in P
    <2>. HIDE DEF P
    <2>. QED BY <1>1, <1>9, <1>10, UpTo
  <1>12. \A i \in 1..(n + 1) : g[i] = 2 * i
    <2>1. ASSUME NEW i \in 1..(n + 1) PROVE g[i] = 2 * i
      <3>1. i - 1 \in 0..n /\ (i - 1) + 1 = i
        BY <1>1
      <3>2. i - 1 \in P
        BY <1>11, <3>1
      <3>. QED BY <3>1, <3>2
    <2>. QED BY <2>1
  <1>13. num_parameters(rbfs) = 2 * n + 1
    <2>1. n + 1 \in 1..(n + 1)
      BY <1>1
    <2>2. g[n + 1] = 2 * (n + 1)
      BY <1>12, <2>1
    <2>. QED BY <1>1, <1>7, <2>2 DEF num_parameters
  <1>. QED BY <1>7, <1>12, <1>13

\* The parameters of a model are the nugget and those of its rbfs in their order.
Vectors(n) == [1..(2 * n + 1) -> Int]
InOrder(rbfs, n, params) ==
  \A i \in 1..n : \A a \in 1..2 : rbfs[i].params[a] = params[2 * i + a - 1]

\* The parameters of such a model are the vector it was made from.
LEMMA ParametersRight ==
  ASSUME NEW made, NEW n, Formed(made.rbfs, n), NEW params \in Vectors(n),
         made.nugget = params[1], InOrder(made.rbfs, n, params)
  PROVE  parameters(made) = params
  <1>1. PICK rbfs : rbfs = made.rbfs
    OBVIOUS
  <1>2. PICK first : first = FirstOf(rbfs)
    OBVIOUS
  <1>3. /\ n \in Nat /\ DOMAIN rbfs = 1..n /\ \A i \in 1..(n + 1) : first[i] = 2 * i
        /\ num_parameters(rbfs) = 2 * n + 1
    BY <1>1, <1>2, FirstOfRight DEF Formed
  <1>. DEFINE Of(k) == CHOOSE i \in DOMAIN rbfs : first[i] <= k /\ k < first[i + 1]
              ParamAt(k) == IF k = 1 THEN made.nugget ELSE rbfs[Of(k)].params[k - first[Of(k)] + 1]
  <1>4. parameters(made) = [k \in 1..num_parameters(rbfs) |-> ParamAt(k)]
    BY <1>1, <1>2 DEF parameters
  <1>5. ASSUME NEW k \in 1..(2 * n + 1), k # 1 PROVE ParamAt(k) = params[k]
    <2>1. PICK i \in 1..n : 2 * i <= k /\ k < 2 * (i + 1)
      <3>1. k \div 2 \in 1..n /\ 2 * (k \div 2) <= k /\ k < 2 * ((k \div 2) + 1)
        BY <1>3, <1>5
      <3>. QED BY <3>1
    <2>2. \A j \in 1..n : j \in 1..(n + 1) /\ j + 1 \in 1..(n + 1)
      BY <1>3
    <2>3. first[i] <= k /\ k < first[i + 1]
      BY <1>3, <2>1, <2>2
    <2>4. PICK j : j = Of(k)
      OBVIOUS
    <2>5. j \in 1..n /\ first[j] <= k /\ k < first[j + 1]
      BY <1>3, <2>3, <2>4
    <2>6. first[j] = 2 * j /\ 2 * j <= k /\ k < 2 * (j + 1)
      BY <1>3, <2>2, <2>5
    <2>7. PICK a \in 1..2 : a = k - 2 * j + 1
      BY <2>5, <2>6
    <2>8. 2 * j + a - 1 = k
      BY <2>5, <2>7
    <2>9. rbfs[j].params[a] = params[k]
      BY <1>1, <2>5, <2>7, <2>8 DEF InOrder
    <2>. HIDE DEF Of
    <2>. QED BY <1>5, <2>4, <2>6, <2>7, <2>9
  <1>. HIDE DEF ParamAt
  <1>6. 1 \in 1..(2 * n + 1) /\ ParamAt(1) = params[1]
    BY <1>3 DEF ParamAt
  <1>. QED BY <1>3, <1>4, <1>5, <1>6 DEF Vectors

\* The problem that is solved.
LEMMA ProblemFacts ==
  ASSUME NEW pb \in Problems
  PROVE  /\ pb.dim \in 1..3 /\ pb.variograms \in Nat \ {0} /\ MaxIterations \in Nat
         /\ Formed(pb.model.rbfs, Len(pb.model.rbfs)) /\ Len(pb.model.rbfs) >= 1
         /\ pb.model.rbfs \in Seq(Rbfs(pb.dim))
         /\ num_parameters(pb.model.rbfs) = 2 * Len(pb.model.rbfs) + 1
         /\ pb.beside \subseteq Coordinates(pb) /\ pb.model.nugget \in Nat /\ StartPoint(pb) # NotYet
  <1>1. /\ pb.dim \in 1..3 /\ pb.variograms \in Nat \ {0} /\ MaxIterations \in Nat
        /\ pb.model.rbfs \in Seq(Rbfs(pb.dim)) /\ pb.model.rbfs # <<>>
        /\ pb.beside \subseteq Coordinates(pb) /\ pb.model.nugget \in Nat /\ StartPoint(pb) # NotYet
    BY FittingAssumption DEF Accepted
  <1>2. PICK rbfs : rbfs = pb.model.rbfs
    OBVIOUS
  <1>3. PICK n \in Nat : n = Len(rbfs) /\ DOMAIN rbfs = 1..n /\ n # 0
    BY <1>1, <1>2
  <1>4. \A i \in 1..n : rbfs[i].kind \in DOMAIN Kinds
    <2>1. \A i \in 1..n : rbfs[i] \in Rbfs(pb.dim)
      BY <1>1, <1>2, <1>3
    <2>. QED BY <2>1 DEF Rbfs
  <1>5. Formed(rbfs, n)
    BY <1>3, <1>4 DEF Formed
  <1>6. num_parameters(rbfs) = 2 * n + 1
    BY <1>5, FirstOfRight
  <1>. QED BY <1>1, <1>2, <1>3, <1>5, <1>6

\* Parameters within the bounds.
Clamped(pb, params) ==
  [i \in DOMAIN params |->
    Min({Max({params[i], parameter_lower_bounds(pb.model.rbfs)[i]}),
         parameter_upper_bounds(pb.model.rbfs)[i]})]

\* Clamped, they are within the bounds, and the same if they were before.
LEMMA ClampedRight ==
  ASSUME NEW pb \in Problems, NEW p \in Points(pb)
  PROVE  /\ Clamped(pb, p.params) \in [1..num_parameters(pb.model.rbfs) -> 0..Infinity]
         /\ InBounds(pb, p) => Clamped(pb, p.params) = p.params
  <1>1. PICK n, params : n \in Nat /\ n = num_parameters(pb.model.rbfs) /\ params = p.params
    BY ProblemFacts
  <1>2. params \in [1..n -> Int]
    BY <1>1 DEF Points
  <1>3. \A i \in 1..n : parameter_lower_bounds(pb.model.rbfs)[i] = 0
          /\ parameter_upper_bounds(pb.model.rbfs)[i] = Infinity
    BY <1>1 DEF parameter_lower_bounds, parameter_upper_bounds
  <1>4. \A a \in Int : /\ Min({Max({a, 0}), Infinity}) \in 0..Infinity
                       /\ a \in 0..Infinity => Min({Max({a, 0}), Infinity}) = a
    <2>1. ASSUME NEW a \in Int
          PROVE  /\ Min({Max({a, 0}), Infinity}) \in 0..Infinity
                 /\ a \in 0..Infinity => Min({Max({a, 0}), Infinity}) = a
      <3>1. PICK b : b = Max({a, 0})
        OBVIOUS
      <3>2. b \in {a, 0} /\ b >= a /\ b >= 0
        <4>1. \E y \in {a, 0} : \A z \in {a, 0} : y >= z
          OBVIOUS
        <4>. QED BY <3>1, <4>1 DEF Max
      <3>3. PICK c : c = Min({b, Infinity})
        OBVIOUS
      <3>4. c \in {b, Infinity} /\ c <= b /\ c <= Infinity
        <4>1. \E y \in {b, Infinity} : \A z \in {b, Infinity} : y <= z
          BY <3>2 DEF Infinity
        <4>. QED BY <3>3, <4>1 DEF Min
      <3>. QED BY <3>1, <3>2, <3>3, <3>4 DEF Infinity
    <2>. QED BY <2>1
  <1>5. PICK q : q = Clamped(pb, params)
    OBVIOUS
  <1>6. q = [i \in 1..n |-> Min({Max({params[i], 0}), Infinity})]
    BY <1>2, <1>3, <1>5 DEF Clamped
  <1>7. q \in [1..n -> 0..Infinity]
    BY <1>2, <1>4, <1>6
  <1>8. ASSUME InBounds(pb, p) PROVE q = params
    <2>1. \A i \in 1..n : params[i] \in 0..Infinity
      BY <1>1, <1>2, <1>3, <1>8 DEF InBounds
    <2>. QED BY <1>2, <1>4, <1>6, <2>1
  <1>. QED BY <1>1, <1>5, <1>7, <1>8

\* Rbfs whose parameters, or whose anisotropies, were set.
Anisos(dim) == [scale : [1..dim -> Int], rot : Int]
WithAnisotropies(f, rbfs, anisos, dim) ==
  /\ f \in Seq(Rbfs(dim)) /\ Len(f) = Len(rbfs)
  /\ \A i \in 1..Len(rbfs) : f[i].params = rbfs[i].params /\ f[i].aniso = anisos[i]
WithParameters(f, rbfs, params, dim) ==
  /\ f \in Seq(Rbfs(dim)) /\ Len(f) = Len(rbfs)
  /\ \A i \in 1..Len(rbfs) : /\ f[i].aniso = rbfs[i].aniso
                             /\ \A a \in 1..2 : f[i].params[a] = params[2 * i + a - 1]

\* The rbfs of a model are formed so, and each is a record of three.
LEMMA RbfsFormed ==
  ASSUME NEW dim \in 1..3, NEW rbfs \in Seq(Rbfs(dim))
  PROVE  /\ Formed(rbfs, Len(rbfs)) /\ DOMAIN rbfs = 1..Len(rbfs) /\ Len(rbfs) \in Nat
         /\ \A i \in 1..Len(rbfs) :
              \E k \in DOMAIN Kinds : \E p \in [1..2 -> Int] : \E e \in Anisos(dim) :
                rbfs[i] = [kind |-> k, params |-> p, aniso |-> e]
  <1>1. PICK n \in Nat : n = Len(rbfs) /\ DOMAIN rbfs = 1..n
               /\ \A i \in 1..n : rbfs[i] \in Rbfs(dim)
    OBVIOUS
  <1>2. ASSUME NEW i \in 1..n
        PROVE  \E k \in DOMAIN Kinds : \E p \in [1..2 -> Int] : \E e \in Anisos(dim) :
                 rbfs[i] = [kind |-> k, params |-> p, aniso |-> e]
    <2>1. PICK r : r = rbfs[i]
      OBVIOUS
    <2>2. r \in [kind : DOMAIN Kinds, params : [1..2 -> Int], aniso : Anisos(dim)]
      BY <1>1, <2>1 DEF Rbfs, Anisos
    <2>3. PICK k, p, e : k = r.kind /\ p = r.params /\ e = r.aniso
      OBVIOUS
    <2>4. k \in DOMAIN Kinds /\ p \in [1..2 -> Int] /\ e \in Anisos(dim)
      BY <2>2, <2>3
    <2>5. r = [kind |-> k, params |-> p, aniso |-> e]
      BY <2>2, <2>3
    <2>. QED BY <2>1, <2>4, <2>5
  <1>3. \A i \in 1..n : rbfs[i].kind \in DOMAIN Kinds
    BY <1>1 DEF Rbfs
  <1>. QED BY <1>1, <1>2, <1>3 DEF Formed

\* set_anisotropies gives each rbf its own, and keeps its parameters.
LEMMA SetAnisotropiesRight ==
  ASSUME NEW dim \in 1..3, NEW rbfs \in Seq(Rbfs(dim)), NEW anisos \in [1..Len(rbfs) -> Anisos(dim)]
  PROVE  WithAnisotropies(set_anisotropies(rbfs, anisos), rbfs, anisos, dim)
  <1>1. PICK n \in Nat : n = Len(rbfs) /\ DOMAIN rbfs = 1..n
    BY RbfsFormed
  <1>2. PICK g : g = set_anisotropies(rbfs, anisos)
    OBVIOUS
  <1>3. g = [i \in 1..n |-> [rbfs[i] EXCEPT !.aniso = anisos[i]]]
    BY <1>1, <1>2 DEF set_anisotropies
  <1>4. ASSUME NEW i \in 1..n
        PROVE  g[i] \in Rbfs(dim) /\ g[i].params = rbfs[i].params /\ g[i].aniso = anisos[i]
    <2>1. PICK k \in DOMAIN Kinds, p \in [1..2 -> Int], e \in Anisos(dim) :
            rbfs[i] = [kind |-> k, params |-> p, aniso |-> e]
      BY <1>1, RbfsFormed
    <2>2. PICK b \in Anisos(dim) : b = anisos[i]
      BY <1>1
    <2>3. g[i] = [[kind |-> k, params |-> p, aniso |-> e] EXCEPT !.aniso = b]
      BY <1>3, <2>1, <2>2
    <2>4. g[i] = [kind |-> k, params |-> p, aniso |-> b]
      BY <2>3
    <2>5. g[i] \in Rbfs(dim)
      BY <2>4 DEF Rbfs, Anisos
    <2>. QED BY <2>1, <2>2, <2>4, <2>5
  <1>5. g \in Seq(Rbfs(dim)) /\ Len(g) = n
    BY <1>3, <1>4
  <1>. QED BY <1>1, <1>2, <1>4, <1>5 DEF WithAnisotropies

\* set_parameters gives each rbf its own, and keeps its anisotropy.
LEMMA SetParametersRight ==
  ASSUME NEW dim \in 1..3, NEW rbfs \in Seq(Rbfs(dim)),
         NEW params \in [1..(2 * Len(rbfs) + 1) -> Int]
  PROVE  WithParameters(set_parameters(rbfs, params), rbfs, params, dim)
  <1>1. PICK n \in Nat : n = Len(rbfs) /\ DOMAIN rbfs = 1..n /\ Formed(rbfs, n)
    BY RbfsFormed
  <1>2. PICK h : h = set_parameters(rbfs, params)
    OBVIOUS
  <1>3. h = [i \in 1..n |-> [rbfs[i] EXCEPT !.params =
              [a \in DOMAIN Names(rbfs)[i] |-> params[FirstOf(rbfs)[i] + a - 1]]]]
    BY <1>1, <1>2 DEF set_parameters
  <1>4. ASSUME NEW i \in 1..n
        PROVE  /\ h[i] \in Rbfs(dim) /\ h[i].aniso = rbfs[i].aniso
               /\ \A a \in 1..2 : h[i].params[a] = params[2 * i + a - 1]
    <2>1. DOMAIN Names(rbfs)[i] = 1..2
      BY <1>1, TwoNames DEF Names, Formed
    <2>2. FirstOf(rbfs)[i] = 2 * i
      <3>1. i \in 1..(n + 1)
        BY <1>1
      <3>. QED BY <1>1, <3>1, FirstOfRight
    <2>3. PICK q : q = [a \in 1..2 |-> params[2 * i + a - 1]]
      OBVIOUS
    <2>4. q \in [1..2 -> Int]
      <3>1. \A a \in 1..2 : 2 * i + a - 1 \in 1..(2 * n + 1)
        BY <1>1
      <3>. QED BY <1>1, <2>3, <3>1
    <2>5. PICK k \in DOMAIN Kinds, p \in [1..2 -> Int], e \in Anisos(dim) :
            rbfs[i] = [kind |-> k, params |-> p, aniso |-> e]
      BY <1>1, RbfsFormed
    <2>6. h[i] = [[kind |-> k, params |-> p, aniso |-> e] EXCEPT !.params = q]
      BY <1>3, <2>1, <2>2, <2>3, <2>5
    <2>7. h[i] = [kind |-> k, params |-> q, aniso |-> e]
      BY <2>6
    <2>8. h[i] \in Rbfs(dim)
      BY <2>4, <2>7 DEF Rbfs, Anisos
    <2>9. h[i].params = q /\ h[i].aniso = rbfs[i].aniso
      BY <2>5, <2>7
    <2>. QED BY <2>3, <2>8, <2>9
  <1>5. h \in Seq(Rbfs(dim)) /\ Len(h) = n
    <2>1. DOMAIN h = 1..n /\ h = [i \in DOMAIN h |-> h[i]]
      BY <1>3
    <2>2. \A i \in 1..n : h[i] \in Rbfs(dim)
      BY <1>4
    <2>. QED BY <1>1, <2>1, <2>2
  <1>. QED BY <1>1, <1>2, <1>4, <1>5 DEF WithParameters

\* The model of a point, made from the template.
GivenRbfs(pb) == set_anisotropies(pb.model.rbfs, [i \in 1..Len(pb.model.rbfs) |-> Identity(pb.dim)])
Asks(pb) == pb.asked /\ pb.dim >= 2 /\ pb.variograms >= pb.dim
ScaleOf(pb, p, i) ==
  CASE pb.dim = 2 -> <<0, p.inv_minor[i]>>
    [] pb.dim = 3 -> <<p.inv_major[i], 0, p.inv_minor[i]>>
AnisosOf(pb, p) == [i \in 1..Len(pb.model.rbfs) |-> [scale |-> ScaleOf(pb, p, i), rot |-> p.rot]]
RbfsAt(pb, p) == set_parameters(GivenRbfs(pb), p.params)
RbfsOf(pb, p) ==
  IF Asks(pb) THEN set_anisotropies(RbfsAt(pb, p), AnisosOf(pb, p)) ELSE RbfsAt(pb, p)
MadeOf(pb, p) ==
  [rbfs |-> RbfsOf(pb, p), nugget |-> p.params[1], poly_degree |-> pb.model.poly_degree]

\* It has the parameters of the point, and its anisotropies if they were asked for.
AnisotropiesOf(rbfs, pb, p) ==
  \A i \in 1..Len(pb.model.rbfs) :
    IF Asks(pb)
    THEN /\ rbfs[i].aniso.rot = p.rot /\ rbfs[i].aniso.scale[pb.dim] = p.inv_minor[i]
         /\ rbfs[i].aniso.scale[pb.dim - 1] = 0
         /\ pb.dim = 3 => rbfs[i].aniso.scale[1] = p.inv_major[i]
    ELSE rbfs[i].aniso = Identity(pb.dim)
AxesInOrder(rbfs, pb) ==
  \A i \in 1..Len(pb.model.rbfs) : \A a \in 1..(pb.dim - 1) :
    rbfs[i].aniso.scale[a] <= rbfs[i].aniso.scale[a + 1]
ScalingsInBounds(pb, p) ==
  \A i \in 1..Len(pb.model.rbfs) : p.inv_major[i] \in MajorBounds /\ p.inv_minor[i] \in MinorBounds

\* The model made for a point has its parameters and its anisotropies.
LEMMA MadeRight ==
  ASSUME NEW pb \in Problems, NEW p \in Points(pb)
  PROVE  /\ parameters(MadeOf(pb, p)) = p.params
         /\ DOMAIN MadeOf(pb, p).rbfs = 1..Len(pb.model.rbfs)
         /\ AnisotropiesOf(MadeOf(pb, p).rbfs, pb, p)
         /\ ScalingsInBounds(pb, p) => AxesInOrder(MadeOf(pb, p).rbfs, pb)
  <1>1. PICK n, dim, rbfs : n \in Nat /\ dim \in 1..3 /\ n = Len(rbfs) /\ dim = pb.dim
               /\ rbfs = pb.model.rbfs
    BY ProblemFacts DEF Formed
  <1>2. /\ rbfs \in Seq(Rbfs(dim)) /\ n >= 1 /\ DOMAIN rbfs = 1..n
        /\ num_parameters(pb.model.rbfs) = 2 * n + 1
    BY <1>1, ProblemFacts
  <1>3. PICK q \in [1..(2 * n + 1) -> Int] : q = p.params
    BY <1>2 DEF Points
  <1>4. PICK none \in [1..n -> Anisos(dim)] : none = [i \in 1..n |-> Identity(dim)]
    <2>1. Identity(dim) \in Anisos(dim)
      BY DEF Identity, Anisos
    <2>. QED BY <2>1
  <1>5. PICK g : g = GivenRbfs(pb)
    OBVIOUS
  <1>6. WithAnisotropies(g, rbfs, none, dim)
    <2>1. g = set_anisotropies(rbfs, none)
      BY <1>1, <1>4, <1>5 DEF GivenRbfs
    <2>. QED BY <1>1, <1>2, <1>4, <2>1, SetAnisotropiesRight
  <1>7. g \in Seq(Rbfs(dim)) /\ Len(g) = n /\ \A i \in 1..n : g[i].aniso = Identity(dim)
    BY <1>1, <1>4, <1>6 DEF WithAnisotropies
  <1>8. PICK h : h = RbfsAt(pb, p)
    OBVIOUS
  <1>9. WithParameters(h, g, q, dim)
    <2>1. h = set_parameters(g, q)
      BY <1>3, <1>5, <1>8 DEF RbfsAt
    <2>. QED BY <1>1, <1>3, <1>7, <2>1, SetParametersRight
  <1>10. /\ h \in Seq(Rbfs(dim)) /\ Len(h) = n
         /\ \A i \in 1..n : h[i].aniso = Identity(dim)
         /\ \A i \in 1..n : \A a \in 1..2 : h[i].params[a] = q[2 * i + a - 1]
    BY <1>7, <1>9 DEF WithParameters
  <1>11. PICK b : b = AnisosOf(pb, p)
    OBVIOUS
  <1>12. b = [i \in 1..n |-> [scale |-> ScaleOf(pb, p, i), rot |-> p.rot]]
    BY <1>1, <1>11 DEF AnisosOf
  <1>13. PICK major, minor, rot :
           /\ major = p.inv_major /\ minor = p.inv_minor /\ rot = p.rot
           /\ major \in [1..n -> Int] /\ minor \in [1..n -> Int] /\ rot \in Int
    <2>1. p \in [params : [1..num_parameters(pb.model.rbfs) -> Int], rot : Int,
                 inv_major : [1..n -> Int], inv_minor : [1..n -> Int]]
      BY <1>1, <1>2 DEF Points
    <2>. QED BY <2>1
  <1>14. Asks(pb) => dim = 2 \/ dim = 3
    BY <1>1 DEF Asks
  <1>15. ASSUME NEW i \in 1..n, Asks(pb)
         PROVE  /\ b[i] \in Anisos(dim) /\ b[i].rot = p.rot /\ b[i].scale[dim] = minor[i]
                /\ b[i].scale[dim - 1] = 0 /\ (dim = 3 => b[i].scale[1] = major[i])
    <2>1. PICK s : s = ScaleOf(pb, p, i)
      OBVIOUS
    <2>2. b[i] = [scale |-> s, rot |-> rot]
      BY <1>12, <1>13, <2>1
    <2>3. PICK u \in Int, v \in Int : u = major[i] /\ v = minor[i]
      BY <1>13
    <2>4. CASE dim = 2
      <3>1. s = <<0, v>>
        BY <1>1, <1>13, <2>1, <2>3, <2>4 DEF ScaleOf
      <3>2. s \in [1..2 -> Int] /\ s[2] = v /\ s[1] = 0
        BY <3>1
      <3>3. b[i] \in Anisos(dim)
        BY <1>13, <2>2, <2>4, <3>2 DEF Anisos
      <3>. QED BY <1>13, <2>2, <2>3, <2>4, <3>2, <3>3
    <2>5. CASE dim = 3
      <3>1. s = <<u, 0, v>>
        BY <1>1, <1>13, <2>1, <2>3, <2>5 DEF ScaleOf
      <3>2. s \in [1..3 -> Int] /\ s[1] = u /\ s[2] = 0 /\ s[3] = v
        BY <3>1
      <3>3. b[i] \in Anisos(dim)
        BY <1>13, <2>2, <2>5, <3>2 DEF Anisos
      <3>. QED BY <1>13, <2>2, <2>3, <2>5, <3>2, <3>3
    <2>. QED BY <1>14, <1>15, <2>4, <2>5
  <1>16. PICK r : r = RbfsOf(pb, p)
    OBVIOUS
  <1>17. /\ r \in Seq(Rbfs(dim)) /\ Len(r) = n
         /\ \A i \in 1..n : r[i].aniso = IF Asks(pb) THEN b[i] ELSE Identity(dim)
         /\ \A i \in 1..n : \A a \in 1..2 : r[i].params[a] = q[2 * i + a - 1]
    <2>1. CASE ~Asks(pb)
      <3>1. r = h
        BY <1>8, <1>16, <2>1 DEF RbfsOf
      <3>. QED BY <1>10, <2>1, <3>1
    <2>2. CASE Asks(pb)
      <3>1. b \in [1..n -> Anisos(dim)]
        BY <1>12, <1>15, <2>2
      <3>2. r = set_anisotropies(h, b)
        BY <1>8, <1>11, <1>16, <2>2 DEF RbfsOf
      <3>3. WithAnisotropies(r, h, b, dim)
        BY <1>1, <1>10, <3>1, <3>2, SetAnisotropiesRight
      <3>4. /\ r \in Seq(Rbfs(dim)) /\ Len(r) = n
            /\ \A i \in 1..n : r[i].params = h[i].params /\ r[i].aniso = b[i]
        BY <1>10, <3>3 DEF WithAnisotropies
      <3>. QED BY <1>10, <2>2, <3>4
    <2>. QED BY <2>1, <2>2
  <1>18. PICK made : made = MadeOf(pb, p)
    OBVIOUS
  <1>19. made.rbfs = r /\ made.nugget = q[1]
    BY <1>3, <1>16, <1>18 DEF MadeOf
  <1>20. Formed(made.rbfs, n) /\ DOMAIN made.rbfs = 1..n
    BY <1>1, <1>17, <1>19, RbfsFormed
  <1>21. parameters(made) = q
    <2>1. q \in [1..(2 * n + 1) -> Int]
      OBVIOUS
    <2>2. InOrder(made.rbfs, n, q) /\ q \in Vectors(n)
      BY <1>17, <1>19, <2>1 DEF InOrder, Vectors
    <2>. QED BY <1>19, <1>20, <2>2, ParametersRight
  <1>22. AnisotropiesOf(r, pb, p)
    <2>1. ASSUME NEW i \in 1..n
          PROVE  IF Asks(pb)
                 THEN /\ r[i].aniso.rot = p.rot /\ r[i].aniso.scale[dim] = p.inv_minor[i]
                      /\ r[i].aniso.scale[dim - 1] = 0
                      /\ dim = 3 => r[i].aniso.scale[1] = p.inv_major[i]
                 ELSE r[i].aniso = Identity(dim)
      <3>1. CASE Asks(pb)
        <4>1. r[i].aniso = b[i]
          BY <1>17, <3>1
        <4>2. /\ b[i].rot = p.rot /\ b[i].scale[dim] = minor[i] /\ b[i].scale[dim - 1] = 0
              /\ dim = 3 => b[i].scale[1] = major[i]
          BY <1>15, <3>1
        <4>. QED BY <1>13, <3>1, <4>1, <4>2
      <3>2. CASE ~Asks(pb)
        BY <1>17, <3>2
      <3>. QED BY <3>1, <3>2
    <2>. QED BY <1>1, <2>1 DEF AnisotropiesOf
  <1>23. ASSUME ScalingsInBounds(pb, p), NEW i \in 1..n, NEW a \in 1..(dim - 1)
         PROVE  r[i].aniso.scale[a] <= r[i].aniso.scale[a + 1]
    <2>1. CASE ~Asks(pb)
      <3>1. r[i].aniso.scale = [j \in 1..dim |-> 0]
        <4>1. r[i].aniso = Identity(dim)
          BY <1>17, <2>1
        <4>. QED BY <4>1 DEF Identity
      <3>2. a \in 1..dim /\ a + 1 \in 1..dim
        BY <1>1
      <3>. QED BY <3>1, <3>2
    <2>2. CASE Asks(pb)
      <3>1. major[i] \in -2..0 /\ minor[i] \in 0..2
        BY <1>1, <1>13, <1>23 DEF ScalingsInBounds, MajorBounds, MinorBounds
      <3>2. r[i].aniso = b[i]
        BY <1>17, <2>2
      <3>3. /\ b[i].scale[dim] = minor[i] /\ b[i].scale[dim - 1] = 0
            /\ dim = 3 => b[i].scale[1] = major[i]
        BY <1>15, <2>2
      <3>4. CASE dim = 2
        BY <3>1, <3>2, <3>3, <3>4
      <3>5. CASE dim = 3
        <4>1. a = 1 \/ a = 2
          BY <3>5
        <4>. QED BY <3>1, <3>2, <3>3, <3>5, <4>1
      <3>. QED BY <1>14, <2>2, <3>4, <3>5
    <2>. QED BY <2>1, <2>2
  <1>24. ScalingsInBounds(pb, p) => AxesInOrder(r, pb)
    BY <1>1, <1>23 DEF AxesInOrder
  <1>. QED BY <1>1, <1>3, <1>18, <1>19, <1>20, <1>21, <1>22, <1>24

\* What a thread holds at each step of an evaluation beside the point p.
AskedOf(p, c) ==
  [params |-> Moved(p.params, c, "params"),
   rot |-> IF c[1] = "rot" THEN p.rot + c[2] * c[3] ELSE p.rot,
   inv_major |-> Moved(p.inv_major, c, "inv_major"),
   inv_minor |-> Moved(p.inv_minor, c, "inv_minor")]
EvaluatedAt(pb, p, c) == [AskedOf(p, c) EXCEPT !.params = Clamped(pb, @)]
IsTask(pb, asked) ==
  asked[1] \in 1..pb.variograms /\ asked[2] \in Coordinates(pb) \cup {Here} /\ asked[3] \subseteq pb.beside
CopyAt(p, t) == [nugget |-> p.params[1], rbfs |-> t]
ThreadRight(pb, p, t, pc, asked, own, rbfs) ==
  /\ pc \in {"idle", "copy", "parameters", "anisotropy", "compute"}
  /\ pc # "idle" => IsTask(pb, asked)
  /\ pc = "parameters" => own = [nugget |-> pb.model.nugget, rbfs |-> t] /\ rbfs = GivenRbfs(pb)
  /\ pc = "anisotropy" => own = CopyAt(EvaluatedAt(pb, p, asked[2]), t)
       /\ rbfs = RbfsAt(pb, EvaluatedAt(pb, p, asked[2]))
  /\ pc = "compute" => own = CopyAt(EvaluatedAt(pb, p, asked[2]), t)
       /\ rbfs = RbfsOf(pb, EvaluatedAt(pb, p, asked[2]))

\* The template stays as it is.  The residuals of each variogram are to be evaluated, or
\* are being evaluated, or are those of the model of the point under evaluation; those
\* that were accepted are those of the point accepted; and model() makes its model.  From
\* a start out of bounds nothing is evaluated.
Tried == fit.tries \cup {StartPoint(fit)}
FitTypes ==
  /\ fit \in Problems /\ here \in Tried /\ members \in Tried /\ accepted \in Tried \cup {NotYet}
  /\ fitPc \in {"evaluate", "solved", "done"} /\ failed \in BOOLEAN
       /\ iterations \in 0..MaxIterations
  /\ DOMAIN objects = Owners /\ DOMAIN of = Variograms
  /\ evalPc = [t \in EvalThread |-> evalPc[t]] /\ DOMAIN task = EvalThread
       /\ DOMAIN copy = EvalThread
  /\ todo \subseteq Variograms
FitInv ==
  /\ FitTypes
  /\ objects[Template] = GivenRbfs(fit)
  /\ \A t \in EvalThread : ThreadRight(fit, here, t, evalPc[t], task[t], copy[t], objects[t])
  /\ \/ InBounds(fit, here)
     \/ fitPc # "evaluate" /\ accepted = NotYet /\ \A t \in EvalThread : evalPc[t] = "idle"
  /\ \A v \in Variograms :
       \/ v \in todo
       \/ \E t \in EvalThread : evalPc[t] # "idle" /\ task[t][1] = v /\ task[t][2] = Here
       \/ of[v] = MadeOf(fit, here)
  /\ accepted # NotYet => \A v \in Variograms : basis[v] = MadeOf(fit, accepted)
  /\ model # NotYet => fitPc = "done" /\ model = MadeOf(fit, members)

\* A block of parameters is one still when a coordinate of it was moved.
LEMMA MovedRight ==
  ASSUME NEW n \in Nat, NEW block \in [1..n -> Int], NEW c, NEW name,
         c[1] = name => c[2] \in 1..n, c[3] \in Int
  PROVE  Moved(block, c, name) \in [1..n -> Int] /\ (c[3] = 0 => Moved(block, c, name) = block)
  <1>1. CASE c[1] # name
    BY <1>1 DEF Moved
  <1>2. CASE c[1] = name
    <2>1. Moved(block, c, name) = [block EXCEPT ![c[2]] = block[c[2]] + c[3]]
      BY <1>2 DEF Moved
    <2>2. block[c[2]] \in Int
      BY <1>2
    <2>. QED BY <1>2, <2>1, <2>2
  <1>. QED BY <1>1, <1>2

\* The coordinates that are moved are those of points.
LEMMA CoordinateRight ==
  ASSUME NEW pb \in Problems, NEW c \in Coordinates(pb) \cup {Here}
  PROVE  /\ c[1] = "params" => c[2] \in 1..num_parameters(pb.model.rbfs)
         /\ c[1] \in {"inv_major", "inv_minor"} => c[2] \in DOMAIN pb.model.rbfs
         /\ c[1] = "rot" => c[2] \in Int
         /\ c[3] \in Int /\ (c = Here => c[3] = 0 /\ c[1] = "params")
  <1>1. PICK n, d : n \in Nat /\ n >= 1 /\ n = num_parameters(pb.model.rbfs) /\ d = DOMAIN pb.model.rbfs
    BY ProblemFacts DEF Formed
  <1>2. CASE c = Here
    <2>1. c[1] = "params" /\ c[2] = 1 /\ c[3] = 0
      BY <1>2 DEF Here
    <2>. QED BY <1>1, <2>1
  <1>3. CASE c # Here /\ c \in {"params"} \X (1..n) \X {-1, 1}
    BY <1>1, <1>3
  <1>4. CASE c # Here /\ c \in {"rot"} \X (IF pb.dim = 3 THEN 1..4 ELSE {1}) \X {-1, 1}
    <2>1. c[1] = "rot" /\ c[2] \in (IF pb.dim = 3 THEN 1..4 ELSE {1}) /\ c[3] \in {-1, 1}
      BY <1>4
    <2>2. c[2] \in Int
      BY <2>1
    <2>. QED BY <1>4, <2>1, <2>2
  <1>5. CASE c # Here /\ c \in {"inv_major", "inv_minor"} \X d \X {-1, 1}
    <2>1. c[1] \in {"inv_major", "inv_minor"} /\ c[2] \in d /\ c[3] \in {-1, 1}
      BY <1>5
    <2>. QED BY <1>1, <1>5, <2>1
  <1>6. \/ c = Here
        \/ c \in {"params"} \X (1..n) \X {-1, 1}
        \/ c \in {"rot"} \X (IF pb.dim = 3 THEN 1..4 ELSE {1}) \X {-1, 1}
        \/ c \in {"inv_major", "inv_minor"} \X d \X {-1, 1}
    BY <1>1 DEF Coordinates
  <1>. QED BY <1>2, <1>3, <1>4, <1>5, <1>6

\* A point beside another may be asked for as well, and is evaluated within bounds.
LEMMA AskedRight ==
  ASSUME NEW pb \in Problems, NEW p \in Points(pb), NEW c \in Coordinates(pb) \cup {Here}
  PROVE  /\ EvaluatedAt(pb, p, c) \in Points(pb)
         /\ EvaluatedAt(pb, p, c).params[1] \in Nat
         /\ InBounds(pb, p) /\ c = Here => EvaluatedAt(pb, p, c) = p
  <1>1. PICK n, l : /\ n \in Nat /\ n >= 1 /\ n = num_parameters(pb.model.rbfs)
                    /\ l \in Nat /\ DOMAIN pb.model.rbfs = 1..l
    BY ProblemFacts DEF Formed
  <1>2. PICK params \in [1..n -> Int], rot \in Int, major \in [1..l -> Int], minor \in [1..l -> Int] :
          p = [params |-> params, rot |-> rot, inv_major |-> major, inv_minor |-> minor]
    <2>1. p \in [params : [1..n -> Int], rot : Int, inv_major : [1..l -> Int], inv_minor : [1..l -> Int]]
      BY <1>1 DEF Points
    <2>2. PICK j, y, z, w : j = p.params /\ y = p.rot /\ z = p.inv_major /\ w = p.inv_minor
      OBVIOUS
    <2>3. /\ j \in [1..n -> Int] /\ y \in Int /\ z \in [1..l -> Int] /\ w \in [1..l -> Int]
          /\ p = [params |-> j, rot |-> y, inv_major |-> z, inv_minor |-> w]
      BY <2>1, <2>2
    <2>. QED BY <2>3
  <1>3. PICK moved, turn, longer, shorter :
          /\ moved = Moved(params, c, "params") /\ longer = Moved(major, c, "inv_major")
          /\ shorter = Moved(minor, c, "inv_minor")
          /\ turn = IF c[1] = "rot" THEN rot + c[2] * c[3] ELSE rot
    OBVIOUS
  <1>4. AskedOf(p, c) = [params |-> moved, rot |-> turn, inv_major |-> longer, inv_minor |-> shorter]
    <2>1. p.params = params /\ p.rot = rot /\ p.inv_major = major /\ p.inv_minor = minor
      BY <1>2
    <2>. QED BY <1>3, <2>1 DEF AskedOf
  <1>5. /\ c[1] = "params" => c[2] \in 1..n
        /\ c[1] \in {"inv_major", "inv_minor"} => c[2] \in 1..l
        /\ c[1] = "rot" => c[2] \in Int
        /\ c[3] \in Int /\ (c = Here => c[3] = 0 /\ c[1] = "params")
    BY <1>1, CoordinateRight
  <1>6. /\ moved \in [1..n -> Int] /\ longer \in [1..l -> Int] /\ shorter \in [1..l -> Int]
        /\ c[3] = 0 => moved = params /\ longer = major /\ shorter = minor
    <2>1. moved \in [1..n -> Int] /\ (c[3] = 0 => moved = params)
      <3>1. (c[1] = "params" => c[2] \in 1..n) /\ c[3] \in Int
        BY <1>5
      <3>2. n \in Nat /\ params \in [1..n -> Int] /\ moved = Moved(params, c, "params")
        BY <1>1, <1>3
      <3>. QED BY <3>1, <3>2, MovedRight
    <2>2. longer \in [1..l -> Int] /\ (c[3] = 0 => longer = major)
      <3>1. (c[1] = "inv_major" => c[2] \in 1..l) /\ c[3] \in Int
        BY <1>5
      <3>2. l \in Nat /\ major \in [1..l -> Int] /\ longer = Moved(major, c, "inv_major")
        BY <1>1, <1>3
      <3>. QED BY <3>1, <3>2, MovedRight
    <2>3. shorter \in [1..l -> Int] /\ (c[3] = 0 => shorter = minor)
      <3>1. (c[1] = "inv_minor" => c[2] \in 1..l) /\ c[3] \in Int
        BY <1>5
      <3>2. l \in Nat /\ minor \in [1..l -> Int] /\ shorter = Moved(minor, c, "inv_minor")
        BY <1>1, <1>3
      <3>. QED BY <3>1, <3>2, MovedRight
    <2>. QED BY <2>1, <2>2, <2>3
  <1>7. turn \in Int /\ (c = Here => turn = rot)
    <2>1. c[1] = "rot" => c[2] * c[3] \in Int
      BY <1>5
    <2>2. c = Here => c[1] # "rot"
      BY <1>5
    <2>. QED BY <1>3, <2>1, <2>2
  <1>8. AskedOf(p, c) \in Points(pb) /\ (c = Here => AskedOf(p, c) = p)
    <2>1. [params |-> moved, rot |-> turn, inv_major |-> longer, inv_minor |-> shorter]
            \in [params : [1..n -> Int], rot : Int, inv_major : [1..l -> Int], inv_minor : [1..l -> Int]]
      BY <1>6, <1>7
    <2>2. AskedOf(p, c) \in Points(pb)
      BY <1>1, <1>4, <2>1 DEF Points
    <2>3. ASSUME c = Here PROVE AskedOf(p, c) = p
      <3>1. moved = params /\ turn = rot /\ longer = major /\ shorter = minor
        BY <1>5, <1>6, <1>7, <2>3
      <3>. QED BY <1>2, <1>4, <3>1
    <2>. QED BY <2>2, <2>3
  <1>9. PICK q : q = Clamped(pb, moved)
    OBVIOUS
  <1>10. /\ q \in [1..n -> 0..Infinity]
         /\ InBounds(pb, AskedOf(p, c)) => q = moved
    <2>1. AskedOf(p, c).params = moved
      BY <1>4
    <2>. QED BY <1>1, <1>8, <1>9, <2>1, ClampedRight
  <1>11. EvaluatedAt(pb, p, c)
           = [params |-> q, rot |-> turn, inv_major |-> longer, inv_minor |-> shorter]
    BY <1>4, <1>9 DEF EvaluatedAt
  <1>12. q \in [1..n -> Int] /\ q[1] \in Nat
    <2>1. \A i \in 1..n : q[i] \in Nat
      <3>1. \A j \in 0..Infinity : j \in Nat
        BY DEF Infinity
      <3>. QED BY <1>10, <3>1
    <2>. QED BY <1>1, <1>10, <2>1
  <1>13. EvaluatedAt(pb, p, c) \in Points(pb) /\ EvaluatedAt(pb, p, c).params[1] \in Nat
    <2>1. [params |-> q, rot |-> turn, inv_major |-> longer, inv_minor |-> shorter]
            \in [params : [1..n -> Int], rot : Int, inv_major : [1..l -> Int], inv_minor : [1..l -> Int]]
      BY <1>6, <1>7, <1>12
    <2>2. EvaluatedAt(pb, p, c) \in Points(pb)
      BY <1>1, <1>11, <2>1 DEF Points
    <2>. QED BY <1>11, <1>12, <2>2
  <1>14. ASSUME InBounds(pb, p), c = Here PROVE EvaluatedAt(pb, p, c) = p
    <2>1. AskedOf(p, c) = p /\ q = moved
      BY <1>8, <1>10, <1>14
    <2>. QED BY <1>4, <1>11, <2>1
  <1>. QED BY <1>13, <1>14

\* The parameters of the model are the start.
LEMMA StartRight ==
  ASSUME NEW pb \in Problems
  PROVE  StartPoint(pb) \in Points(pb) /\ ScalingsInBounds(pb, StartPoint(pb))
  <1>1. PICK n, dim, rbfs, nugget :
          /\ n \in Nat /\ dim \in 1..3 /\ n = Len(rbfs) /\ dim = pb.dim /\ rbfs = pb.model.rbfs
          /\ nugget = pb.model.nugget /\ nugget \in Nat
    BY ProblemFacts DEF Formed
  <1>2. /\ rbfs \in Seq(Rbfs(dim)) /\ DOMAIN rbfs = 1..n /\ Formed(rbfs, n)
        /\ num_parameters(rbfs) = 2 * n + 1
    BY <1>1, ProblemFacts DEF Formed
  <1>3. \A i \in 1..n : \A a \in 1..2 : rbfs[i].params[a] \in Int
    <2>1. ASSUME NEW i \in 1..n PROVE \A a \in 1..2 : rbfs[i].params[a] \in Int
      <3>1. PICK k \in DOMAIN Kinds, p \in [1..2 -> Int], e \in Anisos(dim) :
              rbfs[i] = [kind |-> k, params |-> p, aniso |-> e]
        BY <1>1, <1>2, RbfsFormed
      <3>2. rbfs[i].params = p
        BY <3>1
      <3>. QED BY <3>2
    <2>. QED BY <2>1
  <1>4. PICK q : q = [k \in 1..(2 * n + 1) |->
          IF k = 1 THEN nugget ELSE rbfs[k \div 2].params[(k % 2) + 1]]
    OBVIOUS
  <1>5. q \in Vectors(n)
    <2>1. ASSUME NEW k \in 1..(2 * n + 1), k # 1 PROVE rbfs[k \div 2].params[(k % 2) + 1] \in Int
      <3>1. k \div 2 \in 1..n /\ (k % 2) + 1 \in 1..2
        BY <1>1, <2>1
      <3>. QED BY <1>3, <3>1
    <2>2. nugget \in Int
      BY <1>1
    <2>. QED BY <1>4, <2>1, <2>2 DEF Vectors
  <1>6. InOrder(rbfs, n, q)
    <2>1. ASSUME NEW i \in 1..n, NEW a \in 1..2 PROVE rbfs[i].params[a] = q[2 * i + a - 1]
      <3>1. PICK k : k = 2 * i + a - 1
        OBVIOUS
      <3>2. k \in 1..(2 * n + 1) /\ k # 1 /\ k \div 2 = i /\ (k % 2) + 1 = a
        <4>1. CASE a = 1
          BY <1>1, <3>1, <4>1
        <4>2. CASE a = 2
          BY <1>1, <3>1, <4>2
        <4>. QED BY <4>1, <4>2
      <3>3. q[k] = rbfs[k \div 2].params[(k % 2) + 1]
        BY <1>4, <3>2
      <3>4. q[k] = rbfs[i].params[a]
        BY <3>2, <3>3
      <3>. QED BY <3>1, <3>4
    <2>. QED BY <2>1 DEF InOrder
  <1>7. pb.model.nugget = q[1]
    <2>1. 1 \in 1..(2 * n + 1)
      BY <1>1
    <2>. QED BY <1>1, <1>4, <2>1
  <1>8. parameters(pb.model) = q
    BY <1>1, <1>2, <1>5, <1>6, <1>7, ParametersRight
  <1>9. PICK ones : ones = Ones(pb)
    OBVIOUS
  <1>10. ones = [i \in 1..n |-> 0]
    BY <1>1, <1>2, <1>9 DEF Ones
  <1>11. StartPoint(pb) = [params |-> q, rot |-> 1, inv_major |-> ones, inv_minor |-> ones]
    BY <1>8, <1>9 DEF StartPoint
  <1>12. StartPoint(pb) \in Points(pb)
    <2>1. q \in [1..num_parameters(pb.model.rbfs) -> Int] /\ ones \in [DOMAIN pb.model.rbfs -> Int]
      <3>1. num_parameters(pb.model.rbfs) = 2 * n + 1 /\ DOMAIN pb.model.rbfs = 1..n
        BY <1>1, <1>2
      <3>2. ones \in [1..n -> Int]
        BY <1>10
      <3>3. q \in [1..(2 * n + 1) -> Int]
        BY <1>5 DEF Vectors
      <3>. QED BY <3>1, <3>2, <3>3
    <2>. QED BY <1>11, <2>1 DEF Points
  <1>13. ScalingsInBounds(pb, StartPoint(pb))
    BY <1>1, <1>10, <1>11 DEF ScalingsInBounds, MajorBounds, MinorBounds
  <1>. QED BY <1>12, <1>13

\* The points tried are within bounds, and so are the scalings of the start.
LEMMA TriedRight ==
  ASSUME fit \in Problems, NEW p \in Tried
  PROVE  /\ p \in Points(fit) /\ p # NotYet /\ ScalingsInBounds(fit, p)
         /\ p \in fit.tries => InBounds(fit, p)
  <1>1. CASE p = StartPoint(fit) /\ p \notin fit.tries
    BY <1>1, StartRight, ProblemFacts
  <1>2. CASE p \in fit.tries
    <2>1. InBounds(fit, p) /\ p # NotYet
      BY <1>2, FittingAssumption
    <2>2. p \in Points(fit) /\ \A i \in DOMAIN fit.model.rbfs :
            p.inv_major[i] \in MajorBounds /\ p.inv_minor[i] \in MinorBounds
      BY <2>1 DEF InBounds
    <2>3. ScalingsInBounds(fit, p)
      BY <2>2, ProblemFacts DEF ScalingsInBounds, Formed
    <2>. QED BY <2>1, <2>2, <2>3
  <1>. QED BY <1>1, <1>2 DEF Tried

\* What the threads and model() make, of the problem and the point.
LEMMA FitDefs ==
  /\ \A params : clamp_parameters(params) = Clamped(fit, params)
  /\ \A t : [At(t) EXCEPT !.params = clamp_parameters(@)] = EvaluatedAt(fit, here, task[t][2])
  /\ \A t : At(t) = AskedOf(here, task[t][2])
  /\ fit_anisotropy_ = Asks(fit)
  /\ \A p : [i \in 1..NumRbfs |-> Anisotropy(p, i)] = AnisosOf(fit, p)
  /\ [i \in 1..NumRbfs |-> [scale |-> MemberInvScale(i), rot |-> members.rot]]
       = AnisosOf(fit, members)
  <1>1. \A params : clamp_parameters(params) = Clamped(fit, params)
    BY DEF clamp_parameters, Clamped
  <1>2. \A t : At(t) = AskedOf(here, task[t][2])
    BY DEF At, Asked, AskedOf
  <1>8. \A t : [At(t) EXCEPT !.params = clamp_parameters(@)] = EvaluatedAt(fit, here, task[t][2])
    BY <1>1, <1>2 DEF EvaluatedAt
  <1>3. fit_anisotropy_ = Asks(fit)
    BY DEF fit_anisotropy_, FitsAnisotropy, Asks
  <1>4. \A p : \A i : InvScale(p, i) = ScaleOf(fit, p, i)
    BY DEF InvScale, ScaleOf
  <1>5. \A p : [i \in 1..NumRbfs |-> Anisotropy(p, i)] = AnisosOf(fit, p)
    BY <1>4 DEF NumRbfs, Anisotropy, AnisosOf
  <1>6. \A i : MemberInvScale(i) = ScaleOf(fit, members, i)
    BY DEF MemberInvScale, ScaleOf
  <1>7. [i \in 1..NumRbfs |-> [scale |-> MemberInvScale(i), rot |-> members.rot]]
          = AnisosOf(fit, members)
    BY <1>6 DEF NumRbfs, AnisosOf
  <1>. QED BY <1>1, <1>2, <1>3, <1>5, <1>7, <1>8

\* The problem starts at the parameters of the model, with nothing evaluated.
LEMMA FitInvInit == FittingInit => FitInv
  <1>. SUFFICES ASSUME FittingInit PROVE FitInv
    OBVIOUS
  <1>1. /\ fit \in Problems /\ members = StartPoint(fit) /\ here = StartPoint(fit)
        /\ fitPc = IF InBounds(fit, StartPoint(fit)) THEN "evaluate" ELSE "solved"
        /\ accepted = NotYet /\ failed = FALSE /\ iterations = 0 /\ todo = Variograms
        /\ evalPc = [t \in EvalThread |-> "idle"] /\ task = [t \in EvalThread |-> NotYet]
        /\ copy = [t \in EvalThread |-> NotYet] /\ of = [v \in Variograms |-> NotYet]
             /\ model = NotYet
    BY DEF FittingInit
  <1>2. Template \in Owners /\ MaxIterations \in Nat
    BY FittingAssumption DEF Owners
  <1>3. DOMAIN objects = Owners /\ objects[Template] = GivenRbfs(fit)
    BY <1>2 DEF FittingInit, GivenRbfs, NumRbfs
  <1>4. FitTypes
    <2>1. todo \subseteq Variograms /\ fitPc \in {"evaluate", "solved", "done"}
      BY <1>1
    <2>2. here \in Tried /\ members \in Tried
      BY <1>1 DEF Tried
    <2>3. /\ DOMAIN evalPc = EvalThread /\ DOMAIN task = EvalThread /\ DOMAIN copy = EvalThread
          /\ DOMAIN of = Variograms
      BY <1>1
    <2>4. iterations \in 0..MaxIterations
      BY <1>1, <1>2
    <2>5. failed \in BOOLEAN
      BY <1>1
    <2>. QED BY <1>1, <1>3, <2>1, <2>2, <2>3, <2>4, <2>5 DEF FitTypes
  <1>5. \A t \in EvalThread : ThreadRight(fit, here, t, evalPc[t], task[t], copy[t], objects[t])
    BY <1>1 DEF ThreadRight
  <1>6. InBounds(fit, here) \/ fitPc # "evaluate"
    BY <1>1
  <1>. QED BY <1>1, <1>3, <1>4, <1>5, <1>6 DEF FitInv

\* A thread takes a task, and the variogram that waited is worked on.
LEMMA TakeTaskKeeps ==
  ASSUME FitInv, NEW t \in EvalThread, NEW v \in todo, TakeTask(t, v)
  PROVE  FitInv'
  <1>. DEFINE asked == <<v, Here, IF accepted = here THEN fit.beside ELSE {}>>
  <1>1. /\ evalPc[t] = "idle" /\ todo' = todo \ {v} /\ fitPc = "evaluate"
        /\ task' = [task EXCEPT ![t] = asked] /\ evalPc' = [evalPc EXCEPT ![t] = "copy"]
        /\ UNCHANGED <<fit, fitPc, objects, members, here, accepted, basis, failed, iterations,
             copy, of, model>>
    BY DEF TakeTask
  <1>2. Tried' = Tried /\ Variograms' = Variograms
    BY <1>1 DEF Tried, Variograms
  <1>3. FitTypes /\ t \in DOMAIN evalPc /\ t \in DOMAIN task
    BY DEF FitInv, FitTypes
  <1>4. IsTask(fit, asked) /\ asked[1] = v /\ asked[2] = Here
    <2>1. v \in 1..fit.variograms
      BY <1>3 DEF FitTypes, Variograms
    <2>. QED BY <2>1 DEF IsTask
  <1>. HIDE DEF asked
  <1>5. FitTypes'
    BY <1>1, <1>2, <1>3 DEF FitTypes
  <1>6. /\ evalPc'[t] = "copy" /\ task'[t] = asked
        /\ \A u \in EvalThread : u # t => evalPc'[u] = evalPc[u] /\ task'[u] = task[u]
    BY <1>1, <1>3 DEF FitTypes
  <1>7. ASSUME NEW u \in EvalThread
        PROVE  ThreadRight(fit', here', u, evalPc'[u], task'[u], copy'[u], objects'[u])
    <2>1. CASE u = t
      BY <1>1, <1>4, <1>6, <2>1 DEF ThreadRight
    <2>2. CASE u # t
      BY <1>1, <1>6, <2>2 DEF FitInv
    <2>. QED BY <2>1, <2>2
  <1>8. ASSUME NEW w \in Variograms
        PROVE  \/ w \in todo'
               \/ \E u \in EvalThread : evalPc'[u] # "idle" /\ task'[u][1] = w /\ task'[u][2] = Here
               \/ of'[w] = MadeOf(fit', here')
    <2>1. CASE w \in todo /\ w # v
      BY <1>1, <2>1
    <2>2. CASE w = v
      BY <1>4, <1>6, <2>2
    <2>3. CASE of[w] = MadeOf(fit, here)
      BY <1>1, <2>3
    <2>4. CASE \E u \in EvalThread : evalPc[u] # "idle" /\ task[u][1] = w /\ task[u][2] = Here
      BY <1>1, <1>6, <2>4
    <2>. QED BY <2>1, <2>2, <2>3, <2>4 DEF FitInv
  <1>9. objects'[Template] = GivenRbfs(fit')
    BY <1>1 DEF FitInv
  <1>10. accepted' # NotYet => \A w \in Variograms' : basis'[w] = MadeOf(fit', accepted')
    BY <1>1, <1>2 DEF FitInv
  <1>11. model' # NotYet => fitPc' = "done" /\ model' = MadeOf(fit', members')
    BY <1>1 DEF FitInv
  <1>12. InBounds(fit, here)'
    BY <1>1 DEF FitInv, InBounds, Points
  <1>. QED BY <1>2, <1>5, <1>7, <1>8, <1>9, <1>10, <1>11, <1>12 DEF FitInv

\* A thread goes on with its task, and changes its own copy only.
LEMMA ThreadStepKeeps ==
  ASSUME FitInv, NEW t \in EvalThread, evalPc[t] # "idle", NEW pc, pc # "idle", NEW own, NEW rbfs,
         evalPc' = [evalPc EXCEPT ![t] = pc],
         DOMAIN copy' = EvalThread, copy'[t] = own,
         \A u \in EvalThread : u # t => copy'[u] = copy[u],
         DOMAIN objects' = Owners, objects'[t] = rbfs,
         \A o \in Owners : o # t => objects'[o] = objects[o],
         UNCHANGED <<fit, fitPc, members, here, accepted, basis, failed, iterations, todo, task,
           of, model>>,
         ThreadRight(fit, here, t, pc, task[t], own, rbfs)
  PROVE  FitInv'
  <1>1. UNCHANGED <<fit, fitPc, members, here, accepted, basis, failed, iterations, todo, task,
          of, model>>
    OBVIOUS
  <1>2. Tried' = Tried /\ Variograms' = Variograms /\ Template # t /\ Template \in Owners
        /\ EvalThread \subseteq Owners
    BY <1>1, FittingAssumption DEF Tried, Variograms, Owners
  <1>3. FitTypes /\ t \in DOMAIN evalPc /\ t \in DOMAIN copy /\ DOMAIN evalPc = EvalThread
          /\ DOMAIN copy = EvalThread
    BY DEF FitInv, FitTypes
  <1>4. FitTypes'
    BY <1>1, <1>2, <1>3 DEF FitTypes
  <1>5. /\ evalPc'[t] = pc /\ copy'[t] = own
        /\ \A u \in EvalThread : u # t => evalPc'[u] = evalPc[u] /\ copy'[u] = copy[u]
    BY <1>3
  <1>6. ASSUME NEW u \in EvalThread
        PROVE  ThreadRight(fit', here', u, evalPc'[u], task'[u], copy'[u], objects'[u])
    <2>1. CASE u = t
      BY <1>1, <1>5, <2>1
    <2>2. CASE u # t
      BY <1>1, <1>2, <1>5, <2>2 DEF FitInv
    <2>. QED BY <2>1, <2>2
  <1>7. ASSUME NEW v \in Variograms
        PROVE  \/ v \in todo'
               \/ \E u \in EvalThread : evalPc'[u] # "idle" /\ task'[u][1] = v /\ task'[u][2] = Here
               \/ of'[v] = MadeOf(fit', here')
    BY <1>1, <1>5 DEF FitInv
  <1>8. objects'[Template] = GivenRbfs(fit')
    BY <1>1, <1>2 DEF FitInv
  <1>9. accepted' # NotYet => \A v \in Variograms' : basis'[v] = MadeOf(fit', accepted')
    BY <1>1, <1>2 DEF FitInv
  <1>10. model' # NotYet => fitPc' = "done" /\ model' = MadeOf(fit', members')
    BY <1>1 DEF FitInv
  <1>11. InBounds(fit, here)'
    BY <1>1 DEF FitInv, InBounds, Points
  <1>. QED BY <1>2, <1>4, <1>6, <1>7, <1>8, <1>9, <1>10, <1>11 DEF FitInv

\* The copy is of the template, and no other thread has it.
LEMMA CopyModelKeeps ==
  ASSUME FitInv, NEW t \in EvalThread, CopyModel(t)
  PROVE  FitInv'
  <1>. DEFINE own == [nugget |-> fit.model.nugget, rbfs |-> t]
  <1>1. /\ evalPc[t] = "copy" /\ evalPc' = [evalPc EXCEPT ![t] = "parameters"]
        /\ copy' = [copy EXCEPT ![t] = own] /\ objects' = [objects EXCEPT ![t] = objects[Template]]
        /\ UNCHANGED <<fit, fitPc, members, here, accepted, basis, failed, iterations, todo,
             task, of, model>>
    BY DEF CopyModel, CopyTo
  <1>2. DOMAIN objects = Owners /\ t \in Owners
    BY DEF FitInv, FitTypes, Owners
  <1>3. /\ DOMAIN objects' = Owners /\ objects'[t] = objects[Template]
        /\ \A o \in Owners : o # t => objects'[o] = objects[o]
    BY <1>1, <1>2
  <1>4. ThreadRight(fit, here, t, "parameters", task[t], own, objects[Template])
    BY <1>1 DEF FitInv, ThreadRight
  <1>. HIDE DEF own
  <1>5. /\ DOMAIN copy' = EvalThread /\ copy'[t] = own
        /\ \A u \in EvalThread : u # t => copy'[u] = copy[u]
    BY <1>1 DEF FitInv, FitTypes
  <1>. QED BY <1>1, <1>3, <1>4, <1>5, ThreadStepKeeps

\* The nugget is not negative, for the parameters are brought within bounds.
LEMMA SetParametersKeeps ==
  ASSUME FitInv, NEW t \in EvalThread, SetParameters(t)
  PROVE  FitInv'
  <1>1. PICK p : p = EvaluatedAt(fit, here, task[t][2])
    OBVIOUS
  <1>2. PICK q : q = p.params
    OBVIOUS
  <1>3. clamp_parameters(At(t).params) = q
    <2>1. At(t) = AskedOf(here, task[t][2])
      BY FitDefs
    <2>2. EvaluatedAt(fit, here, task[t][2]).params = Clamped(fit, AskedOf(here, task[t][2]).params)
      BY DEF EvaluatedAt, AskedOf
    <2>. QED BY <1>1, <1>2, <2>1, <2>2, FitDefs
  <1>4. /\ evalPc[t] = "parameters"
        /\ evalPc' = [evalPc EXCEPT ![t] = IF NuggetAccepted(q) THEN "anisotropy" ELSE "thrown"]
        /\ copy' = [copy EXCEPT ![t].nugget = q[1]]
        /\ objects' = [objects EXCEPT ![copy[t].rbfs] = set_parameters(@, q)]
        /\ UNCHANGED <<fit, fitPc, members, here, accepted, basis, failed, iterations, todo,
             task, of, model>>
    BY <1>3 DEF SetParameters
  <1>5. /\ copy[t] = [nugget |-> fit.model.nugget, rbfs |-> t] /\ objects[t] = GivenRbfs(fit)
        /\ IsTask(fit, task[t])
    BY <1>4 DEF FitInv, ThreadRight
  <1>6. fit \in Problems /\ here \in Tried /\ DOMAIN objects = Owners /\ t \in Owners
        /\ DOMAIN copy = EvalThread
    BY DEF FitInv, FitTypes, Owners
  <1>7. NuggetAccepted(q)
    <2>1. here \in Points(fit)
      BY <1>6, TriedRight
    <2>2. p.params[1] \in Nat
      BY <1>1, <1>5, <1>6, <2>1, AskedRight DEF IsTask
    <2>. QED BY <1>2, <2>2 DEF NuggetAccepted
  <1>8. copy' = [copy EXCEPT ![t] = CopyAt(p, t)]
    <2>1. copy' = [copy EXCEPT ![t] = [copy[t] EXCEPT !.nugget = q[1]]]
      BY <1>4
    <2>2. [copy[t] EXCEPT !.nugget = q[1]] = CopyAt(p, t)
      <3>1. [copy[t] EXCEPT !.nugget = q[1]] = [nugget |-> q[1], rbfs |-> t]
        BY <1>5
      <3>. QED BY <1>2, <3>1 DEF CopyAt
    <2>. QED BY <2>1, <2>2
  <1>9. /\ DOMAIN copy' = EvalThread /\ copy'[t] = CopyAt(p, t)
        /\ \A u \in EvalThread : u # t => copy'[u] = copy[u]
    BY <1>6, <1>8
  <1>10. /\ DOMAIN objects' = Owners /\ objects'[t] = RbfsAt(fit, p)
         /\ \A o \in Owners : o # t => objects'[o] = objects[o]
    <2>1. copy[t].rbfs = t
      BY <1>5
    <2>2. objects' = [objects EXCEPT ![t] = set_parameters(objects[t], q)]
      BY <1>4, <2>1
    <2>. QED BY <1>2, <1>5, <1>6, <2>2 DEF RbfsAt
  <1>11. evalPc' = [evalPc EXCEPT ![t] = "anisotropy"]
    BY <1>4, <1>7
  <1>12. ThreadRight(fit, here, t, "anisotropy", task[t], CopyAt(p, t), RbfsAt(fit, p))
    BY <1>1, <1>5 DEF ThreadRight
  <1>13. /\ evalPc[t] # "idle"
         /\ UNCHANGED <<fit, fitPc, members, here, accepted, basis, failed, iterations, todo,
              task, of, model>>
    BY <1>4
  <1>. QED BY <1>9, <1>10, <1>11, <1>12, <1>13, ThreadStepKeeps

\* The anisotropies are those of the point.
LEMMA SetAnisotropiesKeeps ==
  ASSUME FitInv, NEW t \in EvalThread, SetAnisotropies(t)
  PROVE  FitInv'
  <1>1. PICK p : p = EvaluatedAt(fit, here, task[t][2])
    OBVIOUS
  <1>2. evalPc[t] = "anisotropy"
    BY DEF SetAnisotropies
  <1>3. copy[t] = CopyAt(p, t) /\ objects[t] = RbfsAt(fit, p)
    BY <1>1, <1>2 DEF FitInv, ThreadRight
  <1>4. copy[t].rbfs = t
    BY <1>3 DEF CopyAt
  <1>5. DOMAIN objects = Owners /\ t \in Owners /\ DOMAIN copy = EvalThread
    BY DEF FitInv, FitTypes, Owners
  <1>6. /\ evalPc' = [evalPc EXCEPT ![t] = "compute"]
        /\ UNCHANGED <<fit, fitPc, members, here, accepted, basis, failed, iterations, todo,
             task, copy, of, model>>
        /\ Asks(fit)
             => objects' = [objects EXCEPT ![t] = set_anisotropies(objects[t], AnisosOf(fit, p))]
        /\ ~Asks(fit) => objects' = objects
    <2>1. \A i : Anisotropy(At(t), i) = Anisotropy(p, i)
      <3>1. At(t) = AskedOf(here, task[t][2])
        BY FitDefs
      <3>2. At(t).rot = p.rot /\ At(t).inv_major = p.inv_major /\ At(t).inv_minor = p.inv_minor
        BY <1>1, <3>1 DEF EvaluatedAt, AskedOf
      <3>. QED BY <3>2 DEF Anisotropy, InvScale
    <2>2. /\ [i \in 1..NumRbfs |-> Anisotropy(At(t), i)] = AnisosOf(fit, p)
          /\ fit_anisotropy_ = Asks(fit)
      BY <2>1, FitDefs
    <2>. QED BY <1>4, <2>2 DEF SetAnisotropies
  <1>7. /\ DOMAIN objects' = Owners /\ objects'[t] = RbfsOf(fit, p)
        /\ \A o \in Owners : o # t => objects'[o] = objects[o]
    <2>1. CASE Asks(fit)
      BY <1>3, <1>5, <1>6, <2>1 DEF RbfsOf
    <2>2. CASE ~Asks(fit)
      BY <1>3, <1>5, <1>6, <2>2 DEF RbfsOf
    <2>. QED BY <2>1, <2>2
  <1>8. ThreadRight(fit, here, t, "compute", task[t], CopyAt(p, t), RbfsOf(fit, p))
    BY <1>1, <1>2 DEF FitInv, ThreadRight
  <1>9. DOMAIN copy' = EvalThread /\ copy'[t] = CopyAt(p, t)
          /\ \A u \in EvalThread : copy'[u] = copy[u]
    BY <1>3, <1>5, <1>6
  <1>. QED BY <1>2, <1>6, <1>7, <1>8, <1>9, ThreadStepKeeps

\* What the residuals of a variogram are of, once they are evaluated here.
LEMMA ComputeKeeps ==
  ASSUME FitInv, NEW t \in EvalThread, Compute(t)
  PROVE  FitInv'
  <1>1. PICK p, c, made : /\ p = EvaluatedAt(fit, here, task[t][2]) /\ c = task[t][2]
                          /\ made = ModelOf(copy[t].nugget, objects[copy[t].rbfs])
    OBVIOUS
  <1>. DEFINE fails == \E i \in DOMAIN made.rbfs : made.rbfs[i].params[2] = 0
  <1>. DEFINE left == task[t][3]
              more == CHOOSE j \in left : TRUE
  <1>3. /\ evalPc[t] = "compute" /\ failed' = (failed \/ fails)
        /\ of' = IF c = Here THEN [of EXCEPT ![task[t][1]] = made] ELSE of
        /\ IF fails \/ left = {}
           THEN evalPc' = [evalPc EXCEPT ![t] = "idle"] /\ task' = task
           ELSE /\ evalPc' = [evalPc EXCEPT ![t] = "copy"]
                /\ task' = [task EXCEPT ![t] = <<task[t][1], more, left \ {more}>>]
        /\ UNCHANGED <<fit, fitPc, objects, members, here, accepted, basis, iterations, todo,
             copy, model>>
    <2>1. evalPc[t] = "compute" /\ failed' = (failed \/ fails)
      BY <1>1 DEF Compute
    <2>2. of' = IF c = Here THEN [of EXCEPT ![task[t][1]] = made] ELSE of
      BY <1>1 DEF Compute
    <2>3. IF fails \/ left = {}
          THEN evalPc' = [evalPc EXCEPT ![t] = "idle"] /\ task' = task
          ELSE /\ evalPc' = [evalPc EXCEPT ![t] = "copy"]
               /\ task' = [task EXCEPT ![t] = <<task[t][1], more, left \ {more}>>]
      <3>1. fails <=> \E i \in DOMAIN ModelOf(copy[t].nugget, objects[copy[t].rbfs]).rbfs :
              ModelOf(copy[t].nugget, objects[copy[t].rbfs]).rbfs[i].params[2] = 0
        BY <1>1
      <3>. QED BY <3>1 DEF Compute
    <2>4. UNCHANGED <<fit, fitPc, objects, members, here, accepted, basis, iterations, todo,
            copy, model>>
      BY DEF Compute
    <2>. QED BY <2>1, <2>2, <2>3, <2>4
  <1>19. failed' \in BOOLEAN
    BY <1>3
  <1>. HIDE DEF fails
  <1>2. left = task[t][3] /\ (left # {} => more \in left)
    OBVIOUS
  <1>. HIDE DEF left, more
  <1>4. /\ copy[t] = CopyAt(p, t) /\ objects[t] = RbfsOf(fit, p) /\ IsTask(fit, task[t])
    BY <1>1, <1>3 DEF FitInv, ThreadRight
  <1>5. made = MadeOf(fit, p)
    <2>1. copy[t].rbfs = t /\ copy[t].nugget = p.params[1]
      BY <1>4 DEF CopyAt
    <2>. QED BY <1>1, <1>4, <2>1 DEF ModelOf, MadeOf
  <1>6. FitTypes /\ fit \in Problems /\ here \in Tried /\ InBounds(fit, here)
    BY <1>3 DEF FitInv, FitTypes
  <1>7. Tried' = Tried /\ Variograms' = Variograms
    BY <1>3 DEF Tried, Variograms
  <1>8. ASSUME left # {} PROVE IsTask(fit, <<task[t][1], more, left \ {more}>>)
    <2>1. more \in left
      BY <1>2, <1>8
    <2>2. left \subseteq fit.beside /\ fit.beside \subseteq Coordinates(fit)
      BY <1>2, <1>4, <1>6, ProblemFacts DEF IsTask
    <2>. QED BY <1>4, <2>1, <2>2 DEF IsTask
  <1>9. PICK pc, asked :
          /\ evalPc' = [evalPc EXCEPT ![t] = pc] /\ task'[t] = asked /\ DOMAIN task' = EvalThread
          /\ \A u \in EvalThread : u # t => task'[u] = task[u]
          /\ pc = "idle" \/ (pc = "copy" /\ IsTask(fit, asked))
    <2>1. CASE fails \/ left = {}
      BY <1>3, <1>6, <2>1 DEF FitTypes
    <2>2. CASE ~(fails \/ left = {})
      BY <1>3, <1>6, <1>8, <2>2 DEF FitTypes
    <2>. QED BY <2>1, <2>2
  <1>10. /\ evalPc'[t] = pc /\ task'[t] = asked
         /\ \A u \in EvalThread : u # t => evalPc'[u] = evalPc[u] /\ task'[u] = task[u]
    BY <1>6, <1>9 DEF FitTypes
  <1>11. FitTypes'
    <2>1. DOMAIN of' = Variograms /\ failed' \in BOOLEAN /\ DOMAIN task' = EvalThread
      BY <1>3, <1>6, <1>9, <1>19 DEF FitTypes
    <2>2. evalPc' = [u \in EvalThread |-> evalPc'[u]]
      BY <1>6, <1>9 DEF FitTypes
    <2>. QED BY <1>3, <1>6, <1>7, <2>1, <2>2 DEF FitTypes
  <1>12. ASSUME NEW u \in EvalThread
         PROVE  ThreadRight(fit', here', u, evalPc'[u], task'[u], copy'[u], objects'[u])
    <2>1. CASE u = t
      BY <1>3, <1>9, <1>10, <2>1 DEF ThreadRight
    <2>2. CASE u # t
      BY <1>3, <1>10, <2>2 DEF FitInv
    <2>. QED BY <2>1, <2>2
  <1>13. c = Here => made = MadeOf(fit, here)
    <2>1. here \in Points(fit)
      BY <1>6, TriedRight
    <2>2. c = Here => p = here
      BY <1>1, <1>6, <2>1, AskedRight
    <2>. QED BY <1>5, <2>2
  <1>14. ASSUME NEW v \in Variograms
         PROVE  \/ v \in todo'
                \/ \E u \in EvalThread : evalPc'[u] # "idle" /\ task'[u][1] = v /\ task'[u][2] = Here
                \/ of'[v] = MadeOf(fit', here')
    <2>1. CASE task[t][1] = v /\ c = Here
      <3>1. of'[v] = made
        BY <1>3, <1>6, <2>1 DEF FitTypes
      <3>. QED BY <1>3, <1>13, <2>1, <3>1
    <2>2. CASE v \in todo
      BY <1>3, <2>2
    <2>3. CASE \E u \in EvalThread : u # t /\ evalPc[u] # "idle" /\ task[u][1] = v /\ task[u][2] = Here
      BY <1>10, <2>3
    <2>4. CASE ~(task[t][1] = v /\ c = Here) /\ of[v] = MadeOf(fit, here)
      <3>1. of'[v] = of[v]
        BY <1>3, <1>6, <2>4 DEF FitTypes
      <3>. QED BY <1>3, <2>4, <3>1
    <2>. QED BY <1>1, <2>1, <2>2, <2>3, <2>4 DEF FitInv
  <1>15. objects'[Template] = GivenRbfs(fit')
    BY <1>3 DEF FitInv
  <1>16. accepted' # NotYet => \A v \in Variograms' : basis'[v] = MadeOf(fit', accepted')
    BY <1>3, <1>7 DEF FitInv
  <1>17. model' # NotYet => fitPc' = "done" /\ model' = MadeOf(fit', members')
    BY <1>3 DEF FitInv
  <1>18. InBounds(fit, here)'
    BY <1>3, <1>6 DEF InBounds, Points
  <1>. QED BY <1>7, <1>11, <1>12, <1>14, <1>15, <1>16, <1>17, <1>18 DEF FitInv

\* When all is evaluated, the residuals are those of the point.
LEMMA EvaluatedRight ==
  ASSUME FitInv, Evaluated, ~failed
  PROVE  \A v \in Variograms : of[v] = MadeOf(fit, here)
  BY DEF FitInv, Evaluated

\* What is evaluated is within its bounds.
LEMMA EvaluatedInBounds ==
  ASSUME FitInv, Evaluated
  PROVE  InBounds(fit, here)
  BY DEF FitInv, Evaluated

\* Only a thread that works has anything.
LEMMA IdleRight ==
  ASSUME Evaluated, NEW t \in EvalThread, NEW pb, NEW p, NEW k, NEW own, NEW rbfs
  PROVE  ThreadRight(pb, p, t, evalPc[t], k, own, rbfs)
  BY DEF Evaluated, ThreadRight

\* An accepted point is evaluated with every coordinate moved next.
LEMMA AcceptKeeps ==
  ASSUME FitInv, Accept
  PROVE  FitInv'
  <1>1. /\ Evaluated /\ ~failed /\ accepted' = here /\ basis' = of /\ todo' = Variograms
        /\ UNCHANGED <<fit, fitPc, objects, members, here, failed, iterations, evalPc, task,
             copy, of, model>>
    BY DEF Accept
  <1>2. Tried' = Tried /\ Variograms' = Variograms
    BY <1>1 DEF Tried, Variograms
  <1>3. FitTypes'
    <2>1. FitTypes
      BY DEF FitInv
    <2>. QED BY <1>1, <1>2, <2>1 DEF FitTypes
  <1>4. \A v \in Variograms : of[v] = MadeOf(fit, here)
    BY <1>1, EvaluatedRight
  <1>5. InBounds(fit, here)'
    BY <1>1, EvaluatedInBounds DEF InBounds, Points
  <1>. QED BY <1>1, <1>2, <1>3, <1>4, <1>5 DEF FitInv

\* A tried point is evaluated for every variogram, without a derivative.
LEMMA TryKeeps ==
  ASSUME FitInv, NEW p \in fit.tries, Try(p)
  PROVE  FitInv'
  <1>1. /\ Evaluated /\ here' = p /\ failed' = FALSE /\ iterations' = iterations + 1
        /\ iterations < MaxIterations /\ todo' = Variograms
        /\ UNCHANGED <<fit, fitPc, objects, members, accepted, basis, evalPc, task, copy, of,
             model>>
    BY DEF Try
  <1>2. Tried' = Tried /\ Variograms' = Variograms
    BY <1>1 DEF Tried, Variograms
  <1>3. FitTypes'
    <2>1. FitTypes /\ p \in Tried
      BY DEF FitInv, Tried
    <2>2. iterations' \in 0..MaxIterations
      BY <1>1, <2>1, FittingAssumption DEF FitTypes
    <2>. QED BY <1>1, <1>2, <2>1, <2>2 DEF FitTypes
  <1>4. \A t \in EvalThread : ThreadRight(fit', here', t, evalPc'[t], task'[t], copy'[t],
          objects'[t])
    BY <1>1, IdleRight
  <1>5. \A v \in Variograms : v \in todo'
    BY <1>1
  <1>6. InBounds(fit, here)'
    <2>1. fit \in Problems
      BY DEF FitInv, FitTypes
    <2>2. InBounds(fit, p)
      BY <2>1, FittingAssumption
    <2>. QED BY <1>1, <2>2 DEF InBounds, Points
  <1>. QED BY <1>1, <1>2, <1>3, <1>4, <1>5, <1>6 DEF FitInv

\* When the solver stops, the members are a point it tried.
LEMMA SolvedKeeps ==
  ASSUME FitInv, Solved
  PROVE  FitInv'
  <1>1. /\ Evaluated /\ fitPc' = "solved" /\ members' \in {accepted, members} \ {NotYet}
        /\ UNCHANGED <<fit, objects, here, accepted, basis, failed, iterations, todo, evalPc,
             task, copy, of, model>>
    BY DEF Solved
  <1>2. Tried' = Tried /\ Variograms' = Variograms
    BY <1>1 DEF Tried, Variograms
  <1>3. FitTypes'
    <2>1. FitTypes
      BY DEF FitInv
    <2>. QED BY <1>1, <1>2, <2>1 DEF FitTypes
  <1>4. model' = NotYet
    BY <1>1 DEF FitInv, Evaluated
  <1>5. InBounds(fit, here)'
    BY <1>1, EvaluatedInBounds DEF InBounds, Points
  <1>. QED BY <1>1, <1>2, <1>3, <1>4, <1>5 DEF FitInv

\* The model returned is that of the members.
LEMMA GetModelKeeps ==
  ASSUME FitInv, GetModel
  PROVE  FitInv'
  <1>1. /\ fitPc = "solved" /\ fitPc' = "done"
        /\ UNCHANGED <<fit, objects, members, here, accepted, basis, failed, iterations, todo,
             evalPc, task, copy, of>>
    BY DEF GetModel
  <1>2. Tried' = Tried /\ Variograms' = Variograms
    BY <1>1 DEF Tried, Variograms
  <1>3. FitTypes /\ fit \in Problems /\ members \in Tried /\ objects[Template] = GivenRbfs(fit)
    BY DEF FitInv, FitTypes
  <1>4. FitTypes'
    BY <1>1, <1>2, <1>3 DEF FitTypes
  <1>5. model' = MadeOf(fit, members)
    <2>1. model' = ModelOf(members.params[1],
                     IF Asks(fit)
                       THEN set_anisotropies(RbfsAt(fit, members), AnisosOf(fit, members))
                     ELSE RbfsAt(fit, members))
      BY <1>3, FitDefs DEF GetModel, RbfsAt
    <2>. QED BY <2>1 DEF ModelOf, MadeOf, RbfsOf
  <1>6. \/ InBounds(fit, here)'
        \/ (fitPc # "evaluate" /\ accepted = NotYet /\ \A t \in EvalThread : evalPc[t] = "idle")'
    <2>1. InBounds(fit, here)' <=> InBounds(fit, here)
      BY <1>1 DEF InBounds, Points
    <2>. QED BY <1>1, <2>1 DEF FitInv
  <1>. QED BY <1>1, <1>2, <1>3, <1>4, <1>5, <1>6 DEF FitInv

\* Every step of the fitting keeps it.
LEMMA FitInvNext == FitInv /\ [FittingNext]_fittingVars => FitInv'
  <1>. SUFFICES ASSUME FitInv, [FittingNext]_fittingVars PROVE FitInv'
    OBVIOUS
  <1>1. CASE UNCHANGED fittingVars
    <2>1. UNCHANGED <<fit, fitPc, objects, members, here, accepted, failed, iterations,
                      basis, todo, evalPc, task, copy, of, model>>
      BY <1>1 DEF fittingVars
    <2>2. Tried' = Tried /\ Variograms' = Variograms
      BY <2>1 DEF Tried, Variograms
    <2>3. FitTypes'
      BY <2>1, <2>2 DEF FitInv, FitTypes
    <2>4. InBounds(fit, here)' <=> InBounds(fit, here)
      BY <2>1 DEF InBounds, Points
    <2>. QED BY <2>1, <2>2, <2>3, <2>4 DEF FitInv
  <1>. QED BY <1>1, TakeTaskKeeps, CopyModelKeeps, SetParametersKeeps, SetAnisotropiesKeeps,
              ComputeKeeps, AcceptKeeps, TryKeeps, SolvedKeeps, GetModelKeeps DEF FittingNext

\* What is made of a point is a model of it.
LEMMA MadeIsModel ==
  ASSUME fit \in Problems, NEW p \in Points(fit)
  PROVE  /\ IsModelOf(MadeOf(fit, p), p)
         /\ ScalingsInBounds(fit, p) => LongestFirst(MadeOf(fit, p))
  <1>1. PICK made : made = MadeOf(fit, p)
    OBVIOUS
  <1>2. /\ parameters(made) = p.params /\ DOMAIN made.rbfs = 1..Len(fit.model.rbfs)
        /\ AnisotropiesOf(made.rbfs, fit, p)
        /\ ScalingsInBounds(fit, p) => AxesInOrder(made.rbfs, fit)
    BY <1>1, MadeRight
  <1>3. fit_anisotropy_ = Asks(fit)
    BY FitDefs
  <1>4. IsModelOf(made, p)
    BY <1>2, <1>3 DEF IsModelOf, AnisotropiesOf
  <1>5. ScalingsInBounds(fit, p) => LongestFirst(made)
    BY <1>2 DEF LongestFirst, AxesInOrder
  <1>. QED BY <1>1, <1>4, <1>5

\* The invariant has what the property asks for.
LEMMA FitsHolds == FitInv => FitsWhatItEvaluates /\ FittingTypeOK
  <1>. SUFFICES ASSUME FitInv PROVE FitsWhatItEvaluates /\ FittingTypeOK
    OBVIOUS
  <1>1. FitTypes /\ fit \in Problems /\ here \in Tried /\ members \in Tried
    BY DEF FitInv, FitTypes
  <1>2. ASSUME NEW t \in EvalThread
        PROVE  /\ evalPc[t] # "thrown"
               /\ evalPc[t] = "compute"
                    => IsModelOf(ModelOf(copy[t].nugget, objects[copy[t].rbfs]),
                                 [At(t) EXCEPT !.params = clamp_parameters(@)])
    <2>1. ThreadRight(fit, here, t, evalPc[t], task[t], copy[t], objects[t])
      BY DEF FitInv
    <2>2. ASSUME evalPc[t] = "compute"
          PROVE  IsModelOf(ModelOf(copy[t].nugget, objects[copy[t].rbfs]),
                           [At(t) EXCEPT !.params = clamp_parameters(@)])
      <3>1. PICK p : p = EvaluatedAt(fit, here, task[t][2])
                       /\ p = [At(t) EXCEPT !.params = clamp_parameters(@)]
        BY FitDefs
      <3>2. copy[t].rbfs = t /\ copy[t].nugget = p.params[1] /\ objects[t] = RbfsOf(fit, p)
              /\ IsTask(fit, task[t])
        BY <2>1, <2>2, <3>1 DEF ThreadRight, CopyAt
      <3>3. ModelOf(copy[t].nugget, objects[copy[t].rbfs]) = MadeOf(fit, p)
        BY <3>2 DEF ModelOf, MadeOf
      <3>4. here \in Points(fit)
        BY <1>1, TriedRight
      <3>5. p \in Points(fit)
        <4>1. task[t][2] \in Coordinates(fit) \cup {Here}
          BY <3>2 DEF IsTask
        <4>2. EvaluatedAt(fit, here, task[t][2]) \in Points(fit)
          BY <1>1, <3>4, <4>1, AskedRight
        <4>. QED BY <3>1, <4>2
      <3>. QED BY <1>1, <3>1, <3>3, <3>5, MadeIsModel
    <2>. QED BY <2>1, <2>2 DEF ThreadRight
  <1>3. ASSUME model # NotYet
        PROVE  /\ IsModelOf(model, members) /\ LongestFirst(model)
               /\ members = accepted => \A v \in Variograms : model = basis[v]
    <2>1. model = MadeOf(fit, members)
      BY <1>3 DEF FitInv
    <2>2. members \in Points(fit) /\ members # NotYet /\ ScalingsInBounds(fit, members)
      BY <1>1, TriedRight
    <2>3. IsModelOf(model, members) /\ LongestFirst(model)
      BY <1>1, <2>1, <2>2, MadeIsModel
    <2>. QED BY <2>1, <2>2, <2>3 DEF FitInv
  <1>4. FittingTypeOK
    <2>1. evalPc \in [EvalThread -> {"idle", "copy", "parameters", "anisotropy", "compute",
            "thrown"}]
      BY <1>1 DEF FitInv, FitTypes, ThreadRight
    <2>. QED BY <1>1, <2>1 DEF FitTypes, FittingTypeOK
  <1>. QED BY <1>2, <1>3, <1>4 DEF FitsWhatItEvaluates

\* The types of the variables of VariogramFitting.
THEOREM FittingTypes == FittingSpec => []FittingTypeOK
  BY FitInvInit, FitInvNext, FitsHolds, PTL DEF FittingSpec

\* VariogramFitting evaluates the residuals of the points asked for and returns the model
\* that was accepted.
THEOREM FitsAlways == FittingSpec => []FitsWhatItEvaluates
  BY FitInvInit, FitInvNext, FitsHolds, PTL DEF FittingSpec

-----------------------------------------------------------------------------
\* VariogramFitting, Model::description and cross_validate, for any models, variograms,
\* threads, angles and sets: the fitted model is the one evaluated, described by its axes,
\* and validated with the points of other sets.
THEOREM FittedModelSameRight ==
  FittingSpec /\ DescriptionSpec /\ CrossSpec => []FittedModelSame
  BY FitsAlways, SameAxesAlways, HeldOutAlways, PTL DEF FittedModelSame
=============================================================================
