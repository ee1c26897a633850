-------------------------- MODULE MCPreconditioner --------------------------
(***************************************************************************)
(* The preconditioner in its parts, each for itself: the division into     *)
(* domains, the choice of coarse points and of those that fix the          *)
(* polynomial, the application with its threads, and the grid that such a  *)
(* thread sets up and solves.  The parts that are not under check stay in  *)
(* an initial state.                                                       *)
(***************************************************************************)
EXTENDS DomainDivider, CoarsePoints, PolynomialPoints, RasPreconditioner, FineGrid

CONSTANTS p1, p2, p3, p4, p5, p6

VARIABLE part

-----------------------------------------------------------------------------
\* Points on a grid four wide, the ones with a gradient between the others.
P(i) == [index |-> i, grad |-> FALSE]
G(i) == [index |-> i, grad |-> TRUE]
MCValues == {P(i) : i \in 0..7}
MCGrads == {G(i) : i \in 0..5}
X(p) == IF p.grad THEN (p.index % 2) * 2 ELSE p.index % 4
Y(p) == IF p.grad THEN p.index \div 2 ELSE p.index \div 4
ByX == [p \in MCValues \cup MCGrads |-> 40 * X(p) + 4 * Y(p) + (IF p.grad THEN 1 ELSE 0)]
ByY == [p \in MCValues \cup MCGrads |-> 40 * Y(p) + 4 * X(p) + (IF p.grad THEN 1 ELSE 0)]
MCRoots == {MCValues \cup MCGrads, MCValues \cup {G(0), G(1), G(2), G(5)}, MCValues \cup (MCGrads \ {G(0)})}
MCOrders == {ByX, ByY}
MCPoly == <<2, 0, 5>>

\* Three polynomial points, four others and two with gradients: 8 to choose from.
MCCoarseSet == {P(i) : i \in 0..6} \cup {G(0), G(1)}
\* The level above a coarsest one of five: six points, of which three are
\* polynomial ones and do not count.
FewPoints == {P(i) : i \in 0..5}
Across == [p \in CoarseSet |-> IF p.grad THEN 2 * p.index + 9 ELSE 2 * p.index]
Along == [p \in CoarseSet |-> IF p.grad THEN -1 - p.index ELSE (5 * p.index) % 7]
MCCoarsePoly == {P(0), P(1), P(2)}
MCCoarseOrders == {Across, Along}

\* Three levels of one, three and six points; two grids on the middle level,
\* three on the finest, one of them too small to have a factor.
MCPoint == {p1, p2, p3, p4, p5, p6}
MCLevelPoints == <<{p1}, {p1, p2, p3}, MCPoint>>
SetUp(inner, small) == [inner |-> inner, small |-> small]
MCGrids == << <<SetUp({p2, p3}, FALSE), SetUp({p1}, FALSE)>>,
              <<SetUp({p1, p4}, FALSE), SetUp({p2}, TRUE), SetUp({p3, p5, p6}, FALSE)>> >>

\* All the ways to take some of four points, the polynomial point 0 first, and of
\* two gradients, in any order, with every second entry inner.
Arrangements(S) == UNION {SetToSeqs(T) : T \in SUBSET S}
Alternate(n) == [i \in 1..n |-> i % 2 = 1]
MCGridDomains ==
  {[points |-> <<0>> \o p, grads |-> g,
    innerPoint |-> Alternate(Len(p) + 1), innerGrad |-> Alternate(Len(g)), fine |-> f] :
     p \in Arrangements(1..3), g \in Arrangements(0..1), f \in BOOLEAN}
SomeDomain == [points |-> <<0>>, grads |-> <<>>, innerPoint |-> Alternate(1),
               innerGrad |-> <<>>, fine |-> TRUE]

\* Points that are twice the same, or on a line or plane (all of them or some); one point with
\* gradients; a parabola; constants, and no polynomial at all; too few points.
Of(dim, degree, points, grads) == [dim |-> dim, degree |-> degree, points |-> points, grads |-> grads]
Line == <<<<0, 0>>, <<1, 1>>, <<2, 2>>>>
MCProblems ==
  {Of(2, 1, Line \o <<<<2, 0>>, <<0, 0>>, <<1, 0>>>>, <<>>),
   Of(2, 1, Line \o <<<<3, 3>>>>, <<<<0, 1>>>>),
   Of(2, 1, <<<<2, 1>>>>, <<<<0, 1>>, <<2, 1>>>>),
   Of(1, 2, <<<<0>>, <<3>>, <<1>>, <<3>>, <<-1>>>>, <<>>),
   Of(3, 0, <<<<0, 0, 0>>, <<1, 2, 3>>>>, <<>>),
   Of(3, -1, <<<<0, 0, 0>>, <<1, 2, 3>>>>, <<>>),
   Of(3, 1, <<<<0, 0, 0>>, <<1, 0, 0>>, <<0, 1, 0>>, <<1, 1, 0>>, <<1, 2, 3>>>>, <<>>),
   Of(3, 1, <<<<1, 2, 3>>>>, <<<<4, 5, 6>>>>),
   Of(1, 1, <<<<1>>>>, <<>>)}

ASSUME ApplicationAssumptions == RasAssumptions

-----------------------------------------------------------------------------
MCInit ==
  /\ part \in {"domains", "coarse", "ras", "grid", "polynomial"}
  /\ Init /\ CoarseInit /\ RasInit /\ GridInit /\ PolyInit
  /\ part # "domains" => root = MCValues \cup MCGrads
  /\ part # "coarse" => wanted = 1 /\ \E c \in clusters : c.center = P(3)
  /\ part # "grid" => grid = SomeDomain /\ l = 1
  /\ part # "polynomial" => problem.degree = 0
MCNext ==
  /\ \/ part = "domains" /\ Next /\ UNCHANGED <<coarseVars, rasVars, gridVars, polyVars>>
     \/ part = "coarse" /\ CoarseNext /\ UNCHANGED <<vars, rasVars, gridVars, polyVars>>
     \/ part = "ras" /\ RasNext /\ UNCHANGED <<vars, coarseVars, gridVars, polyVars>>
     \/ part = "grid" /\ GridNext /\ UNCHANGED <<vars, coarseVars, rasVars, polyVars>>
     \/ part = "polynomial" /\ PolyNext /\ UNCHANGED <<vars, coarseVars, rasVars, gridVars>>
  /\ UNCHANGED part
MCVars == <<part, vars, coarseVars, rasVars, gridVars, polyVars>>
MCSpec == MCInit /\ [][MCNext]_MCVars
\* All are loops of calls that nothing interrupts.
MCFairSpec == MCSpec /\ WF_MCVars(MCNext)

-----------------------------------------------------------------------------
\* The types of all variables.
MCTypeOK == TypeOK /\ CoarseTypeOK /\ RasTypeOK /\ GridTypeOK /\ PolyTypeOK

\* The divisions, the splits of the clusters and the trials for the polynomial come to an end.
BothEnd ==
  /\ part = "domains" => Terminates
  /\ part = "coarse" => CoarseTerminates
  /\ part = "polynomial" => PolyTerminates

\* test_domain_divider.cpp:83 of a call for more points than there are: it returns
\* at least n_coarse_points besides the polynomial ones.
ReturnsEnough == part = "coarse" => EnoughReturned
=============================================================================
