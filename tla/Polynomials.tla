----------------------------- MODULE Polynomials -----------------------------
(***************************************************************************)
(* The monomials up to a degree (0, 1 or 2) in one, two and three          *)
(* dimensions: a row of values for each point, a row for each partial      *)
(* derivative at each gradient point.  Columns are in the order 1, x, y,   *)
(* z, x^2, xy, xz, y^2, yz, z^2.  Coordinates are integers.                *)
(***************************************************************************)
EXTENDS Integers, Sequences, FiniteSets

basis_size(dim, degree) ==
  LET k == degree + 1
  IN CASE degree < 0 -> 0
       [] degree >= 0 /\ dim = 1 -> k
       [] degree >= 0 /\ dim = 2 -> (k * (k + 1)) \div 2
       [] degree >= 0 /\ dim = 3 -> (k * (k + 1) * (k + 2)) \div 6

values1(degree, p) ==
  CASE degree = 0 -> <<1>>
    [] degree = 1 -> <<1, p[1]>>
    [] degree = 2 -> <<1, p[1], p[1] * p[1]>>
values2(degree, p) ==
  CASE degree = 0 -> <<1>>
    [] degree = 1 -> <<1, p[1], p[2]>>
    [] degree = 2 -> <<1, p[1], p[2], p[1] * p[1], p[1] * p[2], p[2] * p[2]>>
values3(degree, p) ==
  CASE degree = 0 -> <<1>>
    [] degree = 1 -> <<1, p[1], p[2], p[3]>>
    [] degree = 2 -> <<1, p[1], p[2], p[3], p[1] * p[1], p[1] * p[2], p[1] * p[3], p[2] * p[2],
                       p[2] * p[3], p[3] * p[3]>>

\* The rows of one gradient point, one for each axis.
gradients1(degree, p) ==
  CASE degree = 0 -> <<<<0>>>>
    [] degree = 1 -> <<<<0, 1>>>>
    [] degree = 2 -> <<<<0, 1, 2 * p[1]>>>>
gradients2(degree, p) ==
  CASE degree = 0 -> <<<<0>>, <<0>>>>
    [] degree = 1 -> <<<<0, 1, 0>>, <<0, 0, 1>>>>
    [] degree = 2 -> <<<<0, 1, 0, 2 * p[1], p[2], 0>>,
                       <<0, 0, 1, 0, p[1], 2 * p[2]>>>>
\* gradients3 with xz_z and yz_z exchanged.
gradients3Exchanged(degree, p) ==
  IF degree < 2 THEN [a \in 1..3 |-> [k \in 1..basis_size(3, degree) |-> IF k = a + 1 THEN 1 ELSE 0]]
  ELSE <<<<0, 1, 0, 0, 2 * p[1], p[2], p[3], 0, 0, 0>>,
         <<0, 0, 1, 0, 0, p[1], 0, 2 * p[2], p[3], 0>>,
         <<0, 0, 0, 1, 0, 0, p[2], 0, p[1], 2 * p[3]>>>>

gradients3(degree, p) ==
  CASE degree = 0 -> <<<<0>>, <<0>>, <<0>>>>
    [] degree = 1 -> <<<<0, 1, 0, 0>>, <<0, 0, 1, 0>>, <<0, 0, 0, 1>>>>
    [] degree = 2 -> <<<<0, 1, 0, 0, 2 * p[1], p[2], p[3], 0, 0, 0>>,
                       <<0, 0, 1, 0, 0, p[1], 0, 2 * p[2], p[3], 0>>,
                       <<0, 0, 0, 1, 0, 0, p[1], 0, p[2], 2 * p[3]>>>>

Values(dim, degree, p) ==
  CASE dim = 1 -> values1(degree, p) [] dim = 2 -> values2(degree, p) [] dim = 3 -> values3(degree, p)
Gradients(dim, degree, p) ==
  CASE dim = 1 -> gradients1(degree, p) [] dim = 2 -> gradients2(degree, p) [] dim = 3 -> gradients3(degree, p)

\* First the values, then dim rows for each gradient point.
evaluate(dim, degree, points, grad_points) ==
  LET mu == Len(points)
  IN [r \in 1..(mu + (dim * Len(grad_points))) |->
       IF r <= mu THEN Values(dim, degree, points[r])
       ELSE LET k == r - mu - 1
            IN Gradients(dim, degree, grad_points[(k \div dim) + 1])[(k % dim) + 1]]

-----------------------------------------------------------------------------
Moved(p, axis, by) == [p EXCEPT ![axis] = @ + by]

\* Rows of gradients are the derivatives of the rows of values: of a polynomial of degree
\* two, the difference across a step to either side is twice the derivative.
RowsAreDerivatives(dim, degree, p) ==
  \A axis \in 1..dim : \A k \in 1..basis_size(dim, degree) :
    2 * Gradients(dim, degree, p)[axis][k] =
      Values(dim, degree, Moved(p, axis, 1))[k] - Values(dim, degree, Moved(p, axis, -1))[k]

\* Each monomial of the degree or less has one column.
Powers(dim, degree) ==
  {e \in [1..3 -> 0..degree] : e[1] + e[2] + e[3] <= degree /\ \A axis \in (dim + 1)..3 : e[axis] = 0}
Power(x, n) == CASE n = 0 -> 1 [] n = 1 -> x [] n = 2 -> x * x
Monomial(dim, e, p) ==
  LET factor(axis) == IF axis <= dim THEN Power(p[axis], e[axis]) ELSE 1
  IN factor(1) * factor(2) * factor(3)
IsColumn(dim, degree, k, e, Sample) ==
  \A p \in Sample : Values(dim, degree, p)[k] = Monomial(dim, e, p)
ColumnsAreMonomials(dim, degree, Sample) ==
  LET columns == 1..basis_size(dim, degree)
  IN /\ \A k \in columns : \E e \in Powers(dim, degree) : IsColumn(dim, degree, k, e, Sample)
     /\ \A e \in Powers(dim, degree) : \E k \in columns :
          /\ IsColumn(dim, degree, k, e, Sample)
          /\ \A j \in columns : IsColumn(dim, degree, j, e, Sample) => j = k

\* On a grid, and at two points that tell all monomials apart.
Grid(dim) == [1..dim -> {-2, 0, 3}]
Telling(dim) == {[a \in 1..dim |-> c[a]] : c \in {<<2, 3, 5>>, <<-3, 5, 2>>}}
MonomialsRight ==
  \A dim \in 1..3, degree \in 0..2 :
    /\ \A p \in Grid(dim) : RowsAreDerivatives(dim, degree, p)
    /\ ColumnsAreMonomials(dim, degree, Telling(dim))
==============================================================================
