-------------------------------- MODULE Models --------------------------------
(***************************************************************************)
(* Models: rbfs, each with its parameters and its anisotropy, a nugget and *)
(* a degree of polynomial.  An anisotropy is the scaling of the axes, in   *)
(* powers of ten, after a rotation; rotations are numbers, 0 is none.      *)
(***************************************************************************)
EXTENDS Integers, Sequences, FiniteSetsExt

\* No parameter is greater.
Infinity == 1000

\* What the classes of rbfs say of themselves.
Class(order, names) == [cpd_order |-> order, names |-> names]
Kinds == [cov |-> Class(0, <<"psill", "range">>),
          bh3 |-> Class(1, <<"scale", "c">>),
          th3 |-> Class(2, <<"scale", "c">>)]

Identity(dim) == [scale |-> [a \in 1..dim |-> 0], rot |-> 0]

\* Rbfs that can be made, in so many dimensions: their parameters are not compared with
\* their bounds.
Rbfs(dim) ==
  [kind : DOMAIN Kinds, params : [1..2 -> Int], aniso : [scale : [1..dim -> Int], rot : Int]]

\* Polyharmonic splines may be made without their second parameter, or both.
make_rbf(kind, dim, params) ==
  [kind |-> kind, aniso |-> Identity(dim),
   params |-> IF kind = "cov" THEN params
              ELSE [i \in 1..2 |-> IF i \in DOMAIN params THEN params[i] ELSE 2 - i]]

cpd_order(rbfs) == Max({0} \cup {Kinds[rbfs[i].kind].cpd_order : i \in DOMAIN rbfs})

\* The constructor: the least degree that the rbfs need is the one taken if none is given.
kMinRequiredPolyDegree == -2
Accepted(rbfs, poly_degree) ==
  rbfs # <<>> /\ poly_degree \in {kMinRequiredPolyDegree} \cup ((cpd_order(rbfs) - 1)..2)
Model(rbfs, poly_degree) ==
  [rbfs |-> rbfs, nugget |-> 0,
   poly_degree |-> IF poly_degree = kMinRequiredPolyDegree THEN cpd_order(rbfs) - 1 ELSE poly_degree]

\* The nugget is in front of the parameters of the rbfs, one after the other.
Names(rbfs) == [i \in DOMAIN rbfs |-> Kinds[rbfs[i].kind].names]
FirstOf(rbfs) ==
  LET first[i \in 1..(Len(rbfs) + 1)] ==
        IF i = 1 THEN 2 ELSE first[i - 1] + Len(Names(rbfs)[i - 1])
  IN  first
num_parameters(rbfs) == FirstOf(rbfs)[Len(rbfs) + 1] - 1
parameter_lower_bounds(rbfs) == [i \in 1..num_parameters(rbfs) |-> 0]
parameter_upper_bounds(rbfs) == [i \in 1..num_parameters(rbfs) |-> Infinity]
parameters(model) ==
  LET first == FirstOf(model.rbfs)
      Of(k) == CHOOSE i \in DOMAIN model.rbfs : first[i] <= k /\ k < first[i + 1]
  IN  [k \in 1..num_parameters(model.rbfs) |->
        IF k = 1 THEN model.nugget ELSE model.rbfs[Of(k)].params[k - first[Of(k)] + 1]]

\* set_nugget throws if it is negative.
NuggetAccepted(params) == params[1] >= 0
\* The rbfs with the parameters that are theirs.
set_parameters(rbfs, params) ==
  [i \in DOMAIN rbfs |->
    [rbfs[i] EXCEPT !.params = [a \in DOMAIN Names(rbfs)[i] |-> params[FirstOf(rbfs)[i] + a - 1]]]]

set_anisotropies(rbfs, anisos) == [i \in DOMAIN rbfs |-> [rbfs[i] EXCEPT !.aniso = anisos[i]]]
===============================================================================
