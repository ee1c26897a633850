------------------------------ MODULE Description ------------------------------
(***************************************************************************)
(* The angles that Model::description gives for the axes of an anisotropy: *)
(* in two dimensions a rotation, in three the azimuth of the dip, the dip  *)
(* and the rotation in the plane.  Angles are multiples of 45 degrees, so  *)
(* that sines and cosines are of the form (a + b * sqrt(2)) / 2.           *)
(***************************************************************************)
EXTENDS VariogramFitting

VARIABLES
  axes,      \* dim, and the angles by which the axes are turned
  described
descriptionVars == <<axes, described>>

\* C++'s fmod has the sign of its first argument.
fmod(x, y) == IF x < 0 THEN -((-x) % y) ELSE x % y
Raised(x, y) == IF fmod(x, y) < 0 THEN fmod(x, y) + y ELSE fmod(x, y)

-----------------------------------------------------------------------------
\* atan2, and Eigen's canonicalEulerAngles(2, 0, 2) of a rotation, which turns about the
\* axes z, x and z again.
Turns == {45 * k : k \in -4..4}
EulerAngles == Turns \X {45 * k : k \in 0..4} \X Turns

DescriptionInit ==
  /\ axes \in [dim : {2}, euler : Turns \X {0} \X {0}] \cup [dim : {3}, euler : EulerAngles]
  /\ described = NotYet

Describe2 == [az |-> 0, dip |-> 0, rot |-> Raised(-axes.euler[1], 180)]

\* In the order of the code: the dip is made positive, brought below 180 and then
\* below 90, and whatever turns the dip over turns the azimuth and the rotation.
DipPositive(d) == IF d.dip < 0 THEN [d EXCEPT !.dip = -@, !.az = @ + 180] ELSE d
DipBelow180(d) == IF d.dip > 180 THEN [d EXCEPT !.dip = 360 - @, !.az = @ + 180] ELSE d
DipBelow90Unturned(d) == IF d.dip > 90 THEN [d EXCEPT !.dip = 180 - @, !.az = @ + 180] ELSE d
DipBelow90(d) ==
  IF d.dip > 90 THEN [az |-> d.az + 180, dip |-> 180 - d.dip, rot |-> -d.rot] ELSE d
Describe3 ==
  LET given == [az |-> -axes.euler[1], dip |-> fmod(-axes.euler[2], 360), rot |-> -axes.euler[3]]
      d == DipBelow90(DipBelow180(DipPositive(given)))
  IN [d EXCEPT !.az = Raised(@, 360), !.rot = Raised(@, 180)]

Describe ==
  /\ described = NotYet
  /\ described' = IF axes.dim = 2 THEN Describe2 ELSE Describe3
  /\ UNCHANGED axes
DescriptionNext == Describe
DescriptionSpec == DescriptionInit /\ [][DescriptionNext]_descriptionVars

-----------------------------------------------------------------------------
\* Twice the cosine and the sine: <<a, b>> is a + b * sqrt(2).
Cos(x) == <<<<2, 0>>, <<0, 1>>, <<0, 0>>, <<0, -1>>, <<-2, 0>>, <<0, -1>>, <<0, 0>>, <<0, 1>>>>[((x \div 45) % 8) + 1]
Sin(x) == Cos(x - 90)
Minus(u) == <<-u[1], -u[2]>>
Plus(u, v) == <<u[1] + v[1], u[2] + v[2]>>
Times(u, v) == <<(u[1] * v[1]) + (2 * u[2] * v[2]), (u[1] * v[2]) + (u[2] * v[1])>>

TurnZ(x) == <<<<Cos(x), Minus(Sin(x)), <<0, 0>>>>, <<Sin(x), Cos(x), <<0, 0>>>>, <<<<0, 0>>, <<0, 0>>, <<2, 0>>>>>>
TurnX(x) == <<<<<<2, 0>>, <<0, 0>>, <<0, 0>>>>, <<<<0, 0>>, Cos(x), Minus(Sin(x))>>, <<<<0, 0>>, Sin(x), Cos(x)>>>>
Product(m, n) ==
  [i \in 1..3 |-> [j \in 1..3 |->
    Plus(Plus(Times(m[i][1], n[1][j]), Times(m[i][2], n[2][j])), Times(m[i][3], n[3][j]))]]
Rotation(a, b, c) == Product(TurnZ(a), Product(TurnX(b), TurnZ(c)))

Axis(m, j) == [i \in 1..3 |-> m[i][j]]
SameAxis(u, v) == u = v \/ u = [i \in 1..3 |-> Minus(v[i])]

\* The types of the variables.
DescriptionTypeOK == axes.dim \in {2, 3} /\ (described # NotYet => described.az \in Int)

\* The angles are within the ranges that their comments give, and turn the coordinates to
\* the same axes as the anisotropy does; an axis may point the other way.
SameAxes ==
  described # NotYet =>
    LET given == Rotation(axes.euler[1], axes.euler[2], axes.euler[3])
        shown == Rotation(-described.az, -described.dip, -described.rot)
    IN /\ described.az \in 0..359 /\ described.dip \in 0..90 /\ described.rot \in 0..179
       /\ \A j \in 1..3 : SameAxis(Axis(given, j), Axis(shown, j))
===============================================================================
