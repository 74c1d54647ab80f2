--------------------------- MODULE VelocityLimits ----------------------------
(***************************************************************************)
(* LocomotionControllerBase::apply_velocity_limits.  Speeds are integers   *)
(* (in any small unit); scaling a vector to a speed takes a square root,   *)
(* so its result is kept by the squares of its axes, with their signs,     *)
(* over a common denominator: all comparisons stay exact.                  *)
(***************************************************************************)
EXTENDS Integers

Axis == {"x", "y", "z"}
Vector3 == [Axis -> Int]

\* Columns of a limits matrix: max negative speed, min negative speed, negative
\* and positive edge of the dead band, min positive speed, max positive speed.
Column == 0 .. 5
LimitsMatrix == [Axis -> [Column -> Int]]

Abs(x) == IF x < 0 THEN -x ELSE x
SignedSquare(x) == x * Abs(x)

\* What the constructor demands of the parameter; it throws otherwise.
Monotonic(l) == \A a \in Axis : \A i \in 0 .. 4 : l[a][i] <= l[a][i + 1]
DeadBandHoldsZero(l) == \A a \in Axis : l[a][2] <= 0 /\ l[a][3] >= 0
ValidLimits(l) == Monotonic(l) /\ DeadBandHoldsZero(l)

\* 1. Clamp each axis.
ClampAxis(x, c) == IF x < c[0] THEN c[0] ELSE IF x > c[5] THEN c[5] ELSE x
Clamp(v, l) == [a \in Axis |-> ClampAxis(v[a], l[a])]

\* 2. Limit the total speed.
SpeedSquare(v) == v["x"] * v["x"] + v["y"] * v["y"] + v["z"] * v["z"]
MaxSpeed(l) ==
  LET speeds == {Abs(l[a][i]) : a \in Axis, i \in Column}
  IN CHOOSE max \in speeds : \A s \in speeds : s <= max

\* Mutant: the speed is brought to the maximum even if it is less.
ScaleAlways(v, l) ==
  [times |-> MaxSpeed(l) * MaxSpeed(l), over |-> SpeedSquare(v)]

\* Mutant: the total speed is not limited.
ScaleNever(v, l) == [times |-> 1, over |-> 1]

\* The square of the factor a vector is multiplied by.
Scale(v, l) ==
  LET max == MaxSpeed(l) * MaxSpeed(l)
  IN IF SpeedSquare(v) > max THEN [times |-> max, over |-> SpeedSquare(v)]
                             ELSE [times |-> 1, over |-> 1]

\* 3. and 4., on one axis: y, and the columns c, are signed squares.
ApplyDeadBand(y, c) == IF c[2] <= y /\ y <= c[3] THEN 0 ELSE y

\* Mutant: small speeds are left alone.
RaiseToMinNot(y, c) == ApplyDeadBand(y, c)

\* Mutant: small speeds are raised forwards.
RaiseToMinForwards(y, c) == IF c[1] < y /\ y < c[4] /\ y # 0 THEN c[4] ELSE y

RaiseToMin(y, c) ==
  CASE c[1] < y /\ y < c[2] -> c[1]
    [] c[3] < y /\ y < c[4] -> c[4]
    [] OTHER -> y

SignedSquares(c, over) == [i \in Column |-> SignedSquare(c[i]) * over]

LimitAxis(x, c, scale) ==
  LET squares == SignedSquares(c, scale.over)
  IN RaiseToMin(ApplyDeadBand(SignedSquare(x) * scale.times, squares), squares)

\* A velocity by the signed squares of its axes, over a denominator.
Velocity == [square : [Axis -> Int], over : Nat \ {0}]

ApplyVelocityLimits(v, l) ==
  LET w == Clamp(v, l)
      scale == Scale(w, l)
  IN [square |-> [a \in Axis |-> LimitAxis(w[a], l[a], scale)], over |-> scale.over]

-----------------------------------------------------------------------------
\* What the limits mean, for a velocity u.
Zero == [square |-> [a \in Axis |-> 0], over |-> 1]

\* An axis stands still or moves between min and max speed of its direction.
AxesWithin(u, l) ==
  \A a \in Axis :
    LET c == SignedSquares(l[a], u.over)
    IN \/ u.square[a] = 0
       \/ c[0] <= u.square[a] /\ u.square[a] <= c[1]
       \/ c[4] <= u.square[a] /\ u.square[a] <= c[5]

\* The square of an axis that moves faster than it must.
SquareAboveMin(u, l, a) ==
  IF u.square[a] \in {SignedSquares(l[a], u.over)[i] : i \in {1, 4}}
    THEN 0 ELSE Abs(u.square[a])

\* Axes at their minimum aside, the total speed is at most the maximum.
SpeedWithin(u, l) ==
  SquareAboveMin(u, l, "x") + SquareAboveMin(u, l, "y") + SquareAboveMin(u, l, "z")
    <= MaxSpeed(l) * MaxSpeed(l) * u.over
=============================================================================
