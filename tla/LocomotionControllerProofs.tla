--------------------- MODULE LocomotionControllerProofs ----------------------
(***************************************************************************)
(* Theorems about LocomotionController and the operators of VelocityLimits.*)
(***************************************************************************)
EXTENDS LocomotionController, TLAPS

-----------------------------------------------------------------------------
\* Arithmetic: products, and squares that keep their sign.

\* Products of natural numbers grow with their factors.
LEMMA ProductsOrdered ==
  ASSUME NEW a \in Nat, NEW b \in Nat, NEW p \in Nat, NEW q \in Nat, a <= b, p <= q
  PROVE  a * p \in Nat /\ a * p <= b * q
<1>1. a * p \in Nat /\ a * q \in Nat /\ b * q \in Nat
  BY SMT
<1>2. a * (q - p) >= 0 /\ (b - a) * q >= 0
  BY SMT
<1>3. a * (q - p) = a * q - a * p /\ (b - a) * q = b * q - a * q
  BY SMT
<1> QED
  BY <1>1, <1>2, <1>3, SMT

\* A positive factor keeps order and signs.
LEMMA PositiveFactor ==
  ASSUME NEW x \in Int, NEW y \in Int, NEW k \in Nat, k > 0
  PROVE  /\ x * k \in Int
         /\ x <= y => x * k <= y * k
         /\ x > 0 => x * k > 0
         /\ x < 0 => x * k < 0
         /\ x = 0 => x * k = 0
<1>1. x <= y => x * k <= y * k
  <2>1. (y - x) * k = y * k - x * k
    BY SMT
  <2>2. x <= y => (y - x) * k >= 0
    BY SMT
  <2> QED
    BY <2>1, <2>2, SMT
<1> QED
  BY <1>1, SMT

\* The square that keeps its sign keeps order too.
LEMMA SignedSquareKeeps ==
  ASSUME NEW x \in Int, NEW y \in Int
  PROVE  /\ Abs(x) \in Nat /\ SignedSquare(x) \in Int
         /\ Abs(SignedSquare(x)) = x * x
         /\ x > 0 => SignedSquare(x) > 0
         /\ x < 0 => SignedSquare(x) < 0
         /\ x = 0 => SignedSquare(x) = 0
         /\ x <= y => SignedSquare(x) <= SignedSquare(y)
<1>1. /\ x >= 0 => SignedSquare(x) = x * x
      /\ x < 0 => SignedSquare(x) = -((-x) * (-x)) /\ (-x) * (-x) = x * x
      /\ y >= 0 => SignedSquare(y) = y * y
      /\ y < 0 => SignedSquare(y) = -((-y) * (-y))
  BY SMT DEF SignedSquare, Abs
<1>2. x > 0 => x * x > 0
  BY SMT
<1>3. x < 0 => (-x) * (-x) > 0
  BY SMT
<1>4. CASE x <= y /\ x >= 0
  BY <1>1, <1>2, <1>4, ProductsOrdered, SMT DEF Abs
<1>5. CASE x <= y /\ y < 0
  <2>1. (-y) * (-y) <= (-x) * (-x)
    <3>1. (y - x) * ((-x) + (-y)) >= 0
      BY <1>5, SMT
    <3>2. (y - x) * ((-x) + (-y)) = (-x) * (-x) - (-y) * (-y)
      BY SMT
    <3> QED
      BY <3>1, <3>2, SMT
  <2> QED
    BY <1>1, <1>3, <1>5, <2>1, SMT DEF Abs
<1>6. CASE x < 0 /\ y >= 0
  BY <1>1, <1>3, <1>6, SMT DEF Abs
<1>7. CASE ~(x <= y)
  BY <1>1, <1>2, <1>3, <1>7, SMT DEF Abs
<1> QED
  BY <1>4, <1>5, <1>6, <1>7, SMT

-----------------------------------------------------------------------------
\* The operators of VelocityLimits.

\* A row of limits that the constructor accepts.
ValidRow(c) ==
  /\ c \in [Column -> Int]
  /\ \A i \in 0 .. 4 : c[i] <= c[i + 1]
  /\ c[2] <= 0 /\ c[3] >= 0

LEMMA RowsAreValid ==
  ASSUME NEW l \in LimitsMatrix, ValidLimits(l), NEW a \in Axis
  PROVE  ValidRow(l[a])
  BY DEF LimitsMatrix, ValidLimits, Monotonic, DeadBandHoldsZero, ValidRow

\* The columns of such a row, one by one.
LEMMA RowIsOrdered ==
  ASSUME NEW c, ValidRow(c)
  PROVE  /\ c[0] \in Int /\ c[1] \in Int /\ c[2] \in Int
         /\ c[3] \in Int /\ c[4] \in Int /\ c[5] \in Int
         /\ c[0] <= c[1] /\ c[1] <= c[2] /\ c[2] <= 0
         /\ 0 <= c[3] /\ c[3] <= c[4] /\ c[4] <= c[5]
<1>1. /\ 0 \in 0 .. 4 /\ 1 \in 0 .. 4 /\ 2 \in 0 .. 4 /\ 3 \in 0 .. 4 /\ 4 \in 0 .. 4
      /\ 0 + 1 = 1 /\ 1 + 1 = 2 /\ 2 + 1 = 3 /\ 3 + 1 = 4 /\ 4 + 1 = 5
  BY SMT
<1>2. /\ c[0] <= c[1] /\ c[1] <= c[2] /\ c[3] <= c[4] /\ c[4] <= c[5]
  BY <1>1 DEF ValidRow
<1>3. \A i \in Column : c[i] \in Int
  BY DEF ValidRow
<1>4. {0, 1, 2, 3, 4, 5} \subseteq Column
  BY SMT DEF Column
<1> QED
  BY <1>2, <1>3, <1>4 DEF ValidRow

\* Squares over a denominator are a valid row again.
LEMMA SquaresAreValid ==
  ASSUME NEW c, ValidRow(c), NEW over \in Nat, over > 0
  PROVE  LET s == SignedSquares(c, over)
         IN /\ s \in [Column -> Int] /\ ValidRow(s)
            /\ \A i \in Column : s[i] = SignedSquare(c[i]) * over
<1> DEFINE s == SignedSquares(c, over)
<1>1. \A i \in Column : c[i] \in Int /\ SignedSquare(c[i]) \in Int
  BY SignedSquareKeeps DEF ValidRow
<1>2. \A i \in Column : s[i] = SignedSquare(c[i]) * over
  BY DEF SignedSquares
<1>3. s \in [Column -> Int]
  BY <1>1, PositiveFactor DEF SignedSquares
<1>4. \A i \in 0 .. 4 : s[i] <= s[i + 1]
  <2> TAKE i \in 0 .. 4
  <2>1. i \in Column /\ i + 1 \in Column
    BY SMT DEF Column
  <2>2. c[i] <= c[i + 1]
    BY DEF ValidRow
  <2>3. SignedSquare(c[i]) <= SignedSquare(c[i + 1])
    BY <1>1, <2>1, <2>2, SignedSquareKeeps
  <2>4. SignedSquare(c[i]) * over <= SignedSquare(c[i + 1]) * over
    BY <1>1, <2>1, <2>3, PositiveFactor
  <2> QED
    BY <1>2, <2>1, <2>4
<1>5. s[2] <= 0 /\ s[3] >= 0
  <2>1. 2 \in Column /\ 3 \in Column
    BY SMT DEF Column
  <2>2. SignedSquare(c[2]) <= 0 /\ SignedSquare(c[3]) >= 0
    BY <1>1, <2>1, SignedSquareKeeps, SMT DEF ValidRow
  <2>3. SignedSquare(c[2]) * over <= 0 * over /\ 0 * over <= SignedSquare(c[3]) * over
    BY <1>1, <2>1, <2>2, PositiveFactor, SMT
  <2> QED
    BY <1>2, <2>1, <2>3, <1>3, SMT
<1> QED
  BY <1>2, <1>3, <1>4, <1>5 DEF ValidRow

\* Clamping brings an axis between its limits and never turns it.
LEMMA ClampHolds ==
  ASSUME NEW x \in Int, NEW c, ValidRow(c)
  PROVE  LET y == ClampAxis(x, c)
         IN /\ y \in Int /\ c[0] <= y /\ y <= c[5]
            /\ y > 0 => x > 0
            /\ y < 0 => x < 0
  BY RowIsOrdered, SMT DEF ClampAxis

\* The dead band and the minimum speed, given squares within the limits: they keep
\* the direction, and what they do not set to zero or to a minimum they leave alone.
LEMMA DeadBandAndMinimum ==
  ASSUME NEW y \in Int, NEW c, ValidRow(c), c[0] <= y, y <= c[5]
  PROVE  LET r == RaiseToMin(ApplyDeadBand(y, c), c)
         IN /\ r \in Int
            /\ r = 0 \/ (c[0] <= r /\ r <= c[1]) \/ (c[4] <= r /\ r <= c[5])
            /\ r \in {0, y, c[1], c[4]}
            /\ r > 0 => y > 0
            /\ r < 0 => y < 0
<1> DEFINE z == ApplyDeadBand(y, c)
<1>1. /\ c[0] \in Int /\ c[1] \in Int /\ c[2] \in Int
      /\ c[3] \in Int /\ c[4] \in Int /\ c[5] \in Int
      /\ c[0] <= c[1] /\ c[1] <= c[2] /\ c[2] <= 0
      /\ 0 <= c[3] /\ c[3] <= c[4] /\ c[4] <= c[5]
  BY RowIsOrdered
<1>2. \/ z = 0 /\ c[2] <= y /\ y <= c[3]
      \/ z = y /\ y < c[2]
      \/ z = y /\ c[3] < y
  BY <1>1, SMT DEF ApplyDeadBand
<1>3. CASE z = 0
  <2>1. RaiseToMin(z, c) = 0
    BY <1>1, <1>3, SMT DEF RaiseToMin
  <2> QED
    BY <2>1, <1>3, SMT
<1>4. CASE z = y /\ y < c[2]
  <2>1. RaiseToMin(z, c) = IF c[1] < y THEN c[1] ELSE y
    BY <1>1, <1>4, SMT DEF RaiseToMin
  <2> QED
    BY <2>1, <1>1, <1>4, SMT
<1>5. CASE z = y /\ c[3] < y
  <2>1. RaiseToMin(z, c) = IF y < c[4] THEN c[4] ELSE y
    BY <1>1, <1>5, SMT DEF RaiseToMin
  <2> QED
    BY <2>1, <1>1, <1>5, SMT
<1> QED
  BY <1>2, <1>3, <1>4, <1>5

\* The greatest speed of a row.
Fastest(c) == IF Abs(c[0]) >= Abs(c[5]) THEN Abs(c[0]) ELSE Abs(c[5])

\* There is a greatest speed among finitely many, so that the CHOOSE of MaxSpeed chooses.
LEMMA MaxSpeedIsSpeed ==
  ASSUME NEW l \in LimitsMatrix, ValidLimits(l)
  PROVE  MaxSpeed(l) \in Int
<1> DEFINE speeds == {Abs(l[a][i]) : a \in Axis, i \in Column}
           Top(a) == Fastest(l[a])
<1> HIDE DEF Top, speeds
<1>1. ASSUME NEW a \in Axis
      PROVE  /\ Top(a) \in speeds /\ Top(a) \in Int
             /\ \A i \in Column : Abs(l[a][i]) <= Top(a)
  <2>1. ValidRow(l[a])
    BY RowsAreValid
  <2>2. 0 \in Column /\ 5 \in Column
    BY SMT DEF Column
  <2>3. Top(a) \in speeds
    BY <2>2 DEF Fastest, Top, speeds
  <2>4. \A i \in Column : l[a][i] \in Int /\ l[a][0] <= l[a][i] /\ l[a][i] <= l[a][5]
    <3>1. \A i \in Column : i \in {0, 1, 2, 3, 4, 5}
      BY SMT DEF Column
    <3> QED
      BY <2>1, <3>1, RowIsOrdered, SMT
  <2>5. Top(a) \in Int /\ \A i \in Column : Abs(l[a][i]) <= Top(a)
    BY <2>2, <2>4, SMT DEF Abs, Fastest, Top
  <2> QED
    BY <2>3, <2>5
<1>2. \E b \in Axis : \A a \in Axis : Top(a) <= Top(b)
  <2>1. Top("x") \in Int /\ Top("y") \in Int /\ Top("z") \in Int
    BY <1>1 DEF Axis
  <2>2. \/ Top("y") <= Top("x") /\ Top("z") <= Top("x")
        \/ Top("x") <= Top("y") /\ Top("z") <= Top("y")
        \/ Top("x") <= Top("z") /\ Top("y") <= Top("z")
    BY <2>1, SMT
  <2>3. Top("x") <= Top("x") /\ Top("y") <= Top("y") /\ Top("z") <= Top("z")
    BY <2>1, SMT
  <2> QED
    BY <2>2, <2>3 DEF Axis
<1>3. \A s \in speeds : s \in Int
  <2>1. \A a \in Axis, i \in Column : l[a][i] \in Int
    BY DEF LimitsMatrix
  <2> QED
    BY <2>1, SignedSquareKeeps DEF speeds
<1>4. PICK b \in Axis : \A a \in Axis : Top(a) <= Top(b)
  BY <1>2
<1>5. \A s \in speeds : s <= Top(b)
  <2> SUFFICES ASSUME NEW a \in Axis, NEW i \in Column PROVE Abs(l[a][i]) <= Top(b)
    BY DEF speeds
  <2>1. Abs(l[a][i]) <= Top(a) /\ Top(a) <= Top(b) /\ Top(a) \in Int /\ Top(b) \in Int
    BY <1>1, <1>4
  <2>2. Abs(l[a][i]) \in Int
    BY <1>3 DEF speeds
  <2> QED
    BY <2>1, <2>2, SMT
<1>6. \E max \in speeds : \A s \in speeds : s <= max
  <2>1. Top(b) \in speeds
    BY <1>1
  <2> HIDE DEF speeds
  <2> QED
    BY <2>1, <1>5
<1>7. MaxSpeed(l) \in speeds
  BY <1>6 DEF MaxSpeed, speeds
<1> QED
  BY <1>3, <1>7

\* The scale never enlarges, and brings the speed to the maximum at most.
LEMMA ScaleShrinks ==
  ASSUME NEW v \in Vector3, NEW l \in LimitsMatrix, ValidLimits(l)
  PROVE  LET scale == Scale(v, l)
         IN /\ scale.times \in Nat /\ scale.over \in Nat
            /\ scale.over > 0 /\ scale.times <= scale.over
            /\ SpeedSquare(v) * scale.times <= MaxSpeed(l) * MaxSpeed(l) * scale.over
<1> DEFINE max == MaxSpeed(l) * MaxSpeed(l)
           scale == Scale(v, l)
<1>1. max \in Nat
  BY MaxSpeedIsSpeed, SMT
<1>2. SpeedSquare(v) \in Nat
  <2>1. v["x"] \in Int /\ v["y"] \in Int /\ v["z"] \in Int
    BY DEF Vector3, Axis
  <2>2. \A x \in Int : x * x \in Nat
    BY SMT
  <2>3. v["x"] * v["x"] \in Nat /\ v["y"] * v["y"] \in Nat /\ v["z"] * v["z"] \in Nat
    BY <2>1, <2>2
  <2> QED
    BY <2>3, SMT DEF SpeedSquare
<1>3. scale = IF SpeedSquare(v) > max THEN [times |-> max, over |-> SpeedSquare(v)]
                                      ELSE [times |-> 1, over |-> 1]
  BY DEF Scale
<1> HIDE DEF max, scale
<1>4. CASE SpeedSquare(v) > max
  <2>1. scale.times = max /\ scale.over = SpeedSquare(v)
    BY <1>3, <1>4
  <2>2. SpeedSquare(v) * max = max * SpeedSquare(v)
    BY <1>1, <1>2, SMT
  <2>3. SpeedSquare(v) * max <= max * SpeedSquare(v)
    BY <1>1, <1>2, <2>2, SMT
  <2>4. SpeedSquare(v) > 0 /\ max <= SpeedSquare(v)
    BY <1>1, <1>2, <1>4, SMT
  <2> QED
    BY <1>1, <1>2, <2>1, <2>3, <2>4 DEF max, scale
<1>5. CASE ~(SpeedSquare(v) > max)
  <2>1. scale.times = 1 /\ scale.over = 1
    BY <1>3, <1>5
  <2>2. SpeedSquare(v) * 1 <= max * 1
    BY <1>1, <1>2, <1>5, SMT
  <2> QED
    BY <2>1, <2>2, SMT DEF max, scale
<1> QED
  BY <1>4, <1>5

\* An axis that has been clamped and scaled ends within its limits, in the direction
\* it had, and at the scaled speed unless it stands still or moves at a minimum.
LEMMA LimitAxisHolds ==
  ASSUME NEW x \in Int, NEW c, ValidRow(c), c[0] <= x, x <= c[5],
         NEW scale, scale.times \in Nat, scale.over \in Nat,
         scale.over > 0, scale.times <= scale.over
  PROVE  LET r == LimitAxis(x, c, scale)
             s == SignedSquares(c, scale.over)
         IN /\ r \in Int
            /\ r = 0 \/ (s[0] <= r /\ r <= s[1]) \/ (s[4] <= r /\ r <= s[5])
            /\ r \in {0, SignedSquare(x) * scale.times, s[1], s[4]}
            /\ r > 0 => x > 0
            /\ r < 0 => x < 0
<1> DEFINE t == scale.times
           o == scale.over
           s == SignedSquares(c, o)
           y == SignedSquare(x) * t
<1>1. /\ ValidRow(s)
      /\ s[0] = SignedSquare(c[0]) * o /\ s[5] = SignedSquare(c[5]) * o
  <2>1. 0 \in Column /\ 5 \in Column
    BY SMT DEF Column
  <2> QED
    BY <2>1, SquaresAreValid
<1>2. c[0] \in Int /\ c[5] \in Int /\ c[0] <= 0 /\ 0 <= c[5]
  BY RowIsOrdered, SMT
<1>3. /\ SignedSquare(x) \in Int /\ SignedSquare(c[0]) \in Int /\ SignedSquare(c[5]) \in Int
      /\ SignedSquare(c[0]) <= SignedSquare(x) /\ SignedSquare(x) <= SignedSquare(c[5])
      /\ x > 0 => SignedSquare(x) > 0
      /\ x < 0 => SignedSquare(x) < 0
      /\ x = 0 => SignedSquare(x) = 0
  BY <1>2, SignedSquareKeeps
<1>4. y \in Int /\ s[0] \in Int /\ s[5] \in Int /\ s[0] <= 0 /\ 0 <= s[5]
  <2>1. y \in Int
    BY <1>3, SMT
  <2>2. s[0] \in Int /\ s[5] \in Int /\ s[0] <= 0 /\ 0 <= s[5]
    BY <1>1, RowIsOrdered, SMT
  <2> QED
    BY <2>1, <2>2
<1> HIDE DEF s
<1>5. s[0] <= y /\ y <= s[5] /\ (y > 0 => x > 0) /\ (y < 0 => x < 0)
  <2>1. CASE x >= 0
    <3>1. SignedSquare(x) \in Nat /\ SignedSquare(c[5]) \in Nat
      BY <1>3, <2>1, SMT
    <3>2. y \in Nat /\ y <= s[5]
      BY <1>1, <1>3, <3>1, ProductsOrdered
    <3>3. x = 0 => y = 0
      BY <1>3, SMT
    <3> HIDE DEF y
    <3> QED
      BY <1>4, <2>1, <3>2, <3>3, SMT
  <2>2. CASE x < 0
    <3>1. -SignedSquare(x) \in Nat /\ -SignedSquare(c[0]) \in Nat
          /\ -SignedSquare(x) <= -SignedSquare(c[0])
      BY <1>3, <2>2, SMT
    <3>2. (-SignedSquare(x)) * t \in Nat
          /\ (-SignedSquare(x)) * t <= (-SignedSquare(c[0])) * o
      BY <3>1, ProductsOrdered
    <3>3. (-SignedSquare(x)) * t = -y /\ (-SignedSquare(c[0])) * o = -s[0]
      BY <1>1, <1>3, SMT
    <3> HIDE DEF y
    <3> QED
      BY <1>4, <2>2, <3>2, <3>3, SMT
  <2> QED
    BY <2>1, <2>2, SMT
<1>6. LimitAxis(x, c, scale) = RaiseToMin(ApplyDeadBand(y, s), s)
  BY DEF LimitAxis, s
<1> HIDE DEF y
<1> DEFINE r == RaiseToMin(ApplyDeadBand(y, s), s)
<1>7. /\ r \in Int
      /\ r = 0 \/ (s[0] <= r /\ r <= s[1]) \/ (s[4] <= r /\ r <= s[5])
      /\ r \in {0, y, s[1], s[4]}
      /\ r > 0 => y > 0
      /\ r < 0 => y < 0
  BY <1>1, <1>4, <1>5, DeadBandAndMinimum
<1> HIDE DEF r
<1>8. (r > 0 => x > 0) /\ (r < 0 => x < 0)
  BY <1>5, <1>7
<1> QED
  BY <1>6, <1>7, <1>8 DEF r, y, s

\* What is not at a minimum is no faster than scaling left it.
LEMMA AboveMinIsScaled ==
  ASSUME NEW x \in Int, NEW t \in Nat, NEW u, NEW l, NEW a \in Axis,
         u.square[a] \in {0, SignedSquare(x) * t,
                          SignedSquares(l[a], u.over)[1], SignedSquares(l[a], u.over)[4]}
  PROVE  SquareAboveMin(u, l, a) \in Nat /\ SquareAboveMin(u, l, a) <= x * x * t
<1>1. SignedSquare(x) \in Int /\ Abs(SignedSquare(x)) = x * x
  BY SignedSquareKeeps
<1>2. Abs(SignedSquare(x) * t) = x * x * t
  <2>1. CASE SignedSquare(x) >= 0
    <3>1. SignedSquare(x) = x * x
      BY <1>1, <2>1, SMT DEF Abs
    <3>2. x * x * t >= 0
      BY SMT
    <3> QED
      BY <3>1, <3>2, SMT DEF Abs
  <2>2. CASE SignedSquare(x) < 0
    <3>1. SignedSquare(x) = -(x * x)
      BY <1>1, <2>2, SMT DEF Abs
    <3>2. SignedSquare(x) * t = -(x * x * t) /\ x * x * t >= 0
      BY <3>1, SMT
    <3> QED
      BY <3>2, SMT DEF Abs
  <2> QED
    BY <1>1, <2>1, <2>2, SMT
<1>3. x * x * t \in Nat
  BY SMT
<1>4. Abs(0) = 0
  BY SMT DEF Abs
<1> QED
  BY <1>2, <1>3, <1>4, SMT DEF SquareAboveMin

\* A velocity that apply_velocity_limits returns.
LEMMA VelocityHolds ==
  ASSUME NEW v \in Vector3, NEW l \in LimitsMatrix, ValidLimits(l)
  PROVE  LET u == ApplyVelocityLimits(v, l)
         IN /\ u \in Velocity /\ AxesWithin(u, l) /\ SpeedWithin(u, l)
            /\ \A a \in Axis : (u.square[a] > 0 => v[a] > 0) /\ (u.square[a] < 0 => v[a] < 0)
<1> DEFINE w == Clamp(v, l)
           scale == Scale(w, l)
           u == ApplyVelocityLimits(v, l)
           s(a) == SignedSquares(l[a], u.over)
<1>1. \A a \in Axis : /\ v[a] \in Int /\ w[a] \in Int /\ ValidRow(l[a])
                      /\ l[a][0] <= w[a] /\ w[a] <= l[a][5]
                      /\ w[a] > 0 => v[a] > 0
                      /\ w[a] < 0 => v[a] < 0
  <2> SUFFICES ASSUME NEW a \in Axis
               PROVE  /\ v[a] \in Int /\ w[a] \in Int /\ ValidRow(l[a])
                      /\ l[a][0] <= w[a] /\ w[a] <= l[a][5]
                      /\ w[a] > 0 => v[a] > 0
                      /\ w[a] < 0 => v[a] < 0
    OBVIOUS
  <2>1. v[a] \in Int /\ ValidRow(l[a])
    BY RowsAreValid DEF Vector3
  <2>2. w[a] = ClampAxis(v[a], l[a])
    BY DEF Clamp
  <2> QED
    BY <2>1, <2>2, ClampHolds
<1>2. w \in Vector3
  BY <1>1 DEF Clamp, Vector3
<1>3. /\ scale.times \in Nat /\ scale.over \in Nat
      /\ scale.over > 0 /\ scale.times <= scale.over
      /\ SpeedSquare(w) * scale.times <= MaxSpeed(l) * MaxSpeed(l) * scale.over
  BY <1>2, ScaleShrinks
<1>4. u = [square |-> [a \in Axis |-> LimitAxis(w[a], l[a], scale)], over |-> scale.over]
  BY DEF ApplyVelocityLimits
<1> HIDE DEF w, scale, u
<1>5. u.over = scale.over /\ \A a \in Axis : u.square[a] = LimitAxis(w[a], l[a], scale)
  BY <1>4
<1>6. \A a \in Axis :
        LET r == u.square[a]
        IN /\ r \in Int
           /\ r = 0 \/ (s(a)[0] <= r /\ r <= s(a)[1]) \/ (s(a)[4] <= r /\ r <= s(a)[5])
           /\ r \in {0, SignedSquare(w[a]) * scale.times, s(a)[1], s(a)[4]}
           /\ r > 0 => w[a] > 0
           /\ r < 0 => w[a] < 0
  <2> SUFFICES ASSUME NEW a \in Axis
               PROVE  LET r == LimitAxis(w[a], l[a], scale)
                          c == SignedSquares(l[a], scale.over)
                      IN /\ r \in Int
                         /\ r = 0 \/ (c[0] <= r /\ r <= c[1]) \/ (c[4] <= r /\ r <= c[5])
                         /\ r \in {0, SignedSquare(w[a]) * scale.times, c[1], c[4]}
                         /\ r > 0 => w[a] > 0
                         /\ r < 0 => w[a] < 0
    BY <1>5
  <2> QED
    BY <1>1, <1>3, LimitAxisHolds
<1>7. u \in Velocity
  BY <1>3, <1>4, <1>5, <1>6 DEF Velocity
<1>8. AxesWithin(u, l)
  BY <1>6 DEF AxesWithin
<1>9. \A a \in Axis : (u.square[a] > 0 => v[a] > 0) /\ (u.square[a] < 0 => v[a] < 0)
  BY <1>1, <1>6
<1>10. SpeedWithin(u, l)
  <2> DEFINE t == scale.times
             q(a) == SquareAboveMin(u, l, a)
  <2>1. \A a \in Axis : q(a) \in Nat /\ q(a) <= w[a] * w[a] * t
    BY <1>1, <1>3, <1>6, AboveMinIsScaled
  <2>2. /\ q("x") \in Nat /\ q("x") <= w["x"] * w["x"] * t /\ w["x"] \in Int
        /\ q("y") \in Nat /\ q("y") <= w["y"] * w["y"] * t /\ w["y"] \in Int
        /\ q("z") \in Nat /\ q("z") <= w["z"] * w["z"] * t /\ w["z"] \in Int
    BY <1>1, <2>1 DEF Axis
  <2>3. \A i, j, k \in Int : i * i * t + j * j * t + k * k * t = (i * i + j * j + k * k) * t
    BY <1>3, SMT
  <2>4. \A i \in Int : i * i * t \in Int
    BY <1>3, SMT
  <2>5. w["x"] * w["x"] * t + w["y"] * w["y"] * t + w["z"] * w["z"] * t = SpeedSquare(w) * t
    BY <2>2, <2>3 DEF SpeedSquare
  <2>6. MaxSpeed(l) * MaxSpeed(l) * scale.over \in Int
    BY <1>3, MaxSpeedIsSpeed, SMT
  <2> HIDE DEF q
  <2>7. q("x") + q("y") + q("z") <= SpeedSquare(w) * t
    <3> DEFINE X == w["x"] * w["x"] * t
               Y == w["y"] * w["y"] * t
               Z == w["z"] * w["z"] * t
    <3>1. X \in Int /\ Y \in Int /\ Z \in Int
      BY <2>2, <2>4
    <3>2. q("x") <= X /\ q("y") <= Y /\ q("z") <= Z /\ X + Y + Z = SpeedSquare(w) * t
      BY <2>2, <2>5
    <3> HIDE DEF X, Y, Z
    <3>3. q("x") + q("y") + q("z") <= X + Y + Z
      BY <2>2, <3>1, <3>2, SMT
    <3> QED
      BY <3>2, <3>3
  <2>8. SpeedSquare(w) * t \in Int
    BY <2>2, <2>4, <2>5, SMT
  <2>9. q("x") + q("y") + q("z") <= MaxSpeed(l) * MaxSpeed(l) * scale.over
    <3> DEFINE S == SpeedSquare(w) * t
               M == MaxSpeed(l) * MaxSpeed(l) * scale.over
    <3>1. S \in Int /\ M \in Int /\ S <= M /\ q("x") + q("y") + q("z") <= S
      BY <1>3, <2>6, <2>7, <2>8
    <3> HIDE DEF S, M
    <3>2. q("x") + q("y") + q("z") <= M
      BY <2>2, <3>1, SMT
    <3> QED
      BY <3>2 DEF M
  <2> QED
    BY <1>5, <2>9 DEF SpeedWithin, q
<1> QED
  BY <1>7, <1>8, <1>9, <1>10 DEF u

-----------------------------------------------------------------------------
\* The inductive invariant.

\* A twist u that was made of the command cmd under the limits l.
Fits(u, cmd, l) ==
  /\ u \in [Kind -> Velocity]
  /\ \A k \in Kind : /\ AxesWithin(u[k], l[k]) /\ SpeedWithin(u[k], l[k])
                     /\ \A a \in Axis : /\ u[k].square[a] > 0 => cmd[k][a] > 0
                                        /\ u[k].square[a] < 0 => cmd[k][a] < 0

LimitsAreValid == mLimits \in Limits /\ \A k \in Kind : ValidLimits(mLimits[k])

\* What the watchdog has left to run bounds how long the robot has gone without a
\* command and for how long it will obey the one in effect, from above and below;
\* actions that held up the watchdog loosen it from above.
WatchdogFits ==
  /\ watchdog = Cancelled => ~Moving
  /\ watchdog # Cancelled => CmdTimeout <= watchdog + silence
  /\ Moving /\ "stop" \notin failed => watchdog + silence <= CmdTimeout + held
  /\ Moving /\ failed = {} => watchdog + age < 2 * CmdTimeout + held

IInv == TypeOK /\ LimitsAreValid /\ Fits(velocity, commanded, mLimits) /\ WatchdogFits

\* The limits of both kinds of velocity are matrices.
LEMMA LimitsAreMatrices ==
  ASSUME LimitsAreValid, NEW k \in Kind
  PROVE  mLimits[k] \in LimitsMatrix /\ ValidLimits(mLimits[k])
  BY ControllerAssumption DEF LimitsAreValid

\* A command that is limited fits.
LEMMA LimitedFits ==
  ASSUME LimitsAreValid, NEW cmd \in Command
  PROVE  Fits(Limited(cmd), cmd, mLimits)
<1>1. \A k \in Kind : cmd[k] \in Vector3
  BY ControllerAssumption
<1>2. \A k \in Kind : Limited(cmd)[k] = ApplyVelocityLimits(cmd[k], mLimits[k])
  BY DEF Limited
<1>3. ASSUME NEW k \in Kind
      PROVE  LET u == ApplyVelocityLimits(cmd[k], mLimits[k])
             IN /\ u \in Velocity /\ AxesWithin(u, mLimits[k]) /\ SpeedWithin(u, mLimits[k])
                /\ \A a \in Axis : /\ u.square[a] > 0 => cmd[k][a] > 0
                                   /\ u.square[a] < 0 => cmd[k][a] < 0
  BY <1>1, LimitsAreMatrices, VelocityHolds
<1>4. Limited(cmd) \in [Kind -> Velocity]
  BY <1>3 DEF Limited
<1> QED
  BY <1>2, <1>3, <1>4 DEF Fits

\* A robot that stands still fits whatever the limits are.
LEMMA StandstillFits ==
  ASSUME LimitsAreValid
  PROVE  Fits(Standstill, NoTwist, mLimits)
<1>1. Zero.over = 1 /\ \A a \in Axis : Zero.square[a] = 0
  BY DEF Zero
<1>2. Zero \in Velocity
  BY SMT DEF Zero, Velocity
<1>3. \A l, a : a \in Axis => SquareAboveMin(Zero, l, a) = 0
  BY <1>1, SMT DEF SquareAboveMin, Abs
<1>4. ASSUME NEW l \in LimitsMatrix, ValidLimits(l)
      PROVE  AxesWithin(Zero, l) /\ SpeedWithin(Zero, l)
  <2>1. MaxSpeed(l) * MaxSpeed(l) * 1 >= 0
    BY <1>4, MaxSpeedIsSpeed, SMT
  <2>2. SquareAboveMin(Zero, l, "x") + SquareAboveMin(Zero, l, "y") + SquareAboveMin(Zero, l, "z") = 0
    BY <1>3, SMT DEF Axis
  <2> QED
    BY <1>1, <2>1, <2>2 DEF AxesWithin, SpeedWithin
<1> QED
  BY <1>1, <1>2, <1>4, LimitsAreMatrices DEF Fits, Standstill

\* A robot that has been told to stand still does not move.
LEMMA StandstillIsStill ==
  ASSUME velocity = Standstill
  PROVE  ~Moving
  BY DEF Moving, Standstill, Zero

LEMMA InitIInv == Init => IInv
<1> SUFFICES ASSUME Init PROVE IInv
  OBVIOUS
<1>1. LimitsAreValid
  BY DEF Init, LimitsAreValid
<1>2. velocity = Standstill /\ commanded = NoTwist /\ ~Moving
  BY StandstillIsStill DEF Init
<1>3. Fits(velocity, commanded, mLimits)
  BY <1>1, <1>2, StandstillFits
<1>4. TypeOK
  BY <1>3, ControllerAssumption, SMT DEF Init, TypeOK, Fits, Cancelled, MaxSilence, MaxAge
<1>5. WatchdogFits
  BY <1>2, ControllerAssumption, SMT DEF Init, WatchdogFits, Cancelled
<1> QED
  BY <1>1, <1>3, <1>4, <1>5 DEF IInv

\* The velocity fits whoever sets it.
LEMMA FitsStep ==
  ASSUME IInv, [Next]_vars
  PROVE  LimitsAreValid' /\ Fits(velocity, commanded, mLimits)'
<1>1. mLimits' = mLimits
  BY DEF Next, vars, CmdVelCallback, CommandIgnored, CommandAccepted, ResetCmdCallback,
         Stops, StopFails, AddAction, TriggerAction, ActionEnds, Tick
<1>2. LimitsAreValid /\ LimitsAreValid'
  BY <1>1 DEF IInv, LimitsAreValid
<1>3. \/ UNCHANGED <<velocity, commanded>>
      \/ velocity' = Standstill /\ commanded' = NoTwist
      \/ \E cmd \in Command : velocity' = Limited(cmd) /\ commanded' = cmd
  BY DEF Next, vars, CmdVelCallback, CommandIgnored, CommandAccepted, ResetCmdCallback,
         Stops, StopFails, AddAction, TriggerAction, ActionEnds, Tick, ApplyCmd,
         ApplyCmdThrows, twistVars
<1>4. Fits(velocity', commanded', mLimits)
  BY <1>2, <1>3, LimitedFits, StandstillFits DEF IInv
<1> QED
  BY <1>1, <1>2, <1>4 DEF Fits

\* Whether the robot moves is up to its velocity.
LEMMA MovingIsVelocity ==
  /\ velocity' = velocity => (Moving' <=> Moving)
  /\ velocity' = Standstill => ~Moving'
  BY DEF Moving, Standstill, Zero

\* The numbers and sets of TypeOK; velocity has its type by FitsStep.
Numbers ==
  /\ CmdTimeout \in Nat /\ CmdTimeout > 0
  /\ watchdog = Cancelled \/ watchdog \in 0 .. CmdTimeout
  /\ MaxHeld \in Nat /\ held \in 0 .. MaxHeld
  /\ silence \in 0 .. CmdTimeout + MaxHeld + 1
  /\ age \in -CmdTimeout .. 2 * CmdTimeout + MaxHeld
  /\ failed \in SUBSET {"cmd", "stop"}

LEMMA TypeIsNumbers == TypeOK => Numbers
  BY ControllerAssumption DEF TypeOK, Numbers, MaxSilence, MaxAge

\* One case for each way a callback, or time, can go.
LEMMA WatchdogStep ==
  ASSUME IInv, [Next]_vars
  PROVE  (commanded \in Command \cup {NoTwist})' /\ Numbers' /\ WatchdogFits'
<1>1. Numbers /\ WatchdogFits /\ commanded \in Command \cup {NoTwist}
  BY TypeIsNumbers DEF IInv, TypeOK
<1>2. CASE UNCHANGED vars
  <2>1. Moving' <=> Moving
    BY <1>2, MovingIsVelocity DEF vars
  <2> QED
    BY <1>1, <1>2, <2>1 DEF vars, Numbers, WatchdogFits
<1>3. ASSUME NEW old \in -MaxSkew .. MaxSkew, NEW cmd \in Command \cup {NonFinite},
             CommandAccepted(old, cmd)
      PROVE  (commanded \in Command \cup {NoTwist})' /\ Numbers' /\ WatchdogFits'
  <2>1. old \in Int /\ old < CmdTimeout /\ -CmdTimeout < old
    BY <1>1, <1>3, ControllerAssumption, SMT DEF CommandAccepted, InTime, Abs, Numbers
  <2>2. watchdog' = CmdTimeout /\ silence' = 0 /\ held' = 0 /\ cmd \in Command
    BY <1>3 DEF CommandAccepted
  <2>3. CASE ApplyCmd(Limited(cmd), cmd, old)
    <3>1. commanded' = cmd /\ age' = old /\ failed' = {}
      BY <2>3 DEF ApplyCmd
    <3> QED
      BY <1>1, <2>1, <2>2, <3>1, SMT DEF Numbers, WatchdogFits, Cancelled
  <2>4. CASE ApplyCmdThrows("cmd")
    <3>1. failed' # {} /\ failed' = failed \cup {"cmd"} /\ UNCHANGED <<velocity, commanded, age>>
      BY <2>4 DEF ApplyCmdThrows
    <3>2. Moving' <=> Moving
      BY <3>1, MovingIsVelocity
    <3>3. Numbers' /\ commanded' = commanded
      BY <1>1, <2>2, <3>1, SMT DEF Numbers
    <3>4. WatchdogFits'
      BY <1>1, <2>2, <3>1, <3>2, SMT DEF Numbers, WatchdogFits, Cancelled
    <3> QED
      BY <1>1, <3>3, <3>4
  <2> QED
    BY <1>3, <2>3, <2>4 DEF CommandAccepted
<1>4. CASE Stops
  <2>1. watchdog' = Cancelled /\ silence' = silence /\ held' = held /\ commanded' = NoTwist
        /\ velocity' = Standstill /\ age' = 0 /\ failed' = {}
    BY <1>4 DEF Stops, ApplyCmd
  <2>2. ~Moving'
    BY <2>1, MovingIsVelocity
  <2> QED
    BY <1>1, <2>1, <2>2, SMT DEF Numbers, WatchdogFits
<1>5. CASE StopFails
  <2>1. /\ watchdog' = CmdTimeout /\ silence' = silence /\ held' = held
        /\ failed' = failed \cup {"stop"} /\ UNCHANGED <<velocity, commanded, age>>
    BY <1>5 DEF StopFails, ApplyCmdThrows
  <2>2. Moving' <=> Moving
    BY <2>1, MovingIsVelocity
  <2> QED
    BY <1>1, <2>1, <2>2, SMT DEF Numbers, WatchdogFits, Cancelled
<1>6. CASE ActionEnds \/ \E name \in Action : AddAction(name) \/ TriggerAction(name)
  <2>1. UNCHANGED <<velocity, commanded, watchdog, silence, age, failed, held>>
    BY <1>6 DEF ActionEnds, AddAction, TriggerAction, twistVars
  <2>2. Moving' <=> Moving
    BY <2>1, MovingIsVelocity
  <2> QED
    BY <1>1, <2>1, <2>2 DEF Numbers, WatchdogFits
<1>7. CASE Tick
  <2>1. /\ running = NoAction => watchdog # 0
        /\ running # NoAction => held < MaxHeld
        /\ watchdog' = IF watchdog \in {Cancelled, 0} THEN watchdog ELSE watchdog - 1
        /\ silence' = IF silence < MaxSilence THEN silence + 1 ELSE silence
        /\ age' = IF Moving /\ age < MaxAge THEN age + 1 ELSE age
        /\ held' = IF running = NoAction THEN held ELSE held + 1
        /\ UNCHANGED <<velocity, commanded, failed>>
    BY <1>7 DEF Tick
  <2>2. Moving' <=> Moving
    BY <2>1, MovingIsVelocity
  <2>3. Numbers'
    BY <1>1, <2>1, SMT DEF Numbers, Cancelled, MaxSilence, MaxAge
  <2>4. WatchdogFits'
    BY <1>1, <2>1, <2>2, SMT DEF Numbers, WatchdogFits, Cancelled, MaxSilence, MaxAge
  <2> QED
    BY <1>1, <2>1, <2>3, <2>4
<1>8. QED
  BY <1>2, <1>3, <1>4, <1>5, <1>6, <1>7
     DEF Next, CmdVelCallback, CommandIgnored, ResetCmdCallback

\* An action that runs is registered.
LEMMA ActionsStep ==
  ASSUME TypeOK, [Next]_vars
  PROVE  (mActionMap \in SUBSET Action /\ running \in mActionMap \cup {NoAction})'
  BY DEF TypeOK, Next, vars, CmdVelCallback, CommandIgnored, CommandAccepted, ResetCmdCallback,
         Stops, StopFails, AddAction, TriggerAction, ActionEnds, Tick

LEMMA Invariance == Spec => []IInv
<1>1. IInv /\ [Next]_vars => IInv'
  <2> SUFFICES ASSUME IInv, [Next]_vars PROVE IInv'
    OBVIOUS
  <2>1. LimitsAreValid' /\ Fits(velocity, commanded, mLimits)'
    BY FitsStep
  <2>2. (commanded \in Command \cup {NoTwist})' /\ Numbers' /\ WatchdogFits'
    BY WatchdogStep
  <2>3. (mActionMap \in SUBSET Action /\ running \in mActionMap \cup {NoAction})'
    BY ActionsStep DEF IInv
  <2>4. TypeOK'
    BY <2>1, <2>2, <2>3 DEF TypeOK, Numbers, LimitsAreValid, Fits, MaxSilence, MaxAge
  <2> QED
    BY <2>1, <2>2, <2>4 DEF IInv
<1> QED
  BY <1>1, InitIInv, PTL DEF Spec

-----------------------------------------------------------------------------
\* Theorems.

\* No variable leaves its type, whatever is received and whenever calls throw; the
\* denominator of a velocity is never zero.
THEOREM TypeCorrect == Spec => []TypeOK
BY Invariance, PTL DEF IInv

\* For every timeout, a robot that obeys when it is told to stop moves only while the
\* last accepted command is no older than the timeout and the time actions ran.
THEOREM MovesOnlyCommandedAlways == Spec => []MovesOnlyCommanded
<1>1. IInv => MovesOnlyCommanded
  BY TypeIsNumbers, SMT DEF IInv, WatchdogFits, MovesOnlyCommanded, Numbers, Cancelled
<1> QED
  BY <1>1, Invariance, PTL

\* For every timeout, a command is obeyed for less than twice that long after its stamp,
\* the time actions ran not counted.
THEOREM OldCommandEndsAlways == Spec => []OldCommandEnds
<1>1. IInv => OldCommandEnds
  BY TypeIsNumbers, SMT DEF IInv, WatchdogFits, OldCommandEnds, Numbers, Cancelled
<1> QED
  BY <1>1, Invariance, PTL

\* For all limits the constructor accepts and all commands, an axis stands still or
\* moves between the minimum and the maximum of its direction.
THEOREM AxesWithinLimitsAlways == Spec => []AxesWithinLimits
<1>1. IInv => AxesWithinLimits
  BY DEF IInv, Fits, AxesWithinLimits
<1> QED
  BY <1>1, Invariance, PTL

\* For all limits and commands, axes at their minimum aside, the total speed does not
\* exceed the maximum.
THEOREM SpeedWithinLimitsAlways == Spec => []SpeedWithinLimits
<1>1. IInv => SpeedWithinLimits
  BY DEF IInv, Fits, SpeedWithinLimits
<1> QED
  BY <1>1, Invariance, PTL

\* For all limits and commands, no axis moves against its command or without one.
THEOREM KeepsDirectionAlways == Spec => []KeepsDirection
<1>1. \A i, j \in Int : (i > 0 /\ j > 0) \/ (i < 0 /\ j < 0) => i * j > 0
  BY SMT
<1>2. IInv => KeepsDirection
  <2> SUFFICES ASSUME IInv, NEW k \in Kind, NEW a \in Axis, velocity[k].square[a] # 0
               PROVE  velocity[k].square[a] * commanded[k][a] > 0
    BY DEF KeepsDirection
  <2>1. velocity[k].square[a] \in Int
    BY DEF IInv, Fits, Velocity
  <2>2. commanded[k][a] \in Int
    BY ControllerAssumption DEF IInv, TypeOK, NoTwist, Vector3
  <2>3. \/ velocity[k].square[a] > 0 /\ commanded[k][a] > 0
        \/ velocity[k].square[a] < 0 /\ commanded[k][a] < 0
    <3>1. velocity[k].square[a] > 0 \/ velocity[k].square[a] < 0
      BY <2>1, SMT
    <3> QED
      BY <3>1 DEF IInv, Fits
  <2> QED
    BY <1>1, <2>1, <2>2, <2>3
<1> QED
  BY <1>2, Invariance, PTL

\* For every timeout, a moving robot is stopped only after as long without a command.
THEOREM NoNeedlessStopAlways == Spec => NoNeedlessStop
<1>1. IInv /\ [Next]_vars => [Moving /\ ~Moving' /\ silence' # 0 => silence >= CmdTimeout]_vars
  <2> SUFFICES ASSUME IInv, Next, Moving, ~Moving', silence' # 0
               PROVE  silence >= CmdTimeout
    BY DEF vars
  <2>1. velocity' # velocity
    BY MovingIsVelocity
  <2>2. Stops
    BY <2>1 DEF Next, CmdVelCallback, CommandIgnored, CommandAccepted, ResetCmdCallback,
                StopFails, AddAction, TriggerAction, ActionEnds, Tick, ApplyCmdThrows,
                twistVars, vars
  <2>3. watchdog = 0
    BY <2>2 DEF Stops
  <2> QED
    BY <2>3, TypeIsNumbers, SMT DEF IInv, WatchdogFits, Numbers, Cancelled
<1> QED
  BY <1>1, Invariance, PTL DEF Spec, NoNeedlessStop
-----------------------------------------------------------------------------
\* What StopsInTheEnd rests on: a moving robot has a watchdog, which runs down.

\* While the robot moves the watchdog is armed. Only an accepted command and a failed attempt to
\* stop put it off; each tick brings it nearer, but for those an action takes when it is due.
StopNears ==
  [][Moving =>
       /\ watchdog \in 0 .. CmdTimeout
       /\ watchdog' > watchdog => silence' = 0 \/ StopFails
       /\ Tick => watchdog' = watchdog - 1 \/ (watchdog = 0 /\ running # NoAction)]_vars

\* Ignored commands, actions and their registration never put off the stop, for every timeout.
THEOREM StopNearsAlways == Spec => StopNears
<1> DEFINE Nears ==
      /\ watchdog \in 0 .. CmdTimeout
      /\ watchdog' > watchdog => silence' = 0 \/ StopFails
      /\ Tick => watchdog' = watchdog - 1 \/ (watchdog = 0 /\ running # NoAction)
<1>1. ASSUME IInv, Next, Moving PROVE Nears
  <2>1. watchdog \in 0 .. CmdTimeout
    BY <1>1, TypeIsNumbers DEF IInv, Numbers, WatchdogFits
  <2>2. Tick => watchdog' = watchdog - 1 \/ (watchdog = 0 /\ running # NoAction)
    BY <2>1, TypeIsNumbers, SMT DEF Tick, Cancelled
  <2>3. ASSUME silence' # 0, ~StopFails PROVE ~(watchdog' > watchdog)
    <3>1. CASE Tick
      BY <2>1, <3>1, <1>1, TypeIsNumbers, SMT DEF Tick, Cancelled, IInv, Numbers
    <3>2. CASE Stops
      BY <2>1, <1>1, <3>2, TypeIsNumbers, SMT DEF Stops, Cancelled, IInv, Numbers
    <3>3. CASE ~Tick /\ ~Stops
      <4>1. watchdog' = watchdog
        BY <1>1, <2>3, <3>3 DEF Next, CmdVelCallback, CommandIgnored, CommandAccepted, ResetCmdCallback,
           AddAction, TriggerAction, ActionEnds, vars
      <4> QED
        BY <1>1, <2>1, <4>1, TypeIsNumbers, SMT DEF IInv, Numbers
    <3> QED
      BY <3>1, <3>2, <3>3
  <2> QED
    BY <2>1, <2>2, <2>3
<1>2. IInv /\ [Next]_vars => [Moving => Nears]_vars
  BY <1>1
<1> QED
  BY <1>2, Invariance, PTL DEF Spec, StopNears
=============================================================================
