----------------------- MODULE MCLocomotionController ------------------------
(* TLC instances of LocomotionController. *)
EXTENDS LocomotionController

Row(v0, v1, v2, v3, v4, v5) ==
  [i \in Column |-> CASE i = 0 -> v0 [] i = 1 -> v1 [] i = 2 -> v2
                      [] i = 3 -> v3 [] i = 4 -> v4 [] OTHER -> v5]
Vec(i, j, k) == [a \in Axis |-> CASE a = "x" -> i [] a = "y" -> j [] OTHER -> k]
Same(c) == [a \in Axis |-> c]

\* Like the defaults; a robot that drives and turns but cannot step aside, faster
\* forwards than backwards; a dead band without a minimum; and an invalid one.
Usual == Same(Row(-5, -3, -1, 1, 3, 5))
Car == Vec(Row(-3, -2, -1, 0, 2, 6), Row(0, 0, 0, 0, 0, 0), Row(-2, 0, 0, 0, 0, 2))
Plain == Same(Row(-4, -1, -1, 2, 2, 4))
Wrong == Same(Row(-5, -1, -3, 1, 3, 5))

SomeLimits ==
  {[k \in Kind |-> IF k = "linear" THEN l ELSE Usual] : l \in {Usual, Car, Plain, Wrong}}

\* Twists along a diagonal of the ground, with one axis going its own way, and a turn.
SomeCommands ==
  {[k \in Kind |-> IF k = "linear" THEN Vec(i, j, i) ELSE Vec(0, 0, -i)] :
     i \in {-6, -2, 0, 4}, j \in {-4, 0, 1, 5}}
=============================================================================
