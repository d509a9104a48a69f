------------------------------ MODULE Geometry ------------------------------
(* Positions and half-open rectangles (uv.Position, uv.Rectangle), counted   *)
(* from 0, and the bounded integers the terminal computes them with.         *)
EXTENDS Integers

Lesser(a, b) == IF a <= b THEN a ELSE b
Greater(a, b) == IF a <= b THEN b ELSE a

\* ordered.Clamp swaps its bounds when they come in the wrong order.
Clamp(n, low, high) ==
  Lesser(Greater(low, high), Greater(Lesser(low, high), n))

Pos(x, y) == [x |-> x, y |-> y]

Bounds(sz) == [left |-> 0, top |-> 0, right |-> sz.w, bottom |-> sz.h]

WithinColumns(p, r) == r.left <= p.x /\ p.x < r.right

In(p, r) ==
  /\ r.left <= p.x /\ p.x < r.right
  /\ r.top <= p.y /\ p.y < r.bottom
=============================================================================
