----------------------------- MODULE MCVtCursor -----------------------------
(* Instances of VtCursor for TLC: two sizes, of which either is smaller than *)
(* the other in one direction, for margins and resizing; one small screen    *)
(* when cursors are kept on a screen that is not shown.                      *)
EXTENDS VtCursor

WideAndTall == {[w |-> 4, h |-> 3], [w |-> 3, h |-> 4]}
Narrow == {[w |-> 2, h |-> 2]}
=============================================================================
