---------------------------- MODULE MCVtHistory ----------------------------
(* Instances of VtHistory for TLC: a column of rows when only the order of   *)
(* lines matters, two columns when regions may span some of them.            *)
EXTENDS VtHistory

Tall == {[w |-> 1, h |-> 2], [w |-> 1, h |-> 3]}
Square == {[w |-> 2, h |-> 2]}
=============================================================================
