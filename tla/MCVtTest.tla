------------------------------ MODULE MCVtTest ------------------------------
(* One program and one or two test goroutines.                               *)
EXTENDS VtTest

CONSTANTS copier, test1, test2

ProgramPrints == [g \in Callers |-> IF g = copier THEN {"Write"} ELSE {}]
=============================================================================
