------------------------------ MODULE ScrollLog ------------------------------
(***************************************************************************)
(* What a scrollback buffer promises: a bounded log.  Lines enter at the   *)
(* new end and keep their order, the oldest lines leave when the log is    *)
(* full and only then, and changing the limit keeps the newest lines.      *)
(***************************************************************************)
EXTENDS Integers, Sequences, SequencesExt

CONSTANT Limits     \* the limits a log may have

VARIABLES
  log,     \* the lines kept, the oldest first
  limit    \* how many lines are kept at most

Newest(s, n) == IF Len(s) <= n THEN s ELSE SubSeq(s, Len(s) - n + 1, Len(s))

Init == log = <<>> /\ limit \in Limits

\* Any number of lines enter; old lines leave only to make room for them.
Enter ==
  /\ \E k \in 0..Len(log) :
       /\ IsPrefix(Newest(log, k), log')
       /\ k < Len(log) => Len(log') = limit
  /\ Len(log') <= limit
  /\ UNCHANGED limit

\* Emptying the log.
Clear == log' = <<>> /\ UNCHANGED limit

\* Changing the limit.
SetLimit ==
  /\ limit' \in Limits
  /\ log' = Newest(log, limit')

Next == Enter \/ Clear \/ SetLimit

Spec == Init /\ [][Next]_<<log, limit>>
=============================================================================
