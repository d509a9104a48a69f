------------------------------ MODULE RWMutex -------------------------------
(* sync.RWMutex as the code of this repository uses it. Lock first takes the *)
(* place of the one writer, which keeps new readers out, and then waits for  *)
(* the readers that are inside to leave; Unlock lets in every reader that    *)
(* parked meanwhile before another writer can take the place. A mutex is a   *)
(* record, and these are the steps on it.                                    *)
CONSTANT Nobody

Free == [writer |-> Nobody, readers |-> {}, parked |-> {}]

IsMutex(m, Users) ==
  /\ m.writer \in Users \cup {Nobody}
  /\ m.readers \subseteq Users /\ m.parked \subseteq Users

\* g has the mutex to itself / shares it.
Owns(m, g) == m.writer = g /\ m.readers = {}
Shares(m, g) == g \in m.readers

CanAnnounce(m) == m.writer = Nobody
Announced(m, g) == [m EXCEPT !.writer = g]
Unlocked(m) == [writer |-> Nobody, readers |-> m.parked, parked |-> {}]

RLocked(m, g) ==
  IF m.writer = Nobody THEN [m EXCEPT !.readers = @ \cup {g}]
                       ELSE [m EXCEPT !.parked = @ \cup {g}]
RUnlocked(m, g) == [m EXCEPT !.readers = @ \ {g}]
=============================================================================
