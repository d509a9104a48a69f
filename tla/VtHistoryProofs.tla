-------------------------- MODULE VtHistoryProofs --------------------------
(***************************************************************************)
(* What VtHistory guarantees for every screen size, every count, margins   *)
(* on the screen and past it, and every number of writes: buffers and      *)
(* scrollbacks that fit, no written cell in two places, logs that are read *)
(* in order, a scrollback that is a bounded log, a main screen that no     *)
(* program can change from the alternate one, and scrolling that loses     *)
(* only the oldest lines.  (A region that ends past the screen is worked   *)
(* on as its part on the screen is, by the handlers that return.)          *)
(*                                                                         *)
(* A step that writes nothing is described by a map from the places of     *)
(* written cells after it to places before it: no two places come from     *)
(* one, and none overtakes another if the region is whole (Moves).  Every  *)
(* operation of the buffer and of the scrollback has a lemma that gives    *)
(* such a map, and the invariants follow from the map alone.               *)
(***************************************************************************)
EXTENDS VtHistory, SequenceTheorems, FiniteSetTheorems, TLAPS

-----------------------------------------------------------------------------
(* Induction *)

\* A set of natural numbers that holds 0 and every successor holds them all.
\* (The provers cannot instantiate the induction theorems of the library, which
\* take an operator: of a smallest set that does not, one could count less
\* numbers than there are.)
LEMMA NatSetInduction ==
  ASSUME NEW S, 0 \in S, \A n \in Nat : n \in S => n + 1 \in S
  PROVE  \A n \in Nat : n \in S
<1> SUFFICES ASSUME NEW n \in Nat, n \notin S
             PROVE  FALSE
  OBVIOUS
<1> DEFINE M == {m \in 0..n : m \notin S}
           T == {m \in 0..(n - 1) : m \notin S}
           f == [m \in M |-> m - 1]
<1>1. IsFiniteSet(M)
  <2>1. IsFiniteSet(0..n)
    BY FS_Interval
  <2>2. M \in SUBSET (0..n)
    OBVIOUS
  <2>3. QED
    BY <2>1, <2>2, FS_Subset
<1>2. T \in SUBSET M /\ n \in M /\ n \notin T
  OBVIOUS
<1>3. /\ IsFiniteSet(T) /\ Cardinality(T) # Cardinality(M)
      /\ Cardinality(T) <= Cardinality(M)
      /\ Cardinality(T) \in Nat /\ Cardinality(M) \in Nat
  <2> HIDE DEF M, T
  <2>1. QED
    BY <1>1, <1>2, FS_Subset, FS_CardinalityType
<1>4. \A m \in M : m # 0 /\ m - 1 \in T
  OBVIOUS
<1>5. f \in Injection(M, T)
  BY <1>4 DEF Injection, IsInjective
<1>6. Cardinality(M) <= Cardinality(T)
  <2> HIDE DEF M, T, f
  <2>1. QED
    BY <1>3, <1>5, FS_Injection
<1>7. QED
  BY <1>3, <1>6

\* Among natural numbers with a bound there is a largest.
LEMMA LargestExists ==
  ASSUME NEW n \in Nat, NEW T \in SUBSET (0..n), T # {}
  PROVE  \E m \in T : \A t \in T : t <= m
<1> DEFINE S == {k \in Nat : \A U \in SUBSET (0..k) :
                   U # {} => \E m \in U : \A t \in U : t <= m}
<1>1. 0 \in S
  <2> SUFFICES ASSUME NEW U \in SUBSET (0..0), U # {}
               PROVE  \E m \in U : \A t \in U : t <= m
    OBVIOUS
  <2>1. PICK u \in U : TRUE
    OBVIOUS
  <2>2. u = 0 /\ \A t \in U : t = 0
    BY <2>1
  <2>3. QED
    BY <2>1, <2>2
<1>2. ASSUME NEW k \in Nat, k \in S
      PROVE  k + 1 \in S
  <2> SUFFICES ASSUME NEW U \in SUBSET (0..(k + 1)), U # {}
               PROVE  \E m \in U : \A t \in U : t <= m
    OBVIOUS
  <2>1. CASE k + 1 \in U
    <3>1. \A t \in U : t <= k + 1
      OBVIOUS
    <3>2. QED
      BY <2>1, <3>1
  <2>2. CASE k + 1 \notin U
    <3>1. U \in SUBSET (0..k)
      BY <2>2
    <3>2. QED
      BY <1>2, <3>1
  <2>3. QED
    BY <2>1, <2>2
<1>3. \A k \in Nat : k \in S
  <2> HIDE DEF S
  <2>1. QED
    BY <1>1, <1>2, NatSetInduction
<1>4. QED
  BY <1>3

\* A function on 1..n is a sequence of length n.
LEMMA IsSequence ==
  ASSUME NEW S, NEW n \in Nat, NEW f \in [1..n -> S]
  PROVE  f \in Seq(S) /\ Len(f) = n
<1>1. f \in Seq(S)
  BY SeqDef
<1>2. DOMAIN f = 1..n /\ DOMAIN f = 1..Len(f) /\ Len(f) \in Nat
  BY <1>1, LenProperties
<1>3. QED
  BY <1>1, <1>2

-----------------------------------------------------------------------------
(* The lines of the scrollback *)

\* A line without the blank cells at its end.
Stripped(line) == line # <<>> => line[Len(line)] # Blank

\* A trimmed line has the cells of the line, up to the last that is not blank.
LEMMA TrimmedLine ==
  ASSUME NEW w \in Nat, NEW V, NEW line \in [0..(w - 1) -> V]
  PROVE  /\ Trimmed(line) \in Seq(V)
         /\ Len(Trimmed(line)) <= w
         /\ Stripped(Trimmed(line))
         /\ \A i \in 1..Len(Trimmed(line)) : Trimmed(line)[i] = line[i - 1]
<1> DEFINE Full == {x \in 0..(w - 1) : line[x] # Blank}
           Kept == {x \in DOMAIN line : \E z \in DOMAIN line : z >= x /\ line[z] # Blank}
<1>1. \E k \in 0..w : Kept = 0..(k - 1) /\ (k > 0 => line[k - 1] # Blank)
  <2>1. CASE Full = {}
    <3>1. Kept = {}
      BY <2>1
    <3>2. 0..(0 - 1) = {}
      OBVIOUS
    <3>3. QED
      BY <3>1, <3>2
  <2>2. CASE Full # {}
    <3>1. Full \in SUBSET (0..w)
      OBVIOUS
    <3>2. PICK m \in Full : \A t \in Full : t <= m
      <4> HIDE DEF Full
      <4>1. QED
        BY <2>2, <3>1, LargestExists
    <3>3. Kept = 0..((m + 1) - 1)
      BY <3>2
    <3>4. QED
      BY <3>2, <3>3
  <2>3. QED
    BY <2>1, <2>2
<1>2. PICK k \in 0..w : Kept = 0..(k - 1) /\ (k > 0 => line[k - 1] # Blank)
  BY <1>1
<1>3. Cardinality(Kept) = k
  <2> HIDE DEF Kept
  <2>1. k - 1 \in Int
    OBVIOUS
  <2>2. Cardinality(0..(k - 1)) = IF 0 > k - 1 THEN 0 ELSE (k - 1) - 0 + 1
    BY <2>1, FS_Interval
  <2>3. QED
    BY <1>2, <2>2
<1>4. Trimmed(line) = [i \in 1..k |-> line[i - 1]]
  BY <1>3 DEF Trimmed
<1>5. Trimmed(line) \in [1..k -> V]
  BY <1>2, <1>4
<1>6. Trimmed(line) \in Seq(V) /\ Len(Trimmed(line)) = k
  BY <1>2, <1>5, IsSequence
<1>7. QED
  BY <1>2, <1>4, <1>6, EmptySeq DEF Stripped

\* What rows pushed one after another leave, after each of them.
Pushing(f, log, rows, empty, max) ==
  f = [i \in 0..Len(rows) |->
         IF i = 0 THEN log
         ELSE IF LineEmpty(rows[i]) /\ ~empty THEN f[i - 1]
         ELSE Push(f[i - 1], rows[i], max)]

\* The recursive function that PushRows is defined with exists.
LEMMA PushRowsIs ==
  ASSUME NEW log, NEW rows, NEW empty, NEW max, Len(rows) \in Nat
  PROVE  \E f : /\ Pushing(f, log, rows, empty, max)
                /\ PushRows(log, rows, empty, max) = f[Len(rows)]
<1> DEFINE Nx(v, i) == IF LineEmpty(rows[i]) /\ ~empty THEN v ELSE Push(v, rows[i], max)
           S == {k \in Nat : \E f : f = [i \in 0..k |-> IF i = 0 THEN log ELSE Nx(f[i - 1], i)]}
<1>1. \A k \in Nat : k \in S
  <2> HIDE DEF Nx
  <2>1. 0 \in S
    <3> DEFINE f == [i \in 0..0 |-> log]
    <3>1. f = [i \in 0..0 |-> IF i = 0 THEN log ELSE Nx(f[i - 1], i)]
      OBVIOUS
    <3> HIDE DEF f
    <3>2. QED
      BY <3>1
  <2>2. ASSUME NEW k \in Nat, k \in S
        PROVE  k + 1 \in S
    <3>1. PICK f : f = [i \in 0..k |-> IF i = 0 THEN log ELSE Nx(f[i - 1], i)]
      BY <2>2
    <3> DEFINE g == [i \in 0..(k + 1) |-> IF i <= k THEN f[i] ELSE Nx(f[k], k + 1)]
    <3>2. \A i \in 0..(k + 1) : g[i] = IF i = 0 THEN log ELSE Nx(g[i - 1], i)
      <4> SUFFICES ASSUME NEW i \in 0..(k + 1)
                   PROVE  g[i] = IF i = 0 THEN log ELSE Nx(g[i - 1], i)
        OBVIOUS
      <4>1. CASE i = 0
        BY <3>1, <4>1
      <4>2. CASE i # 0 /\ i <= k
        <5>1. g[i] = f[i] /\ g[i - 1] = f[i - 1] /\ i \in 0..k
          BY <4>2
        <5>2. f[i] = Nx(f[i - 1], i)
          BY <3>1, <4>2, <5>1
        <5>3. QED
          BY <4>2, <5>1, <5>2
      <4>3. CASE i = k + 1
        <5>1. g[i] = Nx(f[k], k + 1) /\ g[i - 1] = f[k] /\ i # 0
          BY <4>3
        <5>2. QED
          BY <4>3, <5>1
      <4>4. QED
        BY <4>1, <4>2, <4>3
    <3>3. g = [i \in 0..(k + 1) |-> IF i = 0 THEN log ELSE Nx(g[i - 1], i)]
      <4>1. g = [i \in 0..(k + 1) |-> g[i]]
        OBVIOUS
      <4> HIDE DEF g
      <4>2. QED
        BY <3>2, <4>1
    <3> HIDE DEF g
    <3>4. QED
      BY <3>3
  <2>3. QED
    <3> HIDE DEF S
    <3>1. QED
      BY <2>1, <2>2, NatSetInduction
<1>2. \E f : Pushing(f, log, rows, empty, max)
  BY <1>1 DEF Pushing
<1> DEFINE F == CHOOSE f : Pushing(f, log, rows, empty, max)
<1>3. Pushing(F, log, rows, empty, max)
  BY <1>2
<1>4. PushRows(log, rows, empty, max) = F[Len(rows)]
  BY DEF PushRows, Pushing
<1>5. QED
  BY <1>3, <1>4

\* A scrollback of lines over V with at most max lines, all without blank ends.
GoodLog(v, V, max) ==
  /\ v \in Seq(Seq(V)) /\ Len(v) <= max
  /\ \A i \in 1..Len(v) : Stripped(v[i])

\* The lines of v are lines of log and then of the first n rows, in their order.
Gathered(v, log, rows, n) ==
  \E g \in [1..Len(v) -> 1..(Len(log) + n)] :
    /\ \A i, j \in 1..Len(v) : i < j => g[i] < g[j]
    /\ \A i \in 1..Len(v) :
         v[i] = IF g[i] <= Len(log) THEN log[g[i]] ELSE Trimmed(rows[g[i] - Len(log)])

\* v begins with the newest lines of log, with all of them unless v is full.
Entered(v, log, max) ==
  \E k \in 0..Len(log) :
    /\ k <= Len(v)
    /\ \A i \in 1..k : v[i] = log[Len(log) - k + i]
    /\ k < Len(log) => Len(v) = max

\* out is v without its oldest line if v is full, and line at the end.
Pushed(out, v, line, V, max) ==
  \E d \in {0, 1} :
    /\ d = 1 <=> Len(v) = max
    /\ d <= Len(v)
    /\ GoodLog(out, V, max)
    /\ Len(out) = Len(v) - d + 1
    /\ \A i \in 1..(Len(v) - d) : out[i] = v[i + d]
    /\ out[Len(v) - d + 1] = Trimmed(line)

\* A push into a full scrollback drops the oldest line, another one none.
LEMMA PushLine ==
  ASSUME NEW w \in Nat, NEW V, NEW max \in Nat \ {0}, NEW line \in [0..(w - 1) -> V],
         NEW v, GoodLog(v, V, max)
  PROVE  Pushed(Push(v, line, max), v, line, V, max)
<1>1. v \in Seq(Seq(V)) /\ Len(v) \in Nat /\ Len(v) <= max
  BY LenProperties DEF GoodLog
<1>2. Trimmed(line) \in Seq(V) /\ Stripped(Trimmed(line))
  BY TrimmedLine
<1>3. ASSUME NEW d \in {0, 1}, NEW u \in Seq(Seq(V)),
             d = 1 <=> Len(v) = max, Len(u) = Len(v) - d, d <= Len(v),
             \A i \in 1..Len(u) : u[i] = v[i + d],
             Push(v, line, max) = Append(u, Trimmed(line))
      PROVE  /\ GoodLog(Push(v, line, max), V, max)
             /\ Len(Push(v, line, max)) = Len(v) - d + 1
             /\ \A i \in 1..(Len(v) - d) : Push(v, line, max)[i] = v[i + d]
             /\ Push(v, line, max)[Len(v) - d + 1] = Trimmed(line)
  <2> DEFINE out == Append(u, Trimmed(line))
  <2>1. /\ out \in Seq(Seq(V))
        /\ Len(out) = Len(u) + 1
        /\ \A i \in 1..Len(u) : out[i] = u[i]
        /\ out[Len(u) + 1] = Trimmed(line)
    BY <1>2, AppendProperties
  <2>2. Len(u) \in Nat
    BY LenProperties
  <2> HIDE DEF out
  <2>3. \A i \in 1..Len(out) : Stripped(out[i])
    <3> SUFFICES ASSUME NEW i \in 1..Len(out)
                 PROVE  Stripped(out[i])
      OBVIOUS
    <3>1. CASE i = Len(u) + 1
      BY <1>2, <2>1, <3>1
    <3>2. CASE i # Len(u) + 1
      <4>0. i \in 1..(Len(u) + 1) /\ i \in Int /\ d \in Int /\ Len(v) = Len(u) + d /\ d >= 0
        BY <1>1, <1>3, <2>1, <2>2
      <4>1. i \in 1..Len(u) /\ i + d \in 1..Len(v)
        BY <1>1, <2>2, <3>2, <4>0
      <4>2. out[i] = v[i + d]
        BY <1>3, <2>1, <4>1
      <4>3. QED
        BY <4>1, <4>2 DEF GoodLog
    <3>3. QED
      BY <3>1, <3>2
  <2>4. Len(out) <= max
    BY <1>1, <1>3, <2>1
  <2>5. GoodLog(out, V, max)
    BY <2>1, <2>3, <2>4 DEF GoodLog
  <2>6. Push(v, line, max) = out
    BY <1>3 DEF out
  <2>7. QED
    BY <1>3, <2>1, <2>5, <2>6
<1>4. CASE Len(v) = max
  <2>1. v # <<>>
    BY <1>1, <1>4, EmptySeq
  <2>2. /\ Tail(v) \in Seq(Seq(V)) /\ Len(Tail(v)) = Len(v) - 1
        /\ \A i \in 1..Len(Tail(v)) : Tail(v)[i] = v[i + 1]
    BY <1>1, <2>1, HeadTailProperties
  <2>3. Push(v, line, max) = Append(Tail(v), Trimmed(line))
    BY <1>1, <1>4 DEF Push
  <2>4. Len(v) # 0 /\ 1 <= Len(v)
    BY <1>1, <1>4
  <2> DEFINE u == Tail(v)
  <2>5. /\ u \in Seq(Seq(V)) /\ Len(u) = Len(v) - 1 /\ \A i \in 1..Len(u) : u[i] = v[i + 1]
        /\ Push(v, line, max) = Append(u, Trimmed(line))
    BY <2>2, <2>3
  <2> HIDE DEF u
  <2>6. 1 = 1 <=> Len(v) = max
    BY <1>4
  <2>7. /\ GoodLog(Push(v, line, max), V, max)
        /\ Len(Push(v, line, max)) = Len(v) - 1 + 1
        /\ \A i \in 1..(Len(v) - 1) : Push(v, line, max)[i] = v[i + 1]
        /\ Push(v, line, max)[Len(v) - 1 + 1] = Trimmed(line)
    BY <1>3, <2>4, <2>5, <2>6
  <2>8. QED
    BY <1>4, <2>4, <2>7 DEF Pushed
<1>5. CASE Len(v) # max
  <2>1. Push(v, line, max) = Append(v, Trimmed(line))
    BY <1>1, <1>5 DEF Push
  <2>2. \A i \in 1..Len(v) : v[i] = v[i + 0]
    BY <1>1
  <2>3. QED
    BY <1>1, <1>3, <1>5, <2>1, <2>2 DEF Pushed
<1>6. QED
  BY <1>4, <1>5

\* One more row that is pushed.
LEMMA PushGathers ==
  ASSUME NEW w \in Nat, NEW V, NEW max \in Nat \ {0}, NEW log \in Seq(Seq(V)),
         NEW rows, NEW n \in Nat, NEW row \in [0..(w - 1) -> V], rows[n + 1] = row,
         NEW v, GoodLog(v, V, max), Gathered(v, log, rows, n), Entered(v, log, max)
  PROVE  LET out == Push(v, row, max)
         IN  /\ GoodLog(out, V, max)
             /\ Gathered(out, log, rows, n + 1)
             /\ Entered(out, log, max)
<1> DEFINE out == Push(v, row, max)
           l == Len(log)
<1>1. /\ Len(v) \in Nat /\ l \in Nat /\ Len(v) <= max
  BY LenProperties DEF GoodLog
<1>2. PICK d \in {0, 1} :
           /\ d = 1 <=> Len(v) = max
           /\ d <= Len(v)
           /\ GoodLog(out, V, max)
           /\ Len(out) = Len(v) - d + 1
           /\ \A i \in 1..(Len(v) - d) : out[i] = v[i + d]
           /\ out[Len(v) - d + 1] = Trimmed(row)
  <2>1. Pushed(out, v, row, V, max)
    BY PushLine
  <2>2. QED
    BY <2>1 DEF Pushed
<1> HIDE DEF out
<1>3. Gathered(out, log, rows, n + 1)
  <2>1. PICK g \in [1..Len(v) -> 1..(l + n)] :
          /\ \A i, j \in 1..Len(v) : i < j => g[i] < g[j]
          /\ \A i \in 1..Len(v) :
               v[i] = IF g[i] <= l THEN log[g[i]] ELSE Trimmed(rows[g[i] - l])
    BY DEF Gathered
  <2> DEFINE h == [i \in 1..Len(out) |-> IF i = Len(out) THEN l + n + 1 ELSE g[i + d]]
  <2> HIDE DEF l
  <2>2. ASSUME NEW i \in 1..Len(out), i # Len(out)
        PROVE  i + d \in 1..Len(v) /\ i \in 1..(Len(v) - d)
    <3>1. Len(out) = Len(v) - d + 1 /\ d \in 0..1 /\ i \in 1..(Len(v) - d + 1)
      BY <1>2
    <3>2. i \in Int /\ d \in Int /\ 1 <= i /\ i <= Len(v) - d + 1 /\ i # Len(v) - d + 1
      BY <1>1, <2>2, <3>1
    <3>3. QED
      BY <1>1, <3>1, <3>2
  <2>3. h \in [1..Len(out) -> 1..(l + (n + 1))]
    BY <1>1, <2>1, <2>2
  <2>4. ASSUME NEW i \in 1..Len(out), NEW j \in 1..Len(out), i < j
        PROVE  h[i] < h[j]
    <3>1. i # Len(out) /\ i + d \in 1..Len(v) /\ h[i] = g[i + d]
      BY <1>1, <1>2, <2>2, <2>4
    <3>2. CASE j = Len(out)
      <4>1. h[j] = l + n + 1 /\ g[i + d] \in 1..(l + n)
        BY <3>1, <3>2
      <4>2. QED
        BY <1>1, <3>1, <4>1
    <3>3. CASE j # Len(out)
      <4>1. h[j] = g[j + d] /\ j + d \in 1..Len(v) /\ i + d < j + d
        BY <1>1, <1>2, <2>2, <2>4, <3>3
      <4>2. QED
        BY <2>1, <3>1, <4>1
    <3>4. QED
      BY <3>2, <3>3
  <2>5. ASSUME NEW i \in 1..Len(out)
        PROVE  out[i] = IF h[i] <= l THEN log[h[i]] ELSE Trimmed(rows[h[i] - l])
    <3>1. CASE i = Len(out)
      <4>1. h[i] = l + n + 1 /\ ~(l + n + 1 <= l) /\ (l + n + 1) - l = n + 1
        BY <1>1, <3>1
      <4>2. out[i] = Trimmed(rows[n + 1])
        BY <1>2, <3>1
      <4>3. QED
        BY <4>1, <4>2
    <3>2. CASE i # Len(out)
      <4>1. h[i] = g[i + d] /\ i + d \in 1..Len(v) /\ out[i] = v[i + d]
        BY <1>2, <2>2, <3>2
      <4>2. QED
        BY <2>1, <4>1
    <3>3. QED
      BY <3>1, <3>2
  <2> HIDE DEF h
  <2>6. QED
    BY <2>3, <2>4, <2>5 DEF Gathered, l
<1>4. Entered(out, log, max)
  <2>1. PICK k \in 0..l : /\ k <= Len(v)
                          /\ \A i \in 1..k : v[i] = log[l - k + i]
                          /\ k < l => Len(v) = max
    BY DEF Entered
  <2> DEFINE m == IF k < d THEN 0 ELSE k - d
  <2>2. m \in 0..l /\ m <= Len(out)
    BY <1>1, <1>2, <2>1
  <2>0. /\ m \in Int /\ k \in Int /\ d \in Int /\ 0 <= d /\ 0 <= k /\ d <= Len(v)
        /\ m = 0 \/ m = k - d
    BY <1>1, <1>2, <2>1
  <2> HIDE DEF m, l
  <2>3. \A i \in 1..m : out[i] = log[l - m + i]
    <3> SUFFICES ASSUME NEW i \in 1..m
                 PROVE  out[i] = log[l - m + i]
      OBVIOUS
    <3>0. i \in Int /\ 1 <= i /\ i <= m
      BY <2>0
    <3>1. m = k - d /\ i + d \in 1..k /\ i \in 1..(Len(v) - d)
      BY <1>1, <2>0, <2>1, <3>0
    <3>2. l - m + i = l - k + (i + d)
      BY <1>1, <2>0, <3>0, <3>1
    <3>3. out[i] = v[i + d] /\ v[i + d] = log[l - k + (i + d)]
      BY <1>2, <2>1, <3>1
    <3>4. QED
      BY <3>2, <3>3
  <2>4. m < l => Len(out) = max
    <3>1. d = 0 => m = k
      BY <2>0, <2>1 DEF m
    <3>2. QED
      BY <1>1, <1>2, <2>0, <2>1, <3>1
  <2>5. QED
    BY <2>2, <2>3, <2>4 DEF Entered, l
<1>5. QED
  BY <1>2, <1>3, <1>4 DEF out

\* A row that is passed over.
LEMMA SkipGathers ==
  ASSUME NEW log, NEW rows, NEW n \in Nat, Len(log) \in Nat,
         NEW v, Gathered(v, log, rows, n)
  PROVE  Gathered(v, log, rows, n + 1)
<1>1. PICK g \in [1..Len(v) -> 1..(Len(log) + n)] :
        /\ \A i, j \in 1..Len(v) : i < j => g[i] < g[j]
        /\ \A i \in 1..Len(v) :
             v[i] = IF g[i] <= Len(log) THEN log[g[i]] ELSE Trimmed(rows[g[i] - Len(log)])
  BY DEF Gathered
<1>2. g \in [1..Len(v) -> 1..(Len(log) + (n + 1))]
  OBVIOUS
<1>3. QED
  BY <1>1, <1>2 DEF Gathered

\* Rows that are pushed one after another enter a scrollback at its end, in
\* their order; only a full scrollback loses lines, and only its oldest ones.
LEMMA PushRowsGathers ==
  ASSUME NEW w \in Nat, NEW V, NEW max \in Nat \ {0}, NEW empty,
         NEW log, GoodLog(log, V, max), NEW rows \in Seq([0..(w - 1) -> V])
  PROVE  LET out == PushRows(log, rows, empty, max)
         IN  /\ GoodLog(out, V, max)
             /\ Gathered(out, log, rows, Len(rows))
             /\ Entered(out, log, max)
<1> DEFINE n == Len(rows)
           Good(v, i) == GoodLog(v, V, max) /\ Gathered(v, log, rows, i) /\ Entered(v, log, max)
<1>1. n \in Nat /\ log \in Seq(Seq(V)) /\ Len(log) \in Nat
  BY LenProperties DEF GoodLog
<1>2. PICK f : /\ Pushing(f, log, rows, empty, max)
               /\ PushRows(log, rows, empty, max) = f[n]
  BY <1>1, PushRowsIs
<1> DEFINE S == {i \in Nat : i <= n => Good(f[i], i)}
<1>3. 0 \in S
  <2>1. f[0] = log
    BY <1>1, <1>2 DEF Pushing
  <2>2. Gathered(log, log, rows, 0)
    <3> DEFINE g == [i \in 1..Len(log) |-> i]
    <3>1. g \in [1..Len(log) -> 1..(Len(log) + 0)]
      BY <1>1
    <3>2. /\ \A i, j \in 1..Len(log) : i < j => g[i] < g[j]
          /\ \A i \in 1..Len(log) :
               log[i] = IF g[i] <= Len(log) THEN log[g[i]] ELSE Trimmed(rows[g[i] - Len(log)])
      BY <1>1
    <3> HIDE DEF g
    <3>3. QED
      BY <3>1, <3>2 DEF Gathered
  <2>3. Entered(log, log, max)
    <3>1. Len(log) \in 0..Len(log) /\ \A i \in 1..Len(log) : Len(log) - Len(log) + i = i
      BY <1>1
    <3>2. QED
      BY <3>1 DEF Entered
  <2>4. QED
    BY <2>1, <2>2, <2>3
<1>4. ASSUME NEW i \in Nat, i \in S
      PROVE  i + 1 \in S
  <2> SUFFICES ASSUME i + 1 <= n
               PROVE  Good(f[i + 1], i + 1)
    BY <1>1
  <2>1. Good(f[i], i)
    BY <1>1, <1>4
  <2>2. i + 1 \in 0..n /\ i + 1 # 0 /\ (i + 1) - 1 = i /\ i + 1 \in 1..n
    BY <1>1
  <2>3. f[i + 1] = IF LineEmpty(rows[i + 1]) /\ ~empty THEN f[i] ELSE Push(f[i], rows[i + 1], max)
    BY <1>2, <2>2 DEF Pushing
  <2>4. rows[i + 1] \in [0..(w - 1) -> V]
    BY <2>2, ElementOfSeq
  <2>5. CASE LineEmpty(rows[i + 1]) /\ ~empty
    <3>1. Gathered(f[i], log, rows, i + 1)
      BY <1>1, <2>1, SkipGathers
    <3>2. QED
      BY <2>1, <2>3, <2>5, <3>1
  <2>6. CASE ~(LineEmpty(rows[i + 1]) /\ ~empty)
    <3>1. Good(Push(f[i], rows[i + 1], max), i + 1)
      BY <1>1, <2>1, <2>4, PushGathers
    <3>2. QED
      BY <2>3, <2>6, <3>1
  <2>7. QED
    BY <2>5, <2>6
<1>5. \A i \in Nat : i \in S
  <2> HIDE DEF S
  <2>1. QED
    BY <1>3, <1>4, NatSetInduction
<1>6. Good(f[n], n)
  BY <1>1, <1>5
<1>7. QED
  BY <1>2, <1>6

-----------------------------------------------------------------------------
(* Where written cells come from *)

\* The places of a screen that do not hold blank cells, and those of its rows.
OnScreen(sz) == [x : Columns(sz), y : Rows(sz)]
Filled(sz, log, b) == {p \in Places(sz, log) : Cell(b, log, p) # Blank}
FilledRows(sz, b) == {p \in OnScreen(sz) : b[p.y][p.x] # Blank}

\* Every written cell of a screen and its scrollback was there before, no two
\* of them were the same cell, and they are in order if the screen is whole.
Moves(sz2, log2, b2, sz, log, b, whole) ==
  \E f \in [Filled(sz2, log2, b2) -> Places(sz, log)] :
    /\ \A p \in Filled(sz2, log2, b2) : Cell(b, log, f[p]) = Cell(b2, log2, p)
    /\ \A p, q \in Filled(sz2, log2, b2) : p # q => f[p] # f[q]
    /\ whole => \A p, q \in Filled(sz2, log2, b2) : Before(p, q) => Before(f[p], f[q])

\* The same of the rows of a screen alone: g tells where a cell was.
CellsFrom(g, sz2, b2, sz, b, whole) ==
  /\ g \in [FilledRows(sz2, b2) -> OnScreen(sz)]
  /\ \A p \in FilledRows(sz2, b2) : b[g[p].y][g[p].x] = b2[p.y][p.x]
  /\ \A p, q \in FilledRows(sz2, b2) : p # q => g[p] # g[q]
  /\ whole => \A p, q \in FilledRows(sz2, b2) : Before(p, q) => Before(g[p], g[q])

\* Every line of a scrollback begins a row that was there before: h tells which.
LinesFrom(h, log2, sz, log, b) ==
  /\ h \in [1..Len(log2) -> (-Len(log))..(sz.h - 1)]
  /\ \A i, j \in 1..Len(log2) : i < j => h[i] < h[j]
  /\ \A i \in 1..Len(log2) :
       /\ Len(log2[i]) <= RowLength(sz, log, h[i])
       /\ \A x \in 0..(Len(log2[i]) - 1) : log2[i][x + 1] = Cell(b, log, Pos(x, h[i]))

\* What a place is.
LEMMA PlaceIs ==
  ASSUME NEW sz, NEW log, NEW p
  PROVE  p \in Places(sz, log) <=>
           /\ p = Pos(p.x, p.y)
           /\ p.y \in (-Len(log))..(sz.h - 1)
           /\ p.x \in 0..(RowLength(sz, log, p.y) - 1)
BY DEF Places, Pos

\* Rows that keep their cells apart from the scrollback make a whole.
LEMMA Joined ==
  ASSUME NEW sz, NEW sz2, sz.h \in Nat, sz.w \in Nat, sz2.h \in Nat, sz2.w \in Nat,
         NEW V, NEW log \in Seq(Seq(V)), NEW log2 \in Seq(Seq(V)), NEW b, NEW b2,
         NEW whole, NEW g, CellsFrom(g, sz2, b2, sz, b, whole),
         NEW h, LinesFrom(h, log2, sz, log, b),
         \A i \in 1..Len(log2), p \in FilledRows(sz2, b2) :
           h[i] # g[p].y /\ (whole => h[i] < g[p].y)
  PROVE  Moves(sz2, log2, b2, sz, log, b, whole)
<1> DEFINE l == Len(log2)
           f == [p \in Filled(sz2, log2, b2) |->
                   IF p.y >= 0 THEN g[p] ELSE Pos(p.x, h[l + 1 + p.y])]
<1>1. l \in Nat /\ Len(log) \in Nat /\ \A i \in 1..l : Len(log2[i]) \in Nat
  <2>1. \A i \in 1..l : log2[i] \in Seq(V)
    BY ElementOfSeq
  <2>2. QED
    BY <2>1, LenProperties
<1>2. ASSUME NEW p \in Filled(sz2, log2, b2), p.y >= 0
      PROVE  /\ p \in FilledRows(sz2, b2)
             /\ f[p] = g[p] /\ g[p] \in OnScreen(sz)
             /\ g[p].y \in 0..(sz.h - 1) /\ g[p].x \in 0..(sz.w - 1)
             /\ g[p] = Pos(g[p].x, g[p].y)
             /\ p.y \in Int /\ p.x \in Int
             /\ f[p] \in Places(sz, log)
             /\ Cell(b, log, f[p]) = Cell(b2, log2, p)
             /\ p = Pos(p.x, p.y)
  <2>1. /\ p = Pos(p.x, p.y) /\ p.y \in (-Len(log2))..(sz2.h - 1)
        /\ p.x \in 0..(RowLength(sz2, log2, p.y) - 1)
        /\ Cell(b2, log2, p) # Blank
    BY PlaceIs DEF Filled
  <2>2. p.x \in 0..(sz2.w - 1) /\ p.y \in 0..(sz2.h - 1) /\ Cell(b2, log2, p) = b2[p.y][p.x]
    BY <1>1, <1>2, <2>1 DEF RowLength, Cell
  <2>3. p \in OnScreen(sz2)
    BY <2>1, <2>2 DEF OnScreen, Pos, Rows, Columns
  <2>4. p \in FilledRows(sz2, b2)
    BY <2>1, <2>2, <2>3 DEF FilledRows
  <2>5. f[p] = g[p]
    BY <1>2
  <2> HIDE DEF f
  <2>6. g[p] \in OnScreen(sz) /\ b[g[p].y][g[p].x] = b2[p.y][p.x]
    BY <2>4 DEF CellsFrom
  <2>7. /\ g[p].y \in 0..(sz.h - 1) /\ g[p].x \in 0..(sz.w - 1)
        /\ g[p] = Pos(g[p].x, g[p].y)
    BY <2>6 DEF OnScreen, Pos, Rows, Columns
  <2>8. RowLength(sz, log, g[p].y) = sz.w /\ g[p].y >= 0 /\ g[p].y \in (-Len(log))..(sz.h - 1)
    BY <1>1, <2>7 DEF RowLength
  <2>9. g[p] \in Places(sz, log)
    BY <2>7, <2>8, PlaceIs
  <2>10. Cell(b, log, g[p]) = b[g[p].y][g[p].x]
    BY <2>8 DEF Cell
  <2>11. p.y \in Int /\ p.x \in Int
    BY <2>2
  <2>12. QED
    BY <2>1, <2>2, <2>4, <2>5, <2>6, <2>7, <2>9, <2>10, <2>11
<1>3. ASSUME NEW p \in Filled(sz2, log2, b2), ~(p.y >= 0)
      PROVE  /\ l + 1 + p.y \in 1..l
             /\ p = Pos(p.x, p.y) /\ p.y \in Int /\ p.x \in Int
             /\ f[p].x = p.x /\ f[p].y = h[l + 1 + p.y]
             /\ h[l + 1 + p.y] \in Int
             /\ f[p] \in Places(sz, log)
             /\ Cell(b, log, f[p]) = Cell(b2, log2, p)
  <2>1. /\ p = Pos(p.x, p.y) /\ p.y \in (-Len(log2))..(sz2.h - 1)
        /\ p.x \in 0..(RowLength(sz2, log2, p.y) - 1)
    BY PlaceIs DEF Filled
  <2>2. /\ l + 1 + p.y \in 1..l
        /\ p.y \in Int
    BY <1>1, <1>3, <2>1
  <2>3. /\ p.x \in 0..(Len(log2[l + 1 + p.y]) - 1)
        /\ Cell(b2, log2, p) = log2[l + 1 + p.y][p.x + 1]
    BY <1>3, <2>1, <2>2 DEF RowLength, Cell
  <2>4. f[p] = Pos(p.x, h[l + 1 + p.y])
    BY <1>3
  <2> DEFINE i == l + 1 + p.y
  <2>5. i \in 1..Len(log2) /\ p.x \in 0..(Len(log2[i]) - 1) /\ Len(log2[i]) \in Nat
    BY <1>1, <2>2, <2>3
  <2> HIDE DEF i, f, l
  <2>6. /\ h[i] \in (-Len(log))..(sz.h - 1)
        /\ Len(log2[i]) <= RowLength(sz, log, h[i])
        /\ log2[i][p.x + 1] = Cell(b, log, Pos(p.x, h[i]))
    BY <2>5 DEF LinesFrom
  <2>7. RowLength(sz, log, h[i]) \in Int
    <3>1. CASE h[i] >= 0
      BY <3>1 DEF RowLength
    <3>2. CASE ~(h[i] >= 0)
      <4>1. Len(log) + 1 + h[i] \in 1..Len(log)
        <5>1. h[i] \in Int /\ -Len(log) <= h[i] /\ h[i] < 0
          BY <1>1, <2>6, <3>2
        <5>2. QED
          BY <1>1, <5>1
      <4>2. log[Len(log) + 1 + h[i]] \in Seq(V)
        BY <4>1, ElementOfSeq
      <4>3. QED
        BY <3>2, <4>2, LenProperties DEF RowLength
    <3>3. QED
      BY <3>1, <3>2
  <2>8. p.x \in 0..(RowLength(sz, log, h[i]) - 1) /\ p.x \in Int
    BY <2>5, <2>6, <2>7
  <2>9. Pos(p.x, h[i]).x = p.x /\ Pos(p.x, h[i]).y = h[i]
    BY DEF Pos
  <2>10. Pos(p.x, h[i]) \in Places(sz, log)
    BY <2>6, <2>8, <2>9, PlaceIs
  <2>11. h[i] \in Int
    BY <1>1, <2>6
  <2>12. QED
    BY <2>1, <2>2, <2>3, <2>4, <2>6, <2>9, <2>10, <2>11 DEF i
<1> HIDE DEF f, l
<1>4. f \in [Filled(sz2, log2, b2) -> Places(sz, log)]
  BY <1>2, <1>3 DEF f
<1>5. \A p \in Filled(sz2, log2, b2) : Cell(b, log, f[p]) = Cell(b2, log2, p)
  BY <1>2, <1>3
<1>6. ASSUME NEW p \in Filled(sz2, log2, b2), NEW q \in Filled(sz2, log2, b2)
      PROVE  /\ p.x \in Int /\ p.y \in Int /\ q.x \in Int /\ q.y \in Int
             /\ p # q => p.x # q.x \/ p.y < q.y \/ q.y < p.y
  <2>1. /\ p.x \in Int /\ p.y \in Int /\ p = Pos(p.x, p.y)
        /\ q.x \in Int /\ q.y \in Int /\ q = Pos(q.x, q.y)
    BY <1>2, <1>3
  <2>2. p # q => p.x # q.x \/ p.y # q.y
    BY <2>1
  <2>3. QED
    BY <2>1, <2>2
<1>7. ASSUME NEW p \in Filled(sz2, log2, b2), NEW q \in Filled(sz2, log2, b2),
             p.y >= 0, q.y >= 0
      PROVE  /\ p # q => f[p] # f[q]
             /\ whole /\ Before(p, q) => Before(f[p], f[q])
  <2>1. /\ p \in FilledRows(sz2, b2) /\ f[p] = g[p]
        /\ q \in FilledRows(sz2, b2) /\ f[q] = g[q]
    BY <1>2, <1>7
  <2>2. QED
    BY <2>1 DEF CellsFrom
<1>8. ASSUME NEW p \in Filled(sz2, log2, b2), NEW q \in Filled(sz2, log2, b2),
             ~(p.y >= 0), q.y >= 0
      PROVE  f[p] # f[q] /\ (whole => Before(f[p], f[q]))
  <2>1. f[p].y = h[l + 1 + p.y] /\ l + 1 + p.y \in 1..l
    BY <1>3, <1>8
  <2>2. f[q] = g[q] /\ q \in FilledRows(sz2, b2)
    BY <1>2, <1>8
  <2>3. h[l + 1 + p.y] # g[q].y /\ (whole => h[l + 1 + p.y] < g[q].y)
    BY <2>1, <2>2 DEF l
  <2>4. f[p].y # f[q].y /\ (whole => f[p].y < f[q].y)
    BY <2>1, <2>2, <2>3
  <2>5. QED
    BY <2>4 DEF Before
<1>9. ASSUME NEW p \in Filled(sz2, log2, b2), NEW q \in Filled(sz2, log2, b2),
             ~(p.y >= 0), ~(q.y >= 0), p.y < q.y
      PROVE  f[p].y < f[q].y
  <2>1. /\ f[p].y = h[l + 1 + p.y] /\ l + 1 + p.y \in 1..l
        /\ f[q].y = h[l + 1 + q.y] /\ l + 1 + q.y \in 1..l
    BY <1>3, <1>9
  <2>2. p.y \in Int /\ q.y \in Int
    BY <1>6
  <2>3. l + 1 + p.y < l + 1 + q.y
    BY <1>1, <1>9, <2>2
  <2> DEFINE i == l + 1 + p.y
             j == l + 1 + q.y
  <2>4. i \in 1..Len(log2) /\ j \in 1..Len(log2) /\ i < j
    BY <2>1, <2>3 DEF l
  <2> HIDE DEF i, j
  <2>5. h[i] < h[j]
    BY <2>4 DEF LinesFrom
  <2>6. QED
    BY <2>1, <2>5 DEF i, j
<1>10. ASSUME NEW p \in Filled(sz2, log2, b2), ~(p.y >= 0)
       PROVE  f[p].x = p.x /\ f[p].y \in Int
  BY <1>3, <1>10
<1>11. ASSUME NEW p \in Filled(sz2, log2, b2), NEW q \in Filled(sz2, log2, b2), p # q
       PROVE  f[p] # f[q]
  <2>1. CASE p.y >= 0 /\ q.y >= 0
    BY <1>7, <1>11, <2>1
  <2>2. CASE p.y >= 0 /\ ~(q.y >= 0)
    BY <1>8, <2>2
  <2>3. CASE ~(p.y >= 0) /\ q.y >= 0
    BY <1>8, <2>3
  <2>4. CASE ~(p.y >= 0) /\ ~(q.y >= 0)
    <3>1. f[p].x = p.x /\ f[q].x = q.x /\ f[p].y \in Int /\ f[q].y \in Int
      BY <1>10, <2>4
    <3>2. p.x # q.x \/ p.y < q.y \/ q.y < p.y
      BY <1>6, <1>11
    <3>3. (p.y < q.y => f[p].y < f[q].y) /\ (q.y < p.y => f[q].y < f[p].y)
      BY <1>9, <2>4
    <3>4. f[p].x # f[q].x \/ f[p].y # f[q].y
      BY <3>1, <3>2, <3>3
    <3>5. QED
      BY <3>4
  <2>5. QED
    BY <2>1, <2>2, <2>3, <2>4
<1>12. ASSUME whole, NEW p \in Filled(sz2, log2, b2), NEW q \in Filled(sz2, log2, b2), Before(p, q)
       PROVE  Before(f[p], f[q])
  <2>1. CASE p.y >= 0 /\ q.y >= 0
    BY <1>7, <1>12, <2>1
  <2>2. CASE p.y >= 0 /\ ~(q.y >= 0)
    BY <1>6, <1>12, <2>2 DEF Before
  <2>3. CASE ~(p.y >= 0) /\ q.y >= 0
    BY <1>8, <1>12, <2>3
  <2>4. CASE ~(p.y >= 0) /\ ~(q.y >= 0)
    <3>1. CASE p.y < q.y
      BY <1>9, <2>4, <3>1 DEF Before
    <3>2. CASE p.y = q.y /\ p.x < q.x
      <4>1. /\ f[p].y = h[l + 1 + p.y] /\ f[q].y = h[l + 1 + q.y]
            /\ f[p].x = p.x /\ f[q].x = q.x
        BY <1>3, <2>4
      <4>2. QED
        BY <3>2, <4>1 DEF Before
    <3>3. QED
      BY <1>12, <3>1, <3>2 DEF Before
  <2>5. QED
    BY <2>1, <2>2, <2>3, <2>4
<1>13. QED
  BY <1>4, <1>5, <1>11, <1>12 DEF Moves

-----------------------------------------------------------------------------
(* What each operation of the buffer does to cells *)

ScreenSize == [w : Nat \ {0}, h : Nat \ {0}]
Buffers(sz, V) == [Rows(sz) -> [Columns(sz) -> V]]

\* The regions that lie on a screen.
Regions(sz) ==
  {r \in [left : Nat, top : Nat, right : Nat, bottom : Nat] :
     r.left < r.right /\ r.right <= sz.w /\ r.top < r.bottom /\ r.bottom <= sz.h}

\* A region of every column that begins in the top row.
Whole(r, sz) == r.left = 0 /\ r.right = sz.w /\ r.top = 0

\* What a place on the screen is.
LEMMA OnScreenIs ==
  ASSUME NEW sz, NEW p
  PROVE  p \in OnScreen(sz) <=>
           p = Pos(p.x, p.y) /\ p.x \in 0..(sz.w - 1) /\ p.y \in 0..(sz.h - 1)
BY DEF OnScreen, Pos, Rows, Columns

\* Cells that are where they were.
LEMMA CellsStay ==
  ASSUME NEW sz, NEW sz2, NEW b, NEW b2, NEW whole,
         \A p \in FilledRows(sz2, b2) : p \in OnScreen(sz) /\ b[p.y][p.x] = b2[p.y][p.x]
  PROVE  \E g : CellsFrom(g, sz2, b2, sz, b, whole)
<1> DEFINE g == [p \in FilledRows(sz2, b2) |-> p]
<1>1. \A p \in FilledRows(sz2, b2) : g[p] = p
  OBVIOUS
<1>2. g \in [FilledRows(sz2, b2) -> OnScreen(sz)]
  OBVIOUS
<1> HIDE DEF g
<1>3. CellsFrom(g, sz2, b2, sz, b, whole)
  BY <1>1, <1>2 DEF CellsFrom
<1>4. QED
  BY <1>3

\* Inserted lines push the lines below them down.
LEMMA LinesInsertedFrom ==
  ASSUME NEW sz \in ScreenSize, NEW V, NEW b \in Buffers(sz, V), NEW r \in Regions(sz),
         NEW y \in r.top..(r.bottom - 1), NEW n \in Nat \ {0}
  PROVE  \E g : CellsFrom(g, sz, LinesInserted(b, r, y, n), sz, b, Whole(r, sz))
<1> DEFINE b2 == LinesInserted(b, r, y, n)
           Shifts(p) == In(p, r) /\ y <= p.y
           g == [p \in FilledRows(sz, b2) |-> IF Shifts(p) THEN Pos(p.x, p.y - n) ELSE p]
<1>1. /\ r.left \in Int /\ r.right \in Int /\ r.top \in Int /\ r.bottom \in Int /\ y \in Int
      /\ 0 <= r.left /\ r.right <= sz.w /\ 0 <= r.top /\ r.bottom <= sz.h
      /\ r.top <= y /\ y < r.bottom /\ n \in Int /\ n > 0
      /\ sz.w \in Int /\ sz.h \in Int
  BY DEF Regions, ScreenSize
<1>2. ASSUME NEW p \in FilledRows(sz, b2)
      PROVE  /\ p = Pos(p.x, p.y) /\ p.x \in 0..(sz.w - 1) /\ p.y \in 0..(sz.h - 1)
             /\ b2[p.y][p.x] = IF ~Shifts(p) THEN b[p.y][p.x]
                               ELSE IF p.y - n >= y THEN b[p.y - n][p.x] ELSE Blank
             /\ b2[p.y][p.x] # Blank
  <2>1. p = Pos(p.x, p.y) /\ p.x \in 0..(sz.w - 1) /\ p.y \in 0..(sz.h - 1)
    BY OnScreenIs DEF FilledRows
  <2>2. p.y \in DOMAIN b /\ p.x \in DOMAIN b[p.y]
    BY <2>1 DEF Buffers, Rows, Columns
  <2>3. b2[p.y][p.x] = IF ~In(p, r) \/ p.y < y THEN b[p.y][p.x]
                       ELSE IF p.y - n >= y THEN b[p.y - n][p.x] ELSE Blank
    BY <2>1, <2>2 DEF LinesInserted
  <2>4. p.y < y <=> ~(y <= p.y)
    BY <1>1, <2>1
  <2>5. b2[p.y][p.x] # Blank
    BY DEF FilledRows
  <2>6. QED
    BY <2>1, <2>3, <2>4, <2>5
<1> HIDE DEF b2
<1>3. ASSUME NEW p \in FilledRows(sz, b2)
      PROVE  /\ g[p] \in OnScreen(sz) /\ b[g[p].y][g[p].x] = b2[p.y][p.x]
             /\ g[p].x = p.x /\ g[p].y = (IF Shifts(p) THEN p.y - n ELSE p.y)
             /\ Shifts(p) => p.y - n >= y
  <2>1. /\ g[p] = (IF Shifts(p) THEN Pos(p.x, p.y - n) ELSE p)
        /\ Shifts(p) => p.y - n >= y
    BY <1>2
  <2> HIDE DEF g
  <2>2. Pos(p.x, p.y - n).x = p.x /\ Pos(p.x, p.y - n).y = p.y - n
    BY DEF Pos
  <2>3. CASE Shifts(p)
    <3>1. g[p] = Pos(g[p].x, g[p].y) /\ g[p].x = p.x /\ g[p].y = p.y - n
      BY <2>1, <2>2, <2>3
    <3>2. p.y - n \in 0..(sz.h - 1)
      BY <1>1, <1>2, <2>1, <2>3
    <3>3. g[p] \in OnScreen(sz)
      BY <1>2, <3>1, <3>2, OnScreenIs
    <3>4. QED
      BY <1>2, <2>1, <2>3, <3>1, <3>3
  <2>4. CASE ~Shifts(p)
    BY <1>2, <2>1, <2>4 DEF FilledRows
  <2>5. QED
    BY <2>3, <2>4
<1>4. g \in [FilledRows(sz, b2) -> OnScreen(sz)]
  BY <1>3
<1> HIDE DEF g
<1>5. ASSUME NEW p \in FilledRows(sz, b2), NEW q \in FilledRows(sz, b2), p # q
      PROVE  g[p] # g[q]
  <2> SUFFICES ASSUME p.x = q.x
               PROVE  g[p].y # g[q].y
    BY <1>3
  <2>1. p.y # q.y
    BY <1>2, <1>5
  <2>2. ASSUME Shifts(p), ~Shifts(q)
        PROVE  p.y - n # q.y
    BY <1>1, <1>2, <1>3, <2>2 DEF In
  <2>3. ASSUME Shifts(q), ~Shifts(p)
        PROVE  q.y - n # p.y
    BY <1>1, <1>2, <1>3, <2>3 DEF In
  <2>4. p.y \in Int /\ q.y \in Int
    BY <1>2
  <2> HIDE DEF Shifts
  <2>5. QED
    BY <1>1, <1>3, <2>1, <2>2, <2>3, <2>4
<1>6. ASSUME Whole(r, sz), NEW p \in FilledRows(sz, b2), NEW q \in FilledRows(sz, b2),
             Before(p, q)
      PROVE  Before(g[p], g[q])
  <2>1. /\ p.x \in 0..(sz.w - 1) /\ p.y \in 0..(sz.h - 1)
        /\ q.x \in 0..(sz.w - 1) /\ q.y \in 0..(sz.h - 1)
    BY <1>2
  <2>2. /\ Shifts(p) <=> y <= p.y /\ p.y < r.bottom
        /\ Shifts(q) <=> y <= q.y /\ q.y < r.bottom
    BY <1>1, <1>6, <2>1 DEF In, Whole
  <2>3. /\ g[p].x = p.x /\ g[p].y = (IF Shifts(p) THEN p.y - n ELSE p.y)
        /\ g[q].x = q.x /\ g[q].y = (IF Shifts(q) THEN q.y - n ELSE q.y)
        /\ Shifts(p) => p.y - n >= y
        /\ Shifts(q) => q.y - n >= y
    BY <1>3
  <2> HIDE DEF Shifts
  <2>4. QED
    BY <1>1, <1>6, <2>1, <2>2, <2>3 DEF Before
<1>7. CellsFrom(g, sz, b2, sz, b, Whole(r, sz))
  BY <1>3, <1>4, <1>5, <1>6 DEF CellsFrom
<1>8. QED
  BY <1>7 DEF b2

\* Nothing comes from rows y to y + n - 1 of the region.
Skips(g, places, r, y, n) ==
  \A p \in places :
    In(Pos(g[p].x, g[p].y), r) => g[p].y < y \/ g[p].y >= y + n

\* Deleted lines let the lines below them move up; nothing comes from the lines
\* that are deleted.
LEMMA LinesDeletedFrom ==
  ASSUME NEW sz \in ScreenSize, NEW V, NEW b \in Buffers(sz, V), NEW r \in Regions(sz),
         NEW y \in r.top..(r.bottom - 1), NEW n \in Nat \ {0}
  PROVE  \E g : /\ CellsFrom(g, sz, LinesDeleted(b, r, y, n), sz, b, Whole(r, sz))
                /\ Skips(g, FilledRows(sz, LinesDeleted(b, r, y, n)), r, y, n)
<1> DEFINE b2 == LinesDeleted(b, r, y, n)
           Shifts(p) == In(p, r) /\ y <= p.y
           g == [p \in FilledRows(sz, b2) |-> IF Shifts(p) THEN Pos(p.x, p.y + n) ELSE p]
<1>1. /\ r.left \in Int /\ r.right \in Int /\ r.top \in Int /\ r.bottom \in Int /\ y \in Int
      /\ 0 <= r.left /\ r.right <= sz.w /\ 0 <= r.top /\ r.bottom <= sz.h
      /\ r.top <= y /\ y < r.bottom /\ n \in Int /\ n > 0
      /\ sz.w \in Int /\ sz.h \in Int
  BY DEF Regions, ScreenSize
<1>2. ASSUME NEW p \in FilledRows(sz, b2)
      PROVE  /\ p = Pos(p.x, p.y) /\ p.x \in 0..(sz.w - 1) /\ p.y \in 0..(sz.h - 1)
             /\ b2[p.y][p.x] = IF ~Shifts(p) THEN b[p.y][p.x]
                               ELSE IF p.y + n < r.bottom THEN b[p.y + n][p.x] ELSE Blank
             /\ b2[p.y][p.x] # Blank
  <2>1. p = Pos(p.x, p.y) /\ p.x \in 0..(sz.w - 1) /\ p.y \in 0..(sz.h - 1)
    BY OnScreenIs DEF FilledRows
  <2>2. p.y \in DOMAIN b /\ p.x \in DOMAIN b[p.y]
    BY <2>1 DEF Buffers, Rows, Columns
  <2>3. b2[p.y][p.x] = IF ~In(p, r) \/ p.y < y THEN b[p.y][p.x]
                       ELSE IF p.y + n < r.bottom THEN b[p.y + n][p.x] ELSE Blank
    BY <2>1, <2>2 DEF LinesDeleted
  <2>4. p.y < y <=> ~(y <= p.y)
    BY <1>1, <2>1
  <2>5. b2[p.y][p.x] # Blank
    BY DEF FilledRows
  <2>6. QED
    BY <2>1, <2>3, <2>4, <2>5
<1> HIDE DEF b2
<1>3. ASSUME NEW p \in FilledRows(sz, b2)
      PROVE  /\ g[p] \in OnScreen(sz) /\ b[g[p].y][g[p].x] = b2[p.y][p.x]
             /\ g[p].x = p.x /\ g[p].y = (IF Shifts(p) THEN p.y + n ELSE p.y)
             /\ Shifts(p) => p.y + n < r.bottom
  <2>1. /\ g[p] = (IF Shifts(p) THEN Pos(p.x, p.y + n) ELSE p)
        /\ Shifts(p) => p.y + n < r.bottom
    BY <1>2
  <2> HIDE DEF g
  <2>2. Pos(p.x, p.y + n).x = p.x /\ Pos(p.x, p.y + n).y = p.y + n
    BY DEF Pos
  <2>3. CASE Shifts(p)
    <3>1. g[p] = Pos(g[p].x, g[p].y) /\ g[p].x = p.x /\ g[p].y = p.y + n
      BY <2>1, <2>2, <2>3
    <3>2. p.y + n \in 0..(sz.h - 1)
      BY <1>1, <1>2, <2>1, <2>3
    <3>3. g[p] \in OnScreen(sz)
      BY <1>2, <3>1, <3>2, OnScreenIs
    <3>4. QED
      BY <1>2, <2>1, <2>3, <3>1, <3>3
  <2>4. CASE ~Shifts(p)
    BY <1>2, <2>1, <2>4 DEF FilledRows
  <2>5. QED
    BY <2>3, <2>4
<1>4. g \in [FilledRows(sz, b2) -> OnScreen(sz)]
  BY <1>3
<1> HIDE DEF g
<1>5. ASSUME NEW p \in FilledRows(sz, b2), NEW q \in FilledRows(sz, b2), p # q
      PROVE  g[p] # g[q]
  <2> SUFFICES ASSUME p.x = q.x
               PROVE  g[p].y # g[q].y
    BY <1>3
  <2>1. p.y # q.y
    BY <1>2, <1>5
  <2>2. ASSUME Shifts(p), ~Shifts(q)
        PROVE  p.y + n # q.y
    BY <1>1, <1>2, <1>3, <2>2 DEF In
  <2>3. ASSUME Shifts(q), ~Shifts(p)
        PROVE  q.y + n # p.y
    BY <1>1, <1>2, <1>3, <2>3 DEF In
  <2>4. p.y \in Int /\ q.y \in Int
    BY <1>2
  <2> HIDE DEF Shifts
  <2>5. QED
    BY <1>1, <1>3, <2>1, <2>2, <2>3, <2>4
<1>6. ASSUME Whole(r, sz), NEW p \in FilledRows(sz, b2), NEW q \in FilledRows(sz, b2),
             Before(p, q)
      PROVE  Before(g[p], g[q])
  <2>1. /\ p.x \in 0..(sz.w - 1) /\ p.y \in 0..(sz.h - 1)
        /\ q.x \in 0..(sz.w - 1) /\ q.y \in 0..(sz.h - 1)
    BY <1>2
  <2>2. /\ Shifts(p) <=> y <= p.y /\ p.y < r.bottom
        /\ Shifts(q) <=> y <= q.y /\ q.y < r.bottom
    BY <1>1, <1>6, <2>1 DEF In, Whole
  <2>3. /\ g[p].x = p.x /\ g[p].y = (IF Shifts(p) THEN p.y + n ELSE p.y)
        /\ g[q].x = q.x /\ g[q].y = (IF Shifts(q) THEN q.y + n ELSE q.y)
        /\ Shifts(p) => p.y + n < r.bottom
        /\ Shifts(q) => q.y + n < r.bottom
    BY <1>3
  <2> HIDE DEF Shifts
  <2>4. QED
    BY <1>1, <1>6, <2>1, <2>2, <2>3 DEF Before
<1>7. CellsFrom(g, sz, b2, sz, b, Whole(r, sz))
  BY <1>3, <1>4, <1>5, <1>6 DEF CellsFrom
<1>8. ASSUME NEW p \in FilledRows(sz, b2), In(Pos(g[p].x, g[p].y), r)
      PROVE  g[p].y < y \/ g[p].y >= y + n
  <2>1. p.x \in 0..(sz.w - 1) /\ p.y \in 0..(sz.h - 1)
    BY <1>2
  <2>2. CASE Shifts(p)
    BY <1>1, <1>3, <2>1, <2>2
  <2>3. CASE ~Shifts(p)
    <3>1. g[p].x = p.x /\ g[p].y = p.y
      BY <1>3, <2>3
    <3>2. r.left <= p.x /\ p.x < r.right /\ r.top <= p.y /\ p.y < r.bottom
      BY <1>8, <3>1 DEF In, Pos
    <3>3. p.y < y
      BY <1>1, <2>1, <2>3, <3>2 DEF In
    <3>4. QED
      BY <3>1, <3>3
  <2>4. QED
    BY <2>2, <2>3
<1>9. QED
  BY <1>7, <1>8 DEF b2, Skips

\* Inserted cells push the cells after them to the right.
LEMMA CellsInsertedFrom ==
  ASSUME NEW sz \in ScreenSize, NEW V, NEW b \in Buffers(sz, V), NEW r \in Regions(sz),
         NEW c \in OnScreen(sz), In(c, r), NEW n \in Nat \ {0}
  PROVE  \E g : CellsFrom(g, sz, CellsInserted(b, r, c, n), sz, b, Whole(r, sz))
<1> DEFINE b2 == CellsInserted(b, r, c, n)
           Shifts(p) == p.y = c.y /\ In(p, r) /\ c.x <= p.x
           g == [p \in FilledRows(sz, b2) |-> IF Shifts(p) THEN Pos(p.x - n, p.y) ELSE p]
<1>1. /\ r.left \in Int /\ r.right \in Int /\ c.x \in Int /\ c.y \in 0..(sz.h - 1)
      /\ 0 <= r.left /\ r.right <= sz.w /\ r.left <= c.x /\ c.x < r.right
      /\ n \in Int /\ n > 0 /\ sz.w \in Int /\ sz.h \in Int
  <2>1. c.x \in 0..(sz.w - 1) /\ c.y \in 0..(sz.h - 1)
    BY OnScreenIs
  <2>2. QED
    BY <2>1 DEF Regions, ScreenSize, In
<1>2. ASSUME NEW p \in FilledRows(sz, b2)
      PROVE  /\ p = Pos(p.x, p.y) /\ p.x \in 0..(sz.w - 1) /\ p.y \in 0..(sz.h - 1)
             /\ b2[p.y][p.x] = IF ~Shifts(p) THEN b[p.y][p.x]
                               ELSE IF p.x - n >= c.x THEN b[p.y][p.x - n] ELSE Blank
             /\ b2[p.y][p.x] # Blank
  <2>1. p = Pos(p.x, p.y) /\ p.x \in 0..(sz.w - 1) /\ p.y \in 0..(sz.h - 1)
    BY OnScreenIs DEF FilledRows
  <2>2. /\ p.y \in DOMAIN b /\ c.y \in DOMAIN b /\ DOMAIN b[c.y] = 0..(sz.w - 1)
        /\ b = [j \in DOMAIN b |-> b[j]]
    BY <1>1, <2>1 DEF Buffers, Rows, Columns
  <2>3. CASE p.y = c.y
    <3>1. b2[p.y][p.x] = IF ~In(Pos(p.x, c.y), r) \/ p.x < c.x THEN b[c.y][p.x]
                         ELSE IF p.x - n >= c.x THEN b[c.y][p.x - n] ELSE Blank
      BY <2>1, <2>2, <2>3 DEF CellsInserted
    <3>2. p.x < c.x <=> ~(c.x <= p.x)
      BY <1>1, <2>1
    <3>3. QED
      BY <2>1, <2>3, <3>1, <3>2 DEF FilledRows
  <2>4. CASE p.y # c.y
    <3>1. b2[p.y] = b[p.y]
      BY <2>2, <2>4 DEF CellsInserted
    <3>2. QED
      BY <2>1, <2>4, <3>1 DEF FilledRows
  <2>5. QED
    BY <2>3, <2>4
<1> HIDE DEF b2
<1>3. ASSUME NEW p \in FilledRows(sz, b2)
      PROVE  /\ g[p] \in OnScreen(sz) /\ b[g[p].y][g[p].x] = b2[p.y][p.x]
             /\ g[p].y = p.y /\ g[p].x = (IF Shifts(p) THEN p.x - n ELSE p.x)
             /\ Shifts(p) => p.x - n >= c.x
  <2>1. /\ g[p] = (IF Shifts(p) THEN Pos(p.x - n, p.y) ELSE p)
        /\ Shifts(p) => p.x - n >= c.x
    BY <1>2
  <2> HIDE DEF g
  <2>2. Pos(p.x - n, p.y).x = p.x - n /\ Pos(p.x - n, p.y).y = p.y
    BY DEF Pos
  <2>3. CASE Shifts(p)
    <3>1. g[p] = Pos(g[p].x, g[p].y) /\ g[p].x = p.x - n /\ g[p].y = p.y
      BY <2>1, <2>2, <2>3
    <3>2. p.x - n \in 0..(sz.w - 1)
      BY <1>1, <1>2, <2>1, <2>3
    <3>3. g[p] \in OnScreen(sz)
      BY <1>2, <3>1, <3>2, OnScreenIs
    <3>4. QED
      BY <1>2, <2>1, <2>3, <3>1, <3>3
  <2>4. CASE ~Shifts(p)
    BY <1>2, <2>1, <2>4 DEF FilledRows
  <2>5. QED
    BY <2>3, <2>4
<1>4. g \in [FilledRows(sz, b2) -> OnScreen(sz)]
  BY <1>3
<1> HIDE DEF g
<1>5. ASSUME NEW p \in FilledRows(sz, b2), NEW q \in FilledRows(sz, b2), p # q
      PROVE  g[p] # g[q]
  <2> SUFFICES ASSUME p.y = q.y
               PROVE  g[p].x # g[q].x
    BY <1>3
  <2>1. p.x # q.x
    BY <1>2, <1>5
  <2>2. ASSUME Shifts(p), ~Shifts(q)
        PROVE  p.x - n # q.x
    BY <1>1, <1>2, <1>3, <2>2 DEF In
  <2>3. ASSUME Shifts(q), ~Shifts(p)
        PROVE  q.x - n # p.x
    BY <1>1, <1>2, <1>3, <2>3 DEF In
  <2>4. p.x \in Int /\ q.x \in Int
    BY <1>2
  <2> HIDE DEF Shifts
  <2>5. QED
    BY <1>1, <1>3, <2>1, <2>2, <2>3, <2>4
<1>6. ASSUME Whole(r, sz), NEW p \in FilledRows(sz, b2), NEW q \in FilledRows(sz, b2),
             Before(p, q)
      PROVE  Before(g[p], g[q])
  <2>1. /\ p.x \in 0..(sz.w - 1) /\ p.y \in 0..(sz.h - 1)
        /\ q.x \in 0..(sz.w - 1) /\ q.y \in 0..(sz.h - 1)
    BY <1>2
  <2>2. CASE p.y < q.y
    BY <1>3, <2>1, <2>2 DEF Before
  <2>3. CASE p.y = q.y /\ p.x < q.x
    <3>1. /\ In(p, r) <=> In(q, r)
          /\ g[p].y = p.y /\ g[p].x = (IF Shifts(p) THEN p.x - n ELSE p.x)
          /\ g[q].y = q.y /\ g[q].x = (IF Shifts(q) THEN q.x - n ELSE q.x)
          /\ Shifts(p) => p.x - n >= c.x
          /\ Shifts(q) => q.x - n >= c.x
      BY <1>1, <1>3, <1>6, <2>1, <2>3 DEF In, Whole
    <3>2. (Shifts(p) => Shifts(q)) /\ (Shifts(q) /\ ~Shifts(p) => p.x < c.x)
      BY <1>1, <2>1, <2>3, <3>1
    <3> HIDE DEF Shifts
    <3>3. QED
      BY <1>1, <2>1, <2>3, <3>1, <3>2 DEF Before
  <2>4. QED
    BY <1>6, <2>2, <2>3 DEF Before
<1>7. CellsFrom(g, sz, b2, sz, b, Whole(r, sz))
  BY <1>3, <1>4, <1>5, <1>6 DEF CellsFrom
<1>8. QED
  BY <1>7 DEF b2

\* Deleted cells let the cells after them move to the left.
LEMMA CellsDeletedFrom ==
  ASSUME NEW sz \in ScreenSize, NEW V, NEW b \in Buffers(sz, V), NEW r \in Regions(sz),
         NEW c \in OnScreen(sz), In(c, r), NEW n \in Nat \ {0}
  PROVE  \E g : CellsFrom(g, sz, CellsDeleted(b, r, c, n), sz, b, Whole(r, sz))
<1> DEFINE b2 == CellsDeleted(b, r, c, n)
           Shifts(p) == p.y = c.y /\ In(p, r) /\ c.x <= p.x
           g == [p \in FilledRows(sz, b2) |-> IF Shifts(p) THEN Pos(p.x + n, p.y) ELSE p]
<1>1. /\ r.left \in Int /\ r.right \in Int /\ c.x \in Int /\ c.y \in 0..(sz.h - 1)
      /\ 0 <= r.left /\ r.right <= sz.w /\ r.left <= c.x /\ c.x < r.right
      /\ n \in Int /\ n > 0 /\ sz.w \in Int /\ sz.h \in Int
  <2>1. c.x \in 0..(sz.w - 1) /\ c.y \in 0..(sz.h - 1)
    BY OnScreenIs
  <2>2. QED
    BY <2>1 DEF Regions, ScreenSize, In
<1>2. ASSUME NEW p \in FilledRows(sz, b2)
      PROVE  /\ p = Pos(p.x, p.y) /\ p.x \in 0..(sz.w - 1) /\ p.y \in 0..(sz.h - 1)
             /\ b2[p.y][p.x] = IF ~Shifts(p) THEN b[p.y][p.x]
                               ELSE IF p.x + n < r.right THEN b[p.y][p.x + n] ELSE Blank
             /\ b2[p.y][p.x] # Blank
  <2>1. p = Pos(p.x, p.y) /\ p.x \in 0..(sz.w - 1) /\ p.y \in 0..(sz.h - 1)
    BY OnScreenIs DEF FilledRows
  <2>2. /\ p.y \in DOMAIN b /\ c.y \in DOMAIN b /\ DOMAIN b[c.y] = 0..(sz.w - 1)
        /\ b = [j \in DOMAIN b |-> b[j]]
    BY <1>1, <2>1 DEF Buffers, Rows, Columns
  <2>3. CASE p.y = c.y
    <3>1. b2[p.y][p.x] = IF ~In(Pos(p.x, c.y), r) \/ p.x < c.x THEN b[c.y][p.x]
                         ELSE IF p.x + n < r.right THEN b[c.y][p.x + n] ELSE Blank
      BY <2>1, <2>2, <2>3 DEF CellsDeleted
    <3>2. p.x < c.x <=> ~(c.x <= p.x)
      BY <1>1, <2>1
    <3>3. QED
      BY <2>1, <2>3, <3>1, <3>2 DEF FilledRows
  <2>4. CASE p.y # c.y
    <3>1. b2[p.y] = b[p.y]
      BY <2>2, <2>4 DEF CellsDeleted
    <3>2. QED
      BY <2>1, <2>4, <3>1 DEF FilledRows
  <2>5. QED
    BY <2>3, <2>4
<1> HIDE DEF b2
<1>3. ASSUME NEW p \in FilledRows(sz, b2)
      PROVE  /\ g[p] \in OnScreen(sz) /\ b[g[p].y][g[p].x] = b2[p.y][p.x]
             /\ g[p].y = p.y /\ g[p].x = (IF Shifts(p) THEN p.x + n ELSE p.x)
             /\ Shifts(p) => p.x + n < r.right
  <2>1. /\ g[p] = (IF Shifts(p) THEN Pos(p.x + n, p.y) ELSE p)
        /\ Shifts(p) => p.x + n < r.right
    BY <1>2
  <2> HIDE DEF g
  <2>2. Pos(p.x + n, p.y).x = p.x + n /\ Pos(p.x + n, p.y).y = p.y
    BY DEF Pos
  <2>3. CASE Shifts(p)
    <3>1. g[p] = Pos(g[p].x, g[p].y) /\ g[p].x = p.x + n /\ g[p].y = p.y
      BY <2>1, <2>2, <2>3
    <3>2. p.x + n \in 0..(sz.w - 1)
      BY <1>1, <1>2, <2>1, <2>3
    <3>3. g[p] \in OnScreen(sz)
      BY <1>2, <3>1, <3>2, OnScreenIs
    <3>4. QED
      BY <1>2, <2>1, <2>3, <3>1, <3>3
  <2>4. CASE ~Shifts(p)
    BY <1>2, <2>1, <2>4 DEF FilledRows
  <2>5. QED
    BY <2>3, <2>4
<1>4. g \in [FilledRows(sz, b2) -> OnScreen(sz)]
  BY <1>3
<1> HIDE DEF g
<1>5. ASSUME NEW p \in FilledRows(sz, b2), NEW q \in FilledRows(sz, b2), p # q
      PROVE  g[p] # g[q]
  <2> SUFFICES ASSUME p.y = q.y
               PROVE  g[p].x # g[q].x
    BY <1>3
  <2>1. p.x # q.x
    BY <1>2, <1>5
  <2>2. ASSUME Shifts(p), ~Shifts(q)
        PROVE  p.x + n # q.x
    BY <1>1, <1>2, <1>3, <2>2 DEF In
  <2>3. ASSUME Shifts(q), ~Shifts(p)
        PROVE  q.x + n # p.x
    BY <1>1, <1>2, <1>3, <2>3 DEF In
  <2>4. p.x \in Int /\ q.x \in Int
    BY <1>2
  <2> HIDE DEF Shifts
  <2>5. QED
    BY <1>1, <1>3, <2>1, <2>2, <2>3, <2>4
<1>6. ASSUME Whole(r, sz), NEW p \in FilledRows(sz, b2), NEW q \in FilledRows(sz, b2),
             Before(p, q)
      PROVE  Before(g[p], g[q])
  <2>1. /\ p.x \in 0..(sz.w - 1) /\ p.y \in 0..(sz.h - 1)
        /\ q.x \in 0..(sz.w - 1) /\ q.y \in 0..(sz.h - 1)
    BY <1>2
  <2>2. CASE p.y < q.y
    BY <1>3, <2>1, <2>2 DEF Before
  <2>3. CASE p.y = q.y /\ p.x < q.x
    <3>1. /\ In(p, r) <=> In(q, r)
          /\ g[p].y = p.y /\ g[p].x = (IF Shifts(p) THEN p.x + n ELSE p.x)
          /\ g[q].y = q.y /\ g[q].x = (IF Shifts(q) THEN q.x + n ELSE q.x)
          /\ Shifts(p) => p.x + n < r.right
          /\ Shifts(q) => q.x + n < r.right
      BY <1>1, <1>3, <1>6, <2>1, <2>3 DEF In, Whole
    <3>2. (Shifts(p) => Shifts(q)) /\ (Shifts(q) /\ ~Shifts(p) => p.x < c.x)
      BY <1>1, <2>1, <2>3, <3>1
    <3> HIDE DEF Shifts
    <3>3. QED
      BY <1>1, <2>1, <2>3, <3>1, <3>2 DEF Before
  <2>4. QED
    BY <1>6, <2>2, <2>3 DEF Before
<1>7. CellsFrom(g, sz, b2, sz, b, Whole(r, sz))
  BY <1>3, <1>4, <1>5, <1>6 DEF CellsFrom
<1>8. QED
  BY <1>7 DEF b2

-----------------------------------------------------------------------------
(* What each operation does to the scrollback *)

\* The newest lines of a scrollback, or all of them.
IsNewest(log2, log) ==
  /\ Len(log2) <= Len(log)
  /\ \A i \in 1..Len(log2) : log2[i] = log[Len(log) - Len(log2) + i]

\* Lines that stay are in the rows where they were.
LEMMA LinesStay ==
  ASSUME NEW sz, NEW V, NEW log \in Seq(Seq(V)), NEW log2 \in Seq(Seq(V)), NEW b,
         sz.h \in Nat \ {0}, IsNewest(log2, log)
  PROVE  \E h : LinesFrom(h, log2, sz, log, b) /\ \A i \in 1..Len(log2) : h[i] < 0
<1> DEFINE l == Len(log)
           k == Len(log2)
           h == [i \in 1..k |-> i - k - 1]
<1>1. /\ l \in Nat /\ k \in Nat /\ k <= l
      /\ \A i \in 1..k : log2[i] = log[l - k + i] /\ Len(log2[i]) \in Nat
  <2>1. \A i \in 1..k : log2[i] \in Seq(V)
    BY ElementOfSeq
  <2>2. QED
    BY <2>1, LenProperties DEF IsNewest
<1>2. ASSUME NEW i \in 1..k
      PROVE  /\ h[i] = i - k - 1 /\ h[i] \in (-l)..(sz.h - 1) /\ h[i] < 0
             /\ l + 1 + h[i] = l - k + i
  <2>1. h[i] = i - k - 1
    OBVIOUS
  <2> HIDE DEF h, k, l
  <2>2. QED
    BY <1>1, <2>1
<1>3. h \in [1..k -> (-l)..(sz.h - 1)]
  BY <1>2
<1>4. \A i, j \in 1..k : i < j => h[i] < h[j]
  BY <1>1
<1> HIDE DEF h
<1>5. ASSUME NEW i \in 1..k
      PROVE  /\ Len(log2[i]) <= RowLength(sz, log, h[i])
             /\ \A x \in 0..(Len(log2[i]) - 1) : log2[i][x + 1] = Cell(b, log, Pos(x, h[i]))
  <2>0. ~(h[i] >= 0) /\ log[Len(log) + 1 + h[i]] = log2[i]
    <3>1. log[l + 1 + h[i]] = log2[i]
      BY <1>1, <1>2
    <3>2. h[i] \in Int /\ h[i] < 0
      BY <1>1, <1>2
    <3>3. QED
      BY <3>1, <3>2
  <2>1. RowLength(sz, log, h[i]) = Len(log2[i])
    BY <2>0 DEF RowLength
  <2>2. ASSUME NEW x \in 0..(Len(log2[i]) - 1)
        PROVE  log2[i][x + 1] = Cell(b, log, Pos(x, h[i]))
    <3>1. Pos(x, h[i]).x = x /\ Pos(x, h[i]).y = h[i]
      BY DEF Pos
    <3>2. Cell(b, log, Pos(x, h[i])) = log[Len(log) + 1 + h[i]][x + 1]
      BY <2>0, <3>1 DEF Cell
    <3>3. QED
      BY <2>0, <3>2
  <2>3. QED
    BY <1>1, <2>1, <2>2
<1>6. LinesFrom(h, log2, sz, log, b)
  BY <1>3, <1>4, <1>5 DEF LinesFrom
<1>7. QED
  BY <1>2, <1>6

\* The m rows from row y on.
RowsOf(rows, b, y, m) == rows = [i \in 1..m |-> b[y + i - 1]]

\* The rows that the lines of a scrollback were are old ones or among m from y on.
OldOr(h, k, y, m) == \A i \in 1..k : h[i] < 0 \/ (y <= h[i] /\ h[i] < y + m)

\* Rows y to y + m - 1 that are pushed: every line was a line of the scrollback
\* or is one of these rows.
LEMMA LinesPushed ==
  ASSUME NEW sz \in ScreenSize, NEW V, NEW b \in Buffers(sz, V),
         NEW log \in Seq(Seq(V)), NEW log2 \in Seq(Seq(V)),
         NEW y \in Nat, NEW m \in Nat, y + m <= sz.h,
         NEW rows, RowsOf(rows, b, y, m),
         Gathered(log2, log, rows, m)
  PROVE  \E h : /\ LinesFrom(h, log2, sz, log, b)
                /\ OldOr(h, Len(log2), y, m)
<1> DEFINE l == Len(log)
           k == Len(log2)
<1>1. l \in Nat /\ k \in Nat /\ sz.h \in Nat /\ sz.w \in Nat
  BY LenProperties DEF ScreenSize
<1>2. PICK g \in [1..k -> 1..(l + m)] :
        /\ \A i, j \in 1..k : i < j => g[i] < g[j]
        /\ \A i \in 1..k :
             log2[i] = IF g[i] <= l THEN log[g[i]] ELSE Trimmed(rows[g[i] - l])
  BY DEF Gathered
<1> DEFINE h == [i \in 1..k |-> IF g[i] <= l THEN g[i] - l - 1 ELSE y + (g[i] - l) - 1]
<1> HIDE DEF l, k
<1>3. ASSUME NEW i \in 1..k
      PROVE  /\ g[i] \in Int /\ 1 <= g[i] /\ g[i] <= l + m
             /\ h[i] \in (-l)..(sz.h - 1)
             /\ g[i] <= l => h[i] < 0 /\ h[i] = g[i] - l - 1
             /\ ~(g[i] <= l) => /\ h[i] = y + (g[i] - l) - 1
                                /\ y <= h[i] /\ h[i] < y + m /\ g[i] - l \in 1..m
  <2>1. g[i] \in Int /\ 1 <= g[i] /\ g[i] <= l + m
    BY <1>1, <1>2
  <2>2. h[i] = IF g[i] <= l THEN g[i] - l - 1 ELSE y + (g[i] - l) - 1
    OBVIOUS
  <2> HIDE DEF h
  <2>3. /\ l \in Int /\ m \in Int /\ y \in Int /\ sz.h \in Int
        /\ 0 <= l /\ 0 <= m /\ 0 <= y /\ 0 <= sz.h /\ y + m <= sz.h
    BY <1>1
  <2>4. CASE g[i] <= l
    <3>1. h[i] = g[i] - l - 1
      BY <2>2, <2>4
    <3>2. g[i] - l - 1 \in (-l)..(sz.h - 1) /\ g[i] - l - 1 < 0
      BY <2>1, <2>3, <2>4
    <3>3. QED
      BY <2>1, <2>4, <3>1, <3>2
  <2>5. CASE ~(g[i] <= l)
    <3>1. h[i] = y + (g[i] - l) - 1
      BY <2>2, <2>5
    <3>2. /\ g[i] - l \in 1..m
          /\ y <= y + (g[i] - l) - 1 /\ y + (g[i] - l) - 1 < y + m
          /\ y + (g[i] - l) - 1 \in (-l)..(sz.h - 1)
      <4>1. PICK d \in Int : d = g[i] - l
        BY <2>1, <2>3
      <4>2. 1 <= d /\ d <= m
        BY <2>1, <2>3, <2>5, <4>1
      <4>3. d \in 1..m /\ y <= y + d - 1 /\ y + d - 1 < y + m /\ y + d - 1 \in (-l)..(sz.h - 1)
        BY <2>3, <4>2
      <4>4. QED
        BY <4>1, <4>3
    <3>3. QED
      BY <2>1, <2>5, <3>1, <3>2
  <2>6. QED
    BY <2>4, <2>5
<1> HIDE DEF h
<1>4. h \in [1..k -> (-l)..(sz.h - 1)]
  BY <1>3 DEF h
<1>5. ASSUME NEW i \in 1..k, NEW j \in 1..k, i < j
      PROVE  h[i] < h[j]
  <2>1. g[i] < g[j]
    BY <1>2, <1>5
  <2>2. g[i] \in Int /\ g[j] \in Int
    BY <1>3
  <2>3. /\ g[i] <= l => h[i] < 0 /\ h[i] = g[i] - l - 1
        /\ ~(g[i] <= l) => h[i] = y + (g[i] - l) - 1
        /\ g[j] <= l => h[j] < 0 /\ h[j] = g[j] - l - 1
        /\ ~(g[j] <= l) => h[j] = y + (g[j] - l) - 1 /\ y <= h[j]
    BY <1>3
  <2>4. l \in Int /\ y \in Int /\ 0 <= y
    BY <1>1
  <2>5. CASE g[i] <= l /\ g[j] <= l
    BY <2>1, <2>2, <2>3, <2>4, <2>5
  <2>6. CASE g[i] <= l /\ ~(g[j] <= l)
    <3>1. h[i] < 0 /\ y <= h[j] /\ h[i] \in Int /\ h[j] \in Int
      BY <2>2, <2>3, <2>4, <2>6
    <3>2. QED
      BY <2>4, <3>1
  <2>7. CASE ~(g[i] <= l) /\ ~(g[j] <= l)
    BY <2>1, <2>2, <2>3, <2>4, <2>7
  <2>8. CASE ~(g[i] <= l) /\ g[j] <= l
    BY <2>1, <2>2, <2>4, <2>8
  <2>9. QED
    BY <2>5, <2>6, <2>7, <2>8
<1>6. ASSUME NEW i \in 1..k
      PROVE  /\ Len(log2[i]) <= RowLength(sz, log, h[i])
             /\ \A x \in 0..(Len(log2[i]) - 1) : log2[i][x + 1] = Cell(b, log, Pos(x, h[i]))
  <2>0. \A x : Pos(x, h[i]).x = x /\ Pos(x, h[i]).y = h[i]
    BY DEF Pos
  <2>1. log2[i] \in Seq(V) /\ Len(log2[i]) \in Nat
    BY ElementOfSeq, LenProperties DEF k
  <2>2. CASE g[i] <= l
    <3>1. log2[i] = log[g[i]] /\ l + 1 + h[i] = g[i] /\ ~(h[i] >= 0)
      <4>1. log2[i] = log[g[i]]
        BY <1>2, <2>2
      <4>2. h[i] < 0 /\ h[i] = g[i] - l - 1 /\ g[i] \in Int /\ l \in Int
        BY <1>1, <1>3, <2>2
      <4>3. QED
        BY <4>1, <4>2
    <3>2. RowLength(sz, log, h[i]) = Len(log2[i])
      BY <3>1 DEF RowLength, l
    <3>3. \A x : Cell(b, log, Pos(x, h[i])) = log[g[i]][x + 1]
      BY <2>0, <3>1 DEF Cell, l
    <3>4. QED
      BY <2>1, <3>1, <3>2, <3>3
  <2>3. CASE ~(g[i] <= l)
    <3>1. PICK d \in 1..m : d = g[i] - l
      BY <1>3, <2>3
    <3>2. /\ log2[i] = Trimmed(rows[d]) /\ h[i] = y + d - 1 /\ h[i] >= 0
          /\ y + d - 1 \in 0..(sz.h - 1)
      <4>1. log2[i] = Trimmed(rows[d])
        BY <1>2, <2>3, <3>1
      <4>2. h[i] = y + d - 1
        BY <1>3, <2>3, <3>1
      <4>3. y + d - 1 \in 0..(sz.h - 1)
        BY <1>1
      <4>4. QED
        BY <4>1, <4>2, <4>3
    <3>3. PICK row : row = b[y + d - 1]
      OBVIOUS
    <3>4. row \in [0..(sz.w - 1) -> V] /\ rows[d] = row
      BY <3>2, <3>3 DEF RowsOf, Buffers, Rows, Columns
    <3>5. /\ Len(Trimmed(row)) <= sz.w
          /\ \A x \in 1..Len(Trimmed(row)) : Trimmed(row)[x] = row[x - 1]
      <4>1. PICK w \in Nat : w = sz.w
        BY <1>1
      <4>2. row \in [0..(w - 1) -> V]
        BY <3>4, <4>1
      <4>3. Len(Trimmed(row)) <= w /\ \A x \in 1..Len(Trimmed(row)) : Trimmed(row)[x] = row[x - 1]
        BY <4>2, TrimmedLine
      <4>4. QED
        BY <4>1, <4>3
    <3>6. RowLength(sz, log, h[i]) = sz.w
      BY <3>2 DEF RowLength
    <3>7. ASSUME NEW x \in 0..(Len(log2[i]) - 1)
          PROVE  log2[i][x + 1] = Cell(b, log, Pos(x, h[i]))
      <4>1. Cell(b, log, Pos(x, h[i])) = row[x]
        BY <2>0, <3>2, <3>3 DEF Cell
      <4>2. x + 1 \in 1..Len(Trimmed(row)) /\ (x + 1) - 1 = x
        BY <2>1, <3>2, <3>4
      <4>3. QED
        BY <3>2, <3>4, <3>5, <4>1, <4>2
    <3>8. QED
      BY <3>2, <3>4, <3>5, <3>6, <3>7
  <2>4. QED
    BY <2>2, <2>3
<1>7. LinesFrom(h, log2, sz, log, b)
  BY <1>4, <1>5, <1>6 DEF LinesFrom, k, l
<1>8. OldOr(h, k, y, m)
  BY <1>3 DEF OldOr
<1>9. QED
  BY <1>7, <1>8 DEF k

-----------------------------------------------------------------------------
(* Screens *)

\* A screen and its scrollback.
GoodScreen(sz, b, log, V, max) == b \in Buffers(sz, V) /\ GoodLog(log, V, max)

\* The buffer holds what it held and blank cells.
LEMMA BuffersTyped ==
  ASSUME NEW sz \in ScreenSize, NEW V, Blank \in V, NEW b \in Buffers(sz, V),
         NEW r \in Regions(sz), NEW n \in Nat \ {0}
  PROVE  /\ BlankScreen(sz) \in Buffers(sz, V)
         /\ \A areas : Cleared(b, areas) \in Buffers(sz, V)
         /\ \A sz2 \in ScreenSize : Resized(b, sz2) \in Buffers(sz2, V)
         /\ \A y \in r.top..(r.bottom - 1) :
              LinesInserted(b, r, y, n) \in Buffers(sz, V) /\ LinesDeleted(b, r, y, n) \in Buffers(sz, V)
         /\ \A c \in OnScreen(sz) :
              In(c, r) => CellsInserted(b, r, c, n) \in Buffers(sz, V) /\ CellsDeleted(b, r, c, n) \in Buffers(sz, V)
<1>1. /\ DOMAIN b = 0..(sz.h - 1)
      /\ \A j \in 0..(sz.h - 1) : DOMAIN b[j] = 0..(sz.w - 1) /\ \A x \in 0..(sz.w - 1) : b[j][x] \in V
  BY DEF Buffers, Rows, Columns
<1>2. /\ r.left \in Int /\ r.right \in Int /\ r.top \in Int /\ r.bottom \in Int
      /\ 0 <= r.left /\ r.right <= sz.w /\ 0 <= r.top /\ r.bottom <= sz.h
      /\ sz.w \in Int /\ sz.h \in Int /\ n \in Int /\ n > 0
  BY DEF Regions, ScreenSize
<1>3. BlankScreen(sz) \in Buffers(sz, V)
  BY DEF BlankScreen, Buffers
<1>4. \A areas : Cleared(b, areas) \in Buffers(sz, V)
  BY <1>1 DEF Cleared, Buffers, Rows, Columns
<1>5. ASSUME NEW sz2 \in ScreenSize
      PROVE  Resized(b, sz2) \in Buffers(sz2, V)
  <2>1. \A j \in Rows(sz2), x \in Columns(sz2) :
          (IF j \in DOMAIN b /\ x \in DOMAIN b[j] THEN b[j][x] ELSE Blank) \in V
    BY <1>1
  <2>2. QED
    BY <2>1 DEF Resized, Buffers
<1>6. ASSUME NEW y \in r.top..(r.bottom - 1)
      PROVE  LinesInserted(b, r, y, n) \in Buffers(sz, V)
  <2>1. ASSUME NEW j \in 0..(sz.h - 1), NEW x \in 0..(sz.w - 1)
        PROVE  (IF ~In(Pos(x, j), r) \/ j < y THEN b[j][x]
                ELSE IF j - n >= y THEN b[j - n][x] ELSE Blank) \in V
    <3>1. j - n >= y => j - n \in 0..(sz.h - 1)
      BY <1>2
    <3>2. QED
      BY <1>1, <3>1
  <2>2. QED
    BY <1>1, <2>1 DEF LinesInserted, Buffers, Rows, Columns
<1>7. ASSUME NEW y \in r.top..(r.bottom - 1)
      PROVE  LinesDeleted(b, r, y, n) \in Buffers(sz, V)
  <2>1. ASSUME NEW j \in 0..(sz.h - 1), NEW x \in 0..(sz.w - 1)
        PROVE  (IF ~In(Pos(x, j), r) \/ j < y THEN b[j][x]
                ELSE IF j + n < r.bottom THEN b[j + n][x] ELSE Blank) \in V
    <3>1. j + n < r.bottom => j + n \in 0..(sz.h - 1)
      BY <1>2
    <3>2. QED
      BY <1>1, <3>1
  <2>2. QED
    BY <1>1, <2>1 DEF LinesDeleted, Buffers, Rows, Columns
<1>8. ASSUME NEW c \in OnScreen(sz), In(c, r)
      PROVE  CellsInserted(b, r, c, n) \in Buffers(sz, V)
  <2>1. c.y \in 0..(sz.h - 1) /\ c.x \in 0..(sz.w - 1)
    BY OnScreenIs
  <2>2. ASSUME NEW x \in 0..(sz.w - 1)
        PROVE  (IF ~In(Pos(x, c.y), r) \/ x < c.x THEN b[c.y][x]
                ELSE IF x - n >= c.x THEN b[c.y][x - n] ELSE Blank) \in V
    <3>1. x - n >= c.x => x - n \in 0..(sz.w - 1)
      BY <1>2, <2>1
    <3>2. QED
      BY <1>1, <2>1, <3>1
  <2>3. QED
    BY <1>1, <2>1, <2>2 DEF CellsInserted, Buffers, Rows, Columns
<1>9. ASSUME NEW c \in OnScreen(sz), In(c, r)
      PROVE  CellsDeleted(b, r, c, n) \in Buffers(sz, V)
  <2>1. c.y \in 0..(sz.h - 1) /\ c.x \in 0..(sz.w - 1)
    BY OnScreenIs
  <2>2. ASSUME NEW x \in 0..(sz.w - 1)
        PROVE  (IF ~In(Pos(x, c.y), r) \/ x < c.x THEN b[c.y][x]
                ELSE IF x + n < r.right THEN b[c.y][x + n] ELSE Blank) \in V
    <3>1. x + n < r.right => x + n \in 0..(sz.w - 1)
      BY <1>2, <2>1
    <3>2. QED
      BY <1>1, <2>1, <3>1
  <2>3. QED
    BY <1>1, <2>1, <2>2 DEF CellsDeleted, Buffers, Rows, Columns
<1>10. QED
  BY <1>3, <1>4, <1>5, <1>6, <1>7, <1>8, <1>9

\* A screen whose scrollback gets no new lines.
LEMMA ScreenKept ==
  ASSUME NEW sz \in ScreenSize, NEW sz2 \in ScreenSize, NEW V, NEW max, NEW max2,
         NEW b, NEW log, GoodScreen(sz, b, log, V, max),
         NEW b2, NEW log2, GoodScreen(sz2, b2, log2, V, max2),
         IsNewest(log2, log), NEW whole,
         \E g : CellsFrom(g, sz2, b2, sz, b, whole)
  PROVE  Moves(sz2, log2, b2, sz, log, b, whole)
<1>1. PICK g : CellsFrom(g, sz2, b2, sz, b, whole)
  OBVIOUS
<1>2. log \in Seq(Seq(V)) /\ log2 \in Seq(Seq(V)) /\ Len(log2) \in Nat
  BY LenProperties DEF GoodScreen, GoodLog
<1>3. /\ sz.h \in Nat /\ sz.w \in Nat /\ sz2.h \in Nat /\ sz2.w \in Nat
      /\ sz.h \in Nat \ {0}
  BY DEF ScreenSize
<1>4. PICK h : LinesFrom(h, log2, sz, log, b) /\ \A i \in 1..Len(log2) : h[i] < 0
  BY <1>2, <1>3, LinesStay
<1>5. ASSUME NEW i \in 1..Len(log2), NEW p \in FilledRows(sz2, b2)
      PROVE  h[i] # g[p].y /\ (whole => h[i] < g[p].y)
  <2>1. h[i] < 0 /\ h[i] \in (-Len(log))..(sz.h - 1)
    BY <1>4 DEF LinesFrom
  <2>2. g[p].y \in 0..(sz.h - 1)
    BY <1>1 DEF CellsFrom, OnScreen, Rows
  <2>3. h[i] \in Int /\ g[p].y \in Int /\ 0 <= g[p].y
    <3>1. Len(log) \in Nat
      BY <1>2, LenProperties
    <3>2. QED
      BY <1>3, <2>1, <2>2, <3>1
  <2>4. QED
    BY <2>1, <2>3
<1>6. QED
  BY <1>1, <1>2, <1>3, <1>4, <1>5, Joined

\* A screen that is left blank, and one that is left alone.
LEMMA BlankFrom ==
  ASSUME NEW sz, NEW sz2, NEW b, NEW whole
  PROVE  \E g : CellsFrom(g, sz2, BlankScreen(sz2), sz, b, whole)
<1>1. FilledRows(sz2, BlankScreen(sz2)) = {}
  BY DEF FilledRows, OnScreen, BlankScreen
<1>2. QED
  BY <1>1, CellsStay

\* A screen that stays as it was.
LEMMA SameFrom ==
  ASSUME NEW sz, NEW b, NEW whole
  PROVE  \E g : CellsFrom(g, sz, b, sz, b, whole)
<1>1. \A p \in FilledRows(sz, b) : p \in OnScreen(sz) /\ b[p.y][p.x] = b[p.y][p.x]
  BY DEF FilledRows
<1>2. QED
  BY <1>1, CellsStay

\* Clearing areas of a screen moves no cell.
LEMMA ClearedFrom ==
  ASSUME NEW sz \in ScreenSize, NEW V, NEW b \in Buffers(sz, V), NEW areas, NEW whole
  PROVE  \E g : CellsFrom(g, sz, Cleared(b, areas), sz, b, whole)
<1> DEFINE b2 == Cleared(b, areas)
<1>1. ASSUME NEW p \in FilledRows(sz, b2)
      PROVE  p \in OnScreen(sz) /\ b[p.y][p.x] = b2[p.y][p.x]
  <2>1. p \in OnScreen(sz) /\ b2[p.y][p.x] # Blank
    BY DEF FilledRows
  <2>2. p.y \in DOMAIN b /\ p.x \in DOMAIN b[p.y]
    BY <2>1 DEF OnScreen, Buffers
  <2>3. b2[p.y][p.x] = IF \E r \in areas : In(Pos(p.x, p.y), r) THEN Blank ELSE b[p.y][p.x]
    BY <2>2 DEF Cleared
  <2>4. QED
    BY <2>1, <2>3
<1> HIDE DEF b2
<1>2. \E g : CellsFrom(g, sz, b2, sz, b, whole)
  BY <1>1, CellsStay
<1>3. QED
  BY <1>2 DEF b2

\* A screen of another size keeps the cells that it still has, where they were.
LEMMA ResizedFrom ==
  ASSUME NEW sz \in ScreenSize, NEW sz2 \in ScreenSize, NEW V, NEW b \in Buffers(sz, V), NEW whole
  PROVE  \E g : CellsFrom(g, sz2, Resized(b, sz2), sz, b, whole)
<1> DEFINE b2 == Resized(b, sz2)
<1>1. ASSUME NEW p \in FilledRows(sz2, b2)
      PROVE  p \in OnScreen(sz) /\ b[p.y][p.x] = b2[p.y][p.x]
  <2>1. p \in OnScreen(sz2) /\ b2[p.y][p.x] # Blank
    BY DEF FilledRows
  <2>2. b2[p.y][p.x] = IF p.y \in DOMAIN b /\ p.x \in DOMAIN b[p.y] THEN b[p.y][p.x] ELSE Blank
    BY <2>1 DEF Resized, OnScreen
  <2>3. p.y \in DOMAIN b /\ p.x \in DOMAIN b[p.y] /\ b[p.y][p.x] = b2[p.y][p.x]
    BY <2>1, <2>2
  <2>4. p = Pos(p.x, p.y)
    BY <2>1 DEF OnScreen, Pos
  <2>5. p.x \in 0..(sz.w - 1) /\ p.y \in 0..(sz.h - 1)
    BY <2>3 DEF Buffers, Rows, Columns
  <2>6. QED
    BY <2>3, <2>4, <2>5, OnScreenIs
<1> HIDE DEF b2
<1>2. \E g : CellsFrom(g, sz2, b2, sz, b, whole)
  BY <1>1, CellsStay
<1>3. QED
  BY <1>2 DEF b2

\* The scrollback with a new limit, as it was, and empty.
LEMMA LastLinesAre ==
  ASSUME NEW V, NEW max \in Nat \ {0}, NEW max2 \in Nat \ {0}, NEW log, GoodLog(log, V, max)
  PROVE  /\ GoodLog(LastLines(log, max2), V, max2) /\ IsNewest(LastLines(log, max2), log)
         /\ IsNewest(log, log)
         /\ GoodLog(<<>>, V, max2) /\ IsNewest(<<>>, log)
<1>1. log \in Seq(Seq(V)) /\ Len(log) \in Nat
  BY LenProperties DEF GoodLog
<1>2. IsNewest(log, log)
  <2>1. \A i \in 1..Len(log) : Len(log) - Len(log) + i = i
    BY <1>1
  <2>2. QED
    BY <1>1, <2>1 DEF IsNewest
<1>3. GoodLog(<<>>, V, max2) /\ IsNewest(<<>>, log)
  <2>1. <<>> \in Seq(Seq(V)) /\ Len(<<>>) = 0
    BY EmptySeq
  <2>2. QED
    BY <1>1, <2>1 DEF GoodLog, IsNewest
<1>4. CASE Len(log) > max2
  <2> DEFINE k == Len(log) - max2 + 1
             new == SubSeq(log, k, Len(log))
  <2>1. new = LastLines(log, max2)
    BY <1>4 DEF LastLines
  <2>2. k \in 1..(Len(log) + 1) /\ Len(log) \in (k - 1)..Len(log)
    BY <1>1, <1>4
  <2>3. /\ new \in Seq(Seq(V)) /\ Len(new) = Len(log) - k + 1
        /\ \A i \in 1..(Len(log) - k + 1) : new[i] = log[k + i - 1]
    BY <1>1, <2>2, SubSeqProperties
  <2>4. Len(new) = max2 /\ \A i \in 1..max2 : new[i] = log[Len(log) - max2 + i] /\ Len(log) - max2 + i \in 1..Len(log)
    <3>1. Len(log) - k + 1 = max2 /\ \A i \in 1..max2 : k + i - 1 = Len(log) - max2 + i
      BY <1>1
    <3>2. \A i \in 1..max2 : Len(log) - max2 + i \in 1..Len(log)
      BY <1>1, <1>4
    <3> HIDE DEF k, new
    <3>3. QED
      BY <2>3, <3>1, <3>2
  <2> HIDE DEF new, k
  <2>5. GoodLog(new, V, max2)
    <3>1. \A i \in 1..Len(new) : Stripped(new[i])
      <4>1. \A i \in 1..Len(log) : Stripped(log[i])
        BY DEF GoodLog
      <4>2. QED
        BY <2>4, <4>1
    <3>2. Len(new) <= max2
      BY <2>4
    <3>3. QED
      BY <2>3, <3>1, <3>2 DEF GoodLog
  <2>6. IsNewest(new, log)
    BY <1>1, <1>4, <2>4 DEF IsNewest
  <2>7. QED
    BY <1>2, <1>3, <2>1, <2>5, <2>6
<1>5. CASE ~(Len(log) > max2)
  <2>1. LastLines(log, max2) = log /\ Len(log) <= max2
    BY <1>1, <1>5 DEF LastLines
  <2>2. GoodLog(log, V, max2)
    BY <2>1 DEF GoodLog
  <2>3. QED
    BY <1>2, <1>3, <2>1, <2>2
<1>6. QED
  BY <1>4, <1>5

\* Lines that are deleted at the top of a region of every column enter the
\* scrollback, and leave the screen.
LEMMA LinesScrolled ==
  ASSUME NEW sz \in ScreenSize, NEW V, Blank \in V, NEW max \in Nat \ {0},
         NEW b, NEW log, GoodScreen(sz, b, log, V, max),
         NEW r \in Regions(sz), r.left = 0, r.right = sz.w, NEW n \in Nat \ {0},
         NEW y \in Nat, y = r.top, NEW m \in Nat, m <= n, y + m <= r.bottom,
         NEW rows, RowsOf(rows, b, y, m),
         NEW log2, log2 = PushRows(log, rows, TRUE, max)
  PROVE  /\ GoodScreen(sz, LinesDeleted(b, r, y, n), log2, V, max)
         /\ Entered(log2, log, max)
         /\ Moves(sz, log2, LinesDeleted(b, r, y, n), sz, log, b, Whole(r, sz))
<1> DEFINE b2 == LinesDeleted(b, r, y, n)
<1>1. /\ sz.w \in Nat \ {0} /\ sz.h \in Nat \ {0} /\ r.top \in Nat /\ r.bottom \in Nat
      /\ r.top < r.bottom /\ r.bottom <= sz.h
      /\ b \in Buffers(sz, V) /\ GoodLog(log, V, max) /\ log \in Seq(Seq(V))
  BY DEF ScreenSize, Regions, GoodScreen, GoodLog
<1>2. y \in r.top..(r.bottom - 1)
  BY <1>1
<1>3. rows \in Seq([0..(sz.w - 1) -> V]) /\ Len(rows) = m
  <2>1. ASSUME NEW i \in 1..m
        PROVE  y + i - 1 \in 0..(sz.h - 1)
    <3>1. y \in Int /\ i \in Int /\ m \in Int /\ sz.h \in Int /\ 0 <= y /\ y + m <= sz.h
      BY <1>1
    <3>2. 1 <= i /\ i <= m
      OBVIOUS
    <3>3. QED
      BY <3>1, <3>2
  <2>2. PICK S : S = [0..(sz.w - 1) -> V]
    OBVIOUS
  <2>3. \A j \in 0..(sz.h - 1) : b[j] \in S
    <3>1. b \in [0..(sz.h - 1) -> S]
      BY <1>1, <2>2 DEF Buffers, Rows, Columns
    <3>2. QED
      BY <3>1
  <2>4. \A i \in 1..m : b[y + i - 1] \in S
    BY <2>1, <2>3
  <2>5. rows \in [1..m -> S]
    BY <2>4 DEF RowsOf
  <2>6. rows \in Seq(S) /\ Len(rows) = m
    BY <2>5, IsSequence
  <2>7. QED
    BY <2>2, <2>6
<1>4. GoodLog(log2, V, max) /\ Gathered(log2, log, rows, m) /\ Entered(log2, log, max)
  <2>1. sz.w \in Nat
    BY <1>1
  <2>2. /\ GoodLog(PushRows(log, rows, TRUE, max), V, max)
        /\ Gathered(PushRows(log, rows, TRUE, max), log, rows, Len(rows))
        /\ Entered(PushRows(log, rows, TRUE, max), log, max)
    BY <1>1, <1>3, <2>1, PushRowsGathers
  <2>3. QED
    BY <1>3, <2>2
<1>5. b2 \in Buffers(sz, V)
  BY <1>1, <1>2, BuffersTyped
<1>6. PICK g : /\ CellsFrom(g, sz, b2, sz, b, Whole(r, sz))
               /\ Skips(g, FilledRows(sz, b2), r, y, n)
  BY <1>1, <1>2, LinesDeletedFrom
<1> HIDE DEF b2
<1>7. log2 \in Seq(Seq(V))
  BY <1>4 DEF GoodLog
<1>8. PICK h : /\ LinesFrom(h, log2, sz, log, b)
               /\ OldOr(h, Len(log2), y, m)
  <2>1. m \in Nat /\ y \in Nat
    OBVIOUS
  <2>2. y + m <= sz.h
    BY <1>1
  <2>3. QED
    BY <1>1, <1>4, <1>7, <2>1, <2>2, LinesPushed
<1>9. ASSUME NEW i \in 1..Len(log2), NEW p \in FilledRows(sz, b2)
      PROVE  h[i] # g[p].y /\ (Whole(r, sz) => h[i] < g[p].y)
  <2>1. h[i] \in Int
    <3>1. h[i] \in (-Len(log))..(sz.h - 1) /\ Len(log) \in Nat
      BY <1>1, <1>8, LenProperties DEF LinesFrom
    <3>2. QED
      BY <1>1, <3>1
  <2>2. g[p].x \in 0..(sz.w - 1) /\ g[p].y \in 0..(sz.h - 1)
    BY <1>6 DEF CellsFrom, OnScreen, Rows, Columns
  <2>3. g[p].y < y \/ g[p].y >= y + m
    <3>1. CASE g[p].y < y \/ g[p].y >= r.bottom
      BY <1>1, <2>2, <3>1
    <3>2. CASE ~(g[p].y < y \/ g[p].y >= r.bottom)
      <4>1. In(Pos(g[p].x, g[p].y), r)
        <5>1. Pos(g[p].x, g[p].y).x = g[p].x /\ Pos(g[p].x, g[p].y).y = g[p].y
          BY DEF Pos
        <5>2. /\ g[p].x \in Int /\ g[p].y \in Int /\ 0 <= g[p].x /\ g[p].x < sz.w
              /\ y <= g[p].y /\ g[p].y < r.bottom
          BY <1>1, <2>2, <3>2
        <5>3. r.left <= g[p].x /\ g[p].x < r.right /\ r.top <= g[p].y
          BY <5>2
        <5>4. QED
          BY <5>1, <5>2, <5>3 DEF In
      <4>2. g[p].y >= y + n
        BY <1>6, <3>2, <4>1 DEF Skips
      <4>3. QED
        BY <2>2, <4>2
    <3>3. QED
      BY <3>1, <3>2
  <2>4. h[i] < 0 \/ (y <= h[i] /\ h[i] < y + m)
    BY <1>8 DEF OldOr
  <2>5. g[p].y \in Int /\ 0 <= g[p].y
    BY <2>2
  <2>6. Whole(r, sz) => y = 0
    BY DEF Whole
  <2>7. QED
    BY <2>1, <2>3, <2>4, <2>5, <2>6
<1>10. Moves(sz, log2, b2, sz, log, b, Whole(r, sz))
  <2>1. /\ sz.h \in Nat /\ sz.w \in Nat
    BY <1>1
  <2>2. QED
    BY <1>1, <1>6, <1>7, <1>8, <1>9, <2>1, Joined
<1>11. QED
  BY <1>4, <1>5, <1>10 DEF b2, GoodScreen

\* A screen that is erased into its scrollback.
LEMMA ScreenErased ==
  ASSUME NEW sz \in ScreenSize, NEW V, Blank \in V, NEW max \in Nat \ {0},
         NEW b, NEW log, GoodScreen(sz, b, log, V, max), NEW whole,
         NEW rows, RowsOf(rows, b, 0, sz.h),
         NEW log2, log2 = PushRows(log, rows, FALSE, max)
  PROVE  /\ GoodScreen(sz, BlankScreen(sz), log2, V, max)
         /\ Entered(log2, log, max)
         /\ Moves(sz, log2, BlankScreen(sz), sz, log, b, whole)
<1>1. /\ sz.w \in Nat \ {0} /\ sz.h \in Nat \ {0}
      /\ b \in Buffers(sz, V) /\ GoodLog(log, V, max) /\ log \in Seq(Seq(V))
  BY DEF ScreenSize, GoodScreen, GoodLog
<1>2. rows \in Seq([0..(sz.w - 1) -> V]) /\ Len(rows) = sz.h
  <2>1. PICK S : S = [0..(sz.w - 1) -> V]
    OBVIOUS
  <2>2. \A j \in 0..(sz.h - 1) : b[j] \in S
    BY <1>1, <2>1 DEF Buffers, Rows, Columns
  <2>3. \A i \in 1..sz.h : b[0 + i - 1] \in S
    BY <1>1, <2>2
  <2>4. rows \in [1..sz.h -> S]
    BY <2>3 DEF RowsOf
  <2>5. PICK k \in Nat : k = sz.h
    BY <1>1
  <2>6. rows \in Seq(S) /\ Len(rows) = sz.h
    BY <2>4, <2>5, IsSequence
  <2>7. QED
    BY <2>1, <2>6
<1>3. GoodLog(log2, V, max) /\ Gathered(log2, log, rows, sz.h) /\ Entered(log2, log, max)
  <2>1. sz.w \in Nat
    BY <1>1
  <2>2. /\ GoodLog(PushRows(log, rows, FALSE, max), V, max)
        /\ Gathered(PushRows(log, rows, FALSE, max), log, rows, Len(rows))
        /\ Entered(PushRows(log, rows, FALSE, max), log, max)
    BY <1>1, <1>2, <2>1, PushRowsGathers
  <2>3. QED
    BY <1>2, <2>2
<1>4. PICK h : LinesFrom(h, log2, sz, log, b)
  <2>2. 0 \in Nat /\ sz.h \in Nat /\ 0 + sz.h <= sz.h
    BY <1>1
  <2>3. log2 \in Seq(Seq(V))
    BY <1>3 DEF GoodLog
  <2>4. QED
    BY <1>1, <1>3, <2>2, <2>3, LinesPushed
<1> DEFINE b2 == BlankScreen(sz)
<1>5. FilledRows(sz, b2) = {}
  BY DEF FilledRows, OnScreen, BlankScreen
<1>6. PICK g : CellsFrom(g, sz, b2, sz, b, whole)
  BY BlankFrom
<1>7. b2 \in Buffers(sz, V)
  BY DEF BlankScreen, Buffers
<1> HIDE DEF b2
<1>8. Moves(sz, log2, b2, sz, log, b, whole)
  <2>1. sz.h \in Nat /\ sz.w \in Nat /\ log2 \in Seq(Seq(V))
    BY <1>1, <1>3 DEF GoodLog
  <2>2. \A i \in 1..Len(log2), p \in FilledRows(sz, b2) :
          h[i] # g[p].y /\ (whole => h[i] < g[p].y)
    BY <1>5
  <2>3. QED
    BY <1>1, <1>4, <1>6, <2>1, <2>2, Joined
<1>9. QED
  BY <1>3, <1>7, <1>8 DEF b2, GoodScreen

-----------------------------------------------------------------------------
(* Regions that end past the screen *)

\* The regions that programs can ask for, whatever the size of the screen.
AllRegions ==
  {r \in [left : Nat, top : Nat, right : Nat, bottom : Nat] :
     r.left < r.right /\ r.top < r.bottom}

\* What of a region lies on a screen of this size.
Cut(r, sz) == [left |-> r.left, top |-> r.top,
               right |-> Lesser(r.right, sz.w), bottom |-> Lesser(r.bottom, sz.h)]

\* The whole screen is a region of it.
LEMMA BoundsIs ==
  ASSUME NEW sz \in ScreenSize
  PROVE  Bounds(sz) \in Regions(sz) /\ Bounds(sz) \in AllRegions /\ Whole(Bounds(sz), sz)
BY DEF ScreenSize, Bounds, Regions, AllRegions, Whole

\* A region that begins on the screen has a part on it, with the same columns
\* and rows of the screen.
LEMMA CutIs ==
  ASSUME NEW sz \in ScreenSize, NEW r \in AllRegions, r.left < sz.w, r.top < sz.h
  PROVE  /\ Cut(r, sz) \in Regions(sz)
         /\ \A x \in 0..(sz.w - 1), y \in 0..(sz.h - 1) :
              In(Pos(x, y), Cut(r, sz)) <=> In(Pos(x, y), r)
         /\ \A x \in 0..(sz.w - 1) : x < Cut(r, sz).right <=> x < r.right
         /\ \A y \in 0..(sz.h - 1) : y < Cut(r, sz).bottom <=> y < r.bottom
         /\ Whole(r, sz) => Whole(Cut(r, sz), sz)
<1>1. /\ r.left \in Nat /\ r.top \in Nat /\ r.right \in Nat /\ r.bottom \in Nat
      /\ r.left < r.right /\ r.top < r.bottom /\ sz.w \in Nat /\ sz.h \in Nat
  BY DEF AllRegions, ScreenSize
<1>2. PICK right, bottom : right = Lesser(r.right, sz.w) /\ bottom = Lesser(r.bottom, sz.h)
  OBVIOUS
<1>3. /\ right \in Nat /\ r.left < right /\ right <= sz.w
      /\ bottom \in Nat /\ r.top < bottom /\ bottom <= sz.h
      /\ \A x \in 0..(sz.w - 1) : x < right <=> x < r.right
      /\ \A y \in 0..(sz.h - 1) : y < bottom <=> y < r.bottom
  BY <1>1, <1>2 DEF Lesser
<1>4. /\ Cut(r, sz) \in [left : Nat, top : Nat, right : Nat, bottom : Nat]
      /\ Cut(r, sz).left = r.left /\ Cut(r, sz).top = r.top
      /\ Cut(r, sz).right = right /\ Cut(r, sz).bottom = bottom
  BY <1>1, <1>2, <1>3 DEF Cut
<1>5. Cut(r, sz) \in Regions(sz)
  BY <1>1, <1>3, <1>4 DEF Regions
<1>6. \A x \in 0..(sz.w - 1), y \in 0..(sz.h - 1) :
        In(Pos(x, y), Cut(r, sz)) <=> In(Pos(x, y), r)
  BY <1>1, <1>3, <1>4 DEF In, Pos
<1>7. Whole(r, sz) => Whole(Cut(r, sz), sz)
  BY <1>1, <1>2, <1>4 DEF Whole, Lesser
<1>8. QED
  BY <1>3, <1>4, <1>5, <1>6, <1>7

\* The cells of a buffer.
LEMMA BufferIs ==
  ASSUME NEW sz \in ScreenSize, NEW V, NEW b \in Buffers(sz, V)
  PROVE  /\ DOMAIN b = 0..(sz.h - 1)
         /\ \A j \in 0..(sz.h - 1) : DOMAIN b[j] = 0..(sz.w - 1)
         /\ b = [j \in 0..(sz.h - 1) |-> [x \in 0..(sz.w - 1) |-> b[j][x]]]
<1>1. PICK w, h : w = sz.w /\ h = sz.h
  OBVIOUS
<1>2. b \in [0..(h - 1) -> [0..(w - 1) -> V]]
  BY <1>1 DEF Buffers, Rows, Columns
<1>3. \A j \in 0..(h - 1) : b[j] = [x \in 0..(w - 1) |-> b[j][x]]
  BY <1>2
<1>4. QED
  BY <1>1, <1>2, <1>3

\* Editing lines beside the screen changes nothing on it.
LEMMA LinesBeside ==
  ASSUME NEW sz \in ScreenSize, NEW V, NEW b \in Buffers(sz, V), NEW r \in AllRegions,
         NEW y \in Nat, NEW n \in Nat \ {0}, r.left >= sz.w \/ y >= sz.h
  PROVE  LinesInserted(b, r, y, n) = b /\ LinesDeleted(b, r, y, n) = b
<1>1. /\ r.left \in Nat /\ sz.w \in Nat /\ sz.h \in Nat
  BY DEF AllRegions, ScreenSize
<1>2. \A j \in 0..(sz.h - 1), x \in 0..(sz.w - 1) : ~In(Pos(x, j), r) \/ j < y
  BY <1>1 DEF In, Pos
<1>3. ASSUME NEW j \in DOMAIN b
      PROVE  /\ b[j] = [x \in DOMAIN b[j] |-> b[j][x]]
             /\ \A x \in DOMAIN b[j] : ~In(Pos(x, j), r) \/ j < y
  <2>1. j \in 0..(sz.h - 1) /\ DOMAIN b[j] = 0..(sz.w - 1)
    BY BufferIs
  <2>2. b[j] \in [Columns(sz) -> V]
    BY <2>1 DEF Buffers, Rows
  <2>3. QED
    BY <1>2, <2>1, <2>2
<1>4. b = [j \in DOMAIN b |-> [x \in DOMAIN b[j] |-> b[j][x]]]
  BY <1>3, BufferIs
<1>5. LinesInserted(b, r, y, n) = [j \in DOMAIN b |-> [x \in DOMAIN b[j] |-> b[j][x]]]
  <2>1. ASSUME NEW j \in DOMAIN b
        PROVE  [x \in DOMAIN b[j] |->
                  IF ~In(Pos(x, j), r) \/ j < y THEN b[j][x]
                  ELSE IF j - n >= y THEN b[j - n][x] ELSE Blank]
               = [x \in DOMAIN b[j] |-> b[j][x]]
    BY <1>3
  <2>2. QED
    BY <2>1 DEF LinesInserted
<1>6. LinesDeleted(b, r, y, n) = [j \in DOMAIN b |-> [x \in DOMAIN b[j] |-> b[j][x]]]
  <2>1. ASSUME NEW j \in DOMAIN b
        PROVE  [x \in DOMAIN b[j] |->
                  IF ~In(Pos(x, j), r) \/ j < y THEN b[j][x]
                  ELSE IF j + n < r.bottom THEN b[j + n][x] ELSE Blank]
               = [x \in DOMAIN b[j] |-> b[j][x]]
    BY <1>3
  <2>2. QED
    BY <2>1 DEF LinesDeleted
<1>7. QED
  BY <1>4, <1>5, <1>6

\* Editing lines of a region is editing those of its part on the screen, if no
\* row is moved in from below the screen.
LEMMA LinesCut ==
  ASSUME NEW sz \in ScreenSize, NEW V, NEW b \in Buffers(sz, V), NEW r \in AllRegions,
         r.left < sz.w, r.top < sz.h, NEW y \in Nat, NEW n \in Nat \ {0}
  PROVE  /\ LinesInserted(b, r, y, n) = LinesInserted(b, Cut(r, sz), y, n)
         /\ (y + n <= r.bottom - 1 => r.bottom - 1 < sz.h)
              => LinesDeleted(b, r, y, n) = LinesDeleted(b, Cut(r, sz), y, n)
<1>1. r.bottom \in Nat /\ sz.h \in Nat
  BY DEF AllRegions, ScreenSize
<1>2. PICK k : k = Cut(r, sz)
  OBVIOUS
<1>3. /\ \A x \in 0..(sz.w - 1), j \in 0..(sz.h - 1) : In(Pos(x, j), k) <=> In(Pos(x, j), r)
      /\ k.bottom \in Nat /\ k.bottom <= sz.h
      /\ \A j \in 0..(sz.h - 1) : j < k.bottom <=> j < r.bottom
  BY <1>1, <1>2, CutIs DEF Regions
<1>4. LinesInserted(b, r, y, n) = LinesInserted(b, k, y, n)
  <2>1. ASSUME NEW j \in DOMAIN b
        PROVE  [x \in DOMAIN b[j] |->
                  IF ~In(Pos(x, j), r) \/ j < y THEN b[j][x]
                  ELSE IF j - n >= y THEN b[j - n][x] ELSE Blank]
               = [x \in DOMAIN b[j] |->
                    IF ~In(Pos(x, j), k) \/ j < y THEN b[j][x]
                    ELSE IF j - n >= y THEN b[j - n][x] ELSE Blank]
    <3>1. \A x \in DOMAIN b[j] : In(Pos(x, j), k) <=> In(Pos(x, j), r)
      BY <1>3, BufferIs
    <3>2. QED
      BY <3>1
  <2>2. QED
    BY <2>1 DEF LinesInserted
<1>5. ASSUME y + n <= r.bottom - 1 => r.bottom - 1 < sz.h
      PROVE  LinesDeleted(b, r, y, n) = LinesDeleted(b, k, y, n)
  <2>1. \A j \in 0..(sz.h - 1) : j < y \/ (j + n < r.bottom <=> j + n < k.bottom)
    BY <1>1, <1>3, <1>5
  <2>2. ASSUME NEW j \in DOMAIN b
        PROVE  [x \in DOMAIN b[j] |->
                  IF ~In(Pos(x, j), r) \/ j < y THEN b[j][x]
                  ELSE IF j + n < r.bottom THEN b[j + n][x] ELSE Blank]
               = [x \in DOMAIN b[j] |->
                    IF ~In(Pos(x, j), k) \/ j < y THEN b[j][x]
                    ELSE IF j + n < k.bottom THEN b[j + n][x] ELSE Blank]
    <3>1. \A x \in DOMAIN b[j] : In(Pos(x, j), k) <=> In(Pos(x, j), r)
      BY <1>3, BufferIs
    <3>2. j < y \/ (j + n < r.bottom <=> j + n < k.bottom)
      BY <2>1, BufferIs
    <3>3. QED
      BY <3>1, <3>2
  <2>3. QED
    BY <2>2 DEF LinesDeleted
<1>6. QED
  BY <1>2, <1>4, <1>5

\* The same of cells within a row.
LEMMA CellsCut ==
  ASSUME NEW sz \in ScreenSize, NEW V, NEW b \in Buffers(sz, V), NEW r \in AllRegions,
         r.left < sz.w, r.top < sz.h, NEW c \in OnScreen(sz), NEW n \in Nat \ {0}
  PROVE  /\ CellsInserted(b, r, c, n) = CellsInserted(b, Cut(r, sz), c, n)
         /\ (c.x + n <= r.right - 1 => r.right - 1 < sz.w)
              => CellsDeleted(b, r, c, n) = CellsDeleted(b, Cut(r, sz), c, n)
<1>1. /\ r.right \in Nat /\ sz.w \in Nat
      /\ c.x \in 0..(sz.w - 1) /\ c.y \in 0..(sz.h - 1)
  BY OnScreenIs DEF AllRegions, ScreenSize
<1>2. PICK k : k = Cut(r, sz)
  OBVIOUS
<1>3. /\ \A x \in 0..(sz.w - 1) : In(Pos(x, c.y), k) <=> In(Pos(x, c.y), r)
      /\ k.right \in Nat /\ k.right <= sz.w
      /\ \A x \in 0..(sz.w - 1) : x < k.right <=> x < r.right
  BY <1>1, <1>2, CutIs DEF Regions
<1>4. DOMAIN b[c.y] = 0..(sz.w - 1)
  BY <1>1, BufferIs
<1>5. CellsInserted(b, r, c, n) = CellsInserted(b, k, c, n)
  BY <1>3, <1>4 DEF CellsInserted
<1>6. ASSUME c.x + n <= r.right - 1 => r.right - 1 < sz.w
      PROVE  CellsDeleted(b, r, c, n) = CellsDeleted(b, k, c, n)
  <2>1. \A x \in 0..(sz.w - 1) : x < c.x \/ (x + n < r.right <=> x + n < k.right)
    BY <1>1, <1>3, <1>6
  <2>2. QED
    BY <1>3, <1>4, <2>1 DEF CellsDeleted
<1>7. QED
  BY <1>2, <1>5, <1>6

\* A map that keeps the order within the part of a region keeps it if the
\* region is whole.
LEMMA CutFrom ==
  ASSUME NEW sz \in ScreenSize, NEW r \in AllRegions, r.left < sz.w, r.top < sz.h,
         NEW b, NEW b2, \E g : CellsFrom(g, sz, b2, sz, b, Whole(Cut(r, sz), sz))
  PROVE  \E g : CellsFrom(g, sz, b2, sz, b, Whole(r, sz))
<1>1. PICK g : CellsFrom(g, sz, b2, sz, b, Whole(Cut(r, sz), sz))
  OBVIOUS
<1>2. CellsFrom(g, sz, b2, sz, b, Whole(r, sz))
  BY <1>1, CutIs DEF CellsFrom
<1>3. QED
  BY <1>2

\* What editing lines gives, in any region.
LEMMA EditedLines ==
  ASSUME NEW sz \in ScreenSize, NEW V, Blank \in V, NEW b \in Buffers(sz, V),
         NEW r \in AllRegions, NEW y \in Nat, r.top <= y, y < r.bottom, NEW n \in Nat \ {0}
  PROVE  /\ LinesInserted(b, r, y, n) \in Buffers(sz, V)
         /\ \E g : CellsFrom(g, sz, LinesInserted(b, r, y, n), sz, b, Whole(r, sz))
         /\ (y < sz.h /\ y + n <= r.bottom - 1 => r.bottom - 1 < sz.h) =>
              /\ LinesDeleted(b, r, y, n) \in Buffers(sz, V)
              /\ \E g : CellsFrom(g, sz, LinesDeleted(b, r, y, n), sz, b, Whole(r, sz))
<1>1. CASE r.left >= sz.w \/ y >= sz.h
  BY <1>1, LinesBeside, SameFrom
<1>2. CASE ~(r.left >= sz.w \/ y >= sz.h)
  <2>1. /\ r.left \in Nat /\ r.top \in Nat /\ r.bottom \in Nat
        /\ sz.w \in Nat /\ sz.h \in Nat
    BY DEF AllRegions, ScreenSize
  <2>2. r.left < sz.w /\ y < sz.h /\ r.top < sz.h /\ y \in 0..(sz.h - 1)
    BY <1>2, <2>1
  <2>3. PICK k : k = Cut(r, sz)
    OBVIOUS
  <2>4. k \in Regions(sz) /\ k.top = r.top /\ y < k.bottom
    BY <2>2, <2>3, CutIs DEF Cut
  <2>5. y \in k.top..(k.bottom - 1)
    BY <2>1, <2>4 DEF Regions
  <2>6. /\ LinesInserted(b, k, y, n) \in Buffers(sz, V)
        /\ LinesDeleted(b, k, y, n) \in Buffers(sz, V)
    BY <2>4, <2>5, BuffersTyped
  <2>7. /\ \E g : CellsFrom(g, sz, LinesInserted(b, k, y, n), sz, b, Whole(k, sz))
        /\ \E g : CellsFrom(g, sz, LinesDeleted(b, k, y, n), sz, b, Whole(k, sz))
    BY <2>4, <2>5, LinesInsertedFrom, LinesDeletedFrom
  <2>8. /\ \E g : CellsFrom(g, sz, LinesInserted(b, k, y, n), sz, b, Whole(r, sz))
        /\ \E g : CellsFrom(g, sz, LinesDeleted(b, k, y, n), sz, b, Whole(r, sz))
    BY <2>2, <2>3, <2>7, CutFrom
  <2>9. QED
    BY <2>2, <2>3, <2>6, <2>8, LinesCut
<1>3. QED
  BY <1>1, <1>2

\* What editing cells gives, in any region.
LEMMA EditedCells ==
  ASSUME NEW sz \in ScreenSize, NEW V, Blank \in V, NEW b \in Buffers(sz, V),
         NEW r \in AllRegions, NEW c \in OnScreen(sz), In(c, r), NEW n \in Nat \ {0}
  PROVE  /\ CellsInserted(b, r, c, n) \in Buffers(sz, V)
         /\ \E g : CellsFrom(g, sz, CellsInserted(b, r, c, n), sz, b, Whole(r, sz))
         /\ (c.x + n <= r.right - 1 => r.right - 1 < sz.w) =>
              /\ CellsDeleted(b, r, c, n) \in Buffers(sz, V)
              /\ \E g : CellsFrom(g, sz, CellsDeleted(b, r, c, n), sz, b, Whole(r, sz))
<1>1. /\ c = Pos(c.x, c.y) /\ c.x \in 0..(sz.w - 1) /\ c.y \in 0..(sz.h - 1)
      /\ r.left \in Nat /\ r.top \in Nat /\ sz.w \in Nat /\ sz.h \in Nat
  BY OnScreenIs DEF AllRegions, ScreenSize
<1>2. r.left < sz.w /\ r.top < sz.h
  BY <1>1 DEF In
<1>3. PICK k : k = Cut(r, sz)
  OBVIOUS
<1>4. k \in Regions(sz) /\ In(c, k)
  BY <1>1, <1>2, <1>3, CutIs
<1>5. /\ CellsInserted(b, k, c, n) \in Buffers(sz, V)
      /\ CellsDeleted(b, k, c, n) \in Buffers(sz, V)
  BY <1>4, BuffersTyped
<1>6. /\ \E g : CellsFrom(g, sz, CellsInserted(b, k, c, n), sz, b, Whole(k, sz))
      /\ \E g : CellsFrom(g, sz, CellsDeleted(b, k, c, n), sz, b, Whole(k, sz))
  BY <1>4, CellsInsertedFrom, CellsDeletedFrom
<1>7. /\ \E g : CellsFrom(g, sz, CellsInserted(b, k, c, n), sz, b, Whole(r, sz))
      /\ \E g : CellsFrom(g, sz, CellsDeleted(b, k, c, n), sz, b, Whole(r, sz))
  BY <1>2, <1>3, <1>6, CutFrom
<1>8. QED
  BY <1>2, <1>3, <1>5, <1>7, CellsCut

-----------------------------------------------------------------------------
(* The invariant *)

Values == 0..writes
AllLimits == Limits \cup {DefaultScrollbackSize}

\* Every screen is on a buffer of its size, has a region and a scrollback that
\* holds stripped lines, no more than its limit.
Typed ==
  /\ size \in Sizes /\ active \in Screens /\ writes \in 0..MaxWrites
  /\ buf \in [Screens -> Buffers(size, Values)]
  /\ scroll \in [Screens -> AllRegions]
  /\ limit \in [Screens -> AllLimits]
  /\ history = [s \in Screens |-> history[s]]
  /\ \A s \in Screens : GoodLog(history[s], Values, limit[s])

\* A step that writes nothing: every cell was there before, and the scrollback
\* of every screen gets new lines, or is emptied, or gets another limit.
StepMoves ==
  \A s \in Screens :
    Moves(size', history'[s], buf'[s], size, history[s], buf[s], Whole(scroll[s], size))
Enters(s) == limit'[s] = limit[s] /\ Entered(history'[s], history[s], limit[s])
Empties(s) == limit'[s] = limit[s] /\ history'[s] = <<>>
Limited(s) == limit'[s] \in AllLimits /\ history'[s] = LastLines(history[s], limit'[s])
LogStep(s) == Enters(s) \/ Empties(s) \/ Limited(s)
GoodStep == Typed' /\ StepMoves /\ \A s \in Screens : LogStep(s)

\* The sizes and the limits that the program works with.
LEMMA SizesAre ==
  /\ \A sz \in Sizes : sz \in ScreenSize
  /\ \A max \in AllLimits : max \in Nat \ {0}
BY SizesAssumption, LimitsAssumption DEF ScreenSize, AllLimits

\* What the invariant says of one screen.
LEMMA TypedScreen ==
  ASSUME Typed, NEW s \in Screens
  PROVE  /\ size \in ScreenSize /\ Blank \in Values /\ limit[s] \in Nat \ {0}
         /\ limit[s] \in AllLimits
         /\ GoodScreen(size, buf[s], history[s], Values, limit[s])
         /\ buf[s] \in Buffers(size, Values) /\ GoodLog(history[s], Values, limit[s])
         /\ scroll[s] \in AllRegions
<1>1. Blank \in Values
  BY DEF Typed, Blank, Values
<1>2. size \in ScreenSize /\ limit[s] \in Nat \ {0} /\ limit[s] \in AllLimits
  BY SizesAre DEF Typed
<1>3. buf[s] \in Buffers(size, Values) /\ GoodLog(history[s], Values, limit[s]) /\ scroll[s] \in AllRegions
  BY DEF Typed
<1>4. QED
  BY <1>1, <1>2, <1>3 DEF GoodScreen

\* A scrollback as it was has lost no line.
LEMMA EnteredSame ==
  ASSUME NEW V, NEW log, NEW max, GoodLog(log, V, max)
  PROVE  Entered(log, log, max)
<1>1. Len(log) \in Nat
  BY LenProperties DEF GoodLog
<1>2. Len(log) \in 0..Len(log) /\ \A i \in 1..Len(log) : Len(log) - Len(log) + i = i
  BY <1>1
<1>3. QED
  BY <1>2 DEF Entered

\* A step in which no lines enter a scrollback.
KeptStep ==
  /\ size' \in Sizes /\ active' \in Screens /\ writes' = writes
  /\ buf' \in [Screens -> Buffers(size', Values)]
  /\ scroll' \in [Screens -> AllRegions]
  /\ limit' \in [Screens -> AllLimits]
  /\ history' = [s \in Screens |-> history'[s]]
  /\ \A s \in Screens :
       \/ limit'[s] = limit[s] /\ history'[s] = history[s]
       \/ Empties(s) \/ Limited(s)
  /\ \A s \in Screens :
       \E g : CellsFrom(g, size', buf'[s], size, buf[s], Whole(scroll[s], size))

\* Such a step is a good step.
LEMMA KeptSteps ==
  ASSUME Typed, KeptStep
  PROVE  GoodStep
<1>1. ASSUME NEW s \in Screens
      PROVE  /\ GoodLog(history'[s], Values, limit'[s]) /\ IsNewest(history'[s], history[s])
             /\ LogStep(s)
  <2>1. limit'[s] \in AllLimits /\ limit'[s] \in Nat \ {0}
    BY SizesAre DEF KeptStep
  <2>2. limit[s] \in Nat \ {0} /\ GoodLog(history[s], Values, limit[s])
    BY TypedScreen
  <2>3. /\ GoodLog(LastLines(history[s], limit'[s]), Values, limit'[s])
        /\ IsNewest(LastLines(history[s], limit'[s]), history[s])
        /\ IsNewest(history[s], history[s])
        /\ GoodLog(<<>>, Values, limit'[s]) /\ IsNewest(<<>>, history[s])
    BY <2>1, <2>2, LastLinesAre
  <2>4. CASE limit'[s] = limit[s] /\ history'[s] = history[s]
    BY <2>2, <2>3, <2>4, EnteredSame DEF LogStep, Enters
  <2>5. CASE Empties(s)
    BY <2>3, <2>5 DEF LogStep, Empties
  <2>6. CASE Limited(s)
    BY <2>3, <2>6 DEF LogStep, Limited
  <2>7. QED
    BY <2>4, <2>5, <2>6 DEF KeptStep
<1>2. Values' = Values
  BY DEF Values, KeptStep
<1>3. Typed'
  BY <1>1, <1>2 DEF Typed, KeptStep
<1>4. ASSUME NEW s \in Screens
      PROVE  Moves(size', history'[s], buf'[s], size, history[s], buf[s], Whole(scroll[s], size))
  <2>1. PICK sz2, b2, log2, max2 : sz2 = size' /\ b2 = buf'[s] /\ log2 = history'[s] /\ max2 = limit'[s]
    OBVIOUS
  <2>2. sz2 \in ScreenSize /\ b2 \in Buffers(sz2, Values)
    BY <2>1, SizesAre DEF KeptStep
  <2>3. GoodScreen(sz2, b2, log2, Values, max2)
    BY <1>1, <2>1, <2>2 DEF GoodScreen
  <2>4. \E g : CellsFrom(g, sz2, b2, size, buf[s], Whole(scroll[s], size))
    BY <2>1 DEF KeptStep
  <2>5. size \in ScreenSize /\ GoodScreen(size, buf[s], history[s], Values, limit[s])
    BY TypedScreen
  <2>6. IsNewest(log2, history[s])
    BY <1>1, <2>1
  <2>7. Moves(sz2, log2, b2, size, history[s], buf[s], Whole(scroll[s], size))
    BY <2>2, <2>3, <2>4, <2>5, <2>6, ScreenKept
  <2>8. QED
    BY <2>1, <2>7
<1>5. QED
  BY <1>1, <1>3, <1>4 DEF GoodStep, StepMoves

\* A step in which lines enter the scrollback of the active screen.
LEMMA EnterSteps ==
  ASSUME Typed, NEW b2, NEW log2,
         buf' = [buf EXCEPT ![active] = b2],
         history' = [history EXCEPT ![active] = log2],
         UNCHANGED <<size, active, scroll, limit, writes>>,
         GoodScreen(size, b2, log2, Values, limit[active]),
         Entered(log2, history[active], limit[active]),
         Moves(size, log2, b2, size, history[active], buf[active], Whole(scroll[active], size))
  PROVE  GoodStep
<1>1. active \in Screens /\ Values' = Values
  BY DEF Typed, Values
<1>2. /\ buf' \in [Screens -> Buffers(size, Values)]
      /\ buf'[active] = b2 /\ \A s \in Screens : s # active => buf'[s] = buf[s]
  BY <1>1 DEF Typed, GoodScreen
<1>3. /\ history' = [s \in Screens |-> history'[s]]
      /\ history'[active] = log2 /\ \A s \in Screens : s # active => history'[s] = history[s]
  BY <1>1 DEF Typed
<1>4. Typed'
  <2>1. \A s \in Screens : GoodLog(history'[s], Values, limit[s])
    BY <1>3 DEF Typed, GoodScreen
  <2>2. QED
    BY <1>1, <1>2, <1>3, <2>1 DEF Typed
<1>5. ASSUME NEW s \in Screens, s # active
      PROVE  /\ LogStep(s)
             /\ Moves(size', history'[s], buf'[s], size, history[s], buf[s], Whole(scroll[s], size))
  <2>1. LogStep(s)
    BY <1>3, <1>5, TypedScreen, EnteredSame DEF LogStep, Enters
  <2>2. /\ size \in ScreenSize /\ GoodScreen(size, buf[s], history[s], Values, limit[s])
        /\ limit[s] \in Nat \ {0} /\ GoodLog(history[s], Values, limit[s])
    BY TypedScreen
  <2>3. IsNewest(history[s], history[s])
    BY <2>2, LastLinesAre
  <2>4. \E g : CellsFrom(g, size, buf[s], size, buf[s], Whole(scroll[s], size))
    BY SameFrom
  <2>5. Moves(size, history[s], buf[s], size, history[s], buf[s], Whole(scroll[s], size))
    BY <2>2, <2>3, <2>4, ScreenKept
  <2>6. QED
    BY <1>2, <1>3, <1>5, <2>1, <2>5
<1>6. /\ LogStep(active)
      /\ Moves(size', history'[active], buf'[active], size, history[active], buf[active], Whole(scroll[active], size))
  BY <1>2, <1>3 DEF LogStep, Enters
<1>7. QED
  BY <1>4, <1>5, <1>6 DEF GoodStep, StepMoves

-----------------------------------------------------------------------------
(* The steps that write nothing *)

\* Cells of the active screen change, and lines of its scrollback may go.
LEMMA DrawKept ==
  ASSUME Typed, NEW b2 \in Buffers(size, Values),
         \E g : CellsFrom(g, size, b2, size, buf[active], Whole(Region, size)),
         buf' = [buf EXCEPT ![active] = b2],
         history' = history \/ history' = [history EXCEPT ![active] = <<>>],
         UNCHANGED <<size, active, scroll, limit, writes>>
  PROVE  GoodStep
<1>1. active \in Screens
  BY DEF Typed
<1>2. /\ buf' \in [Screens -> Buffers(size, Values)]
      /\ buf'[active] = b2 /\ \A s \in Screens : s # active => buf'[s] = buf[s]
  BY <1>1 DEF Typed
<1>3. \A s \in Screens :
        \E g : CellsFrom(g, size', buf'[s], size, buf[s], Whole(scroll[s], size))
  <2>1. \E g : CellsFrom(g, size', buf'[active], size, buf[active], Whole(scroll[active], size))
    BY <1>2 DEF Region
  <2>2. ASSUME NEW s \in Screens, s # active
        PROVE  \E g : CellsFrom(g, size', buf'[s], size, buf[s], Whole(scroll[s], size))
    BY <1>2, <2>2, SameFrom
  <2>3. QED
    BY <2>1, <2>2
<1>4. /\ history' = [s \in Screens |-> history'[s]]
      /\ \A s \in Screens : history'[s] = history[s] \/ history'[s] = <<>>
  BY <1>1 DEF Typed
<1>5. KeptStep
  BY <1>1, <1>2, <1>3, <1>4 DEF KeptStep, Typed, Empties
<1>6. QED
  BY <1>5, KeptSteps

\* Inserting lines at a row of the region, wherever it is.
LEMMA InsertLineSteps ==
  ASSUME Typed, NEW c, c.y \in Int, NEW n \in Nat, InsertLine(c, n)
  PROVE  GoodStep
<1>1. PICK b, r : b = buf[active] /\ r = Region
  OBVIOUS
<1>2. /\ active \in Screens /\ size \in ScreenSize /\ b \in Buffers(size, Values)
      /\ r \in AllRegions /\ Blank \in Values
  BY <1>1, TypedScreen DEF Typed, Region
<1>3. n \in Nat \ {0} /\ In(c, r) /\ Draw(LinesInserted(b, r, c.y, n))
  BY <1>1 DEF InsertLine
<1>4. c.y \in Nat /\ r.top <= c.y /\ c.y < r.bottom
  BY <1>2, <1>3 DEF In, AllRegions
<1>5. PICK b2 : b2 = LinesInserted(b, r, c.y, n)
  OBVIOUS
<1>6. b2 \in Buffers(size, Values) /\ \E g : CellsFrom(g, size, b2, size, b, Whole(r, size))
  BY <1>2, <1>3, <1>4, <1>5, EditedLines
<1>7. QED
  BY <1>1, <1>3, <1>5, <1>6, DrawKept DEF Draw

\* Inserting and deleting cells at a position of the region.
LEMMA EditSteps ==
  ASSUME Typed, NEW c \in OnScreen(size), NEW n \in Nat, InsertCell(c, n) \/ DeleteCell(c, n)
  PROVE  GoodStep
<1>1. PICK b, r : b = buf[active] /\ r = Region
  OBVIOUS
<1>2. /\ active \in Screens /\ size \in ScreenSize /\ b \in Buffers(size, Values)
      /\ r \in AllRegions /\ Blank \in Values
  BY <1>1, TypedScreen DEF Typed, Region
<1>3. n \in Nat \ {0} /\ In(c, r)
  BY <1>1 DEF InsertCell, DeleteCell
<1>4. ASSUME NEW b2 \in Buffers(size, Values), Draw(b2),
             \E g : CellsFrom(g, size, b2, size, b, Whole(r, size))
      PROVE  GoodStep
  BY <1>1, <1>4, DrawKept DEF Draw
<1>5. CASE InsertCell(c, n)
  <2>1. PICK b2 : b2 = CellsInserted(b, r, c, n)
    OBVIOUS
  <2>2. Draw(b2)
    BY <1>1, <1>5, <2>1 DEF InsertCell
  <2>3. b2 \in Buffers(size, Values) /\ \E g : CellsFrom(g, size, b2, size, b, Whole(r, size))
    BY <1>2, <1>3, <2>1, EditedCells
  <2>4. QED
    BY <1>4, <2>2, <2>3
<1>6. CASE DeleteCell(c, n)
  <2>1. PICK b2 : b2 = CellsDeleted(b, r, c, n)
    OBVIOUS
  <2>2. Draw(b2) /\ (c.x + n <= r.right - 1 => r.right - 1 < size.w)
    BY <1>1, <1>6, <2>1 DEF DeleteCell, ColumnsExist
  <2>3. b2 \in Buffers(size, Values) /\ \E g : CellsFrom(g, size, b2, size, b, Whole(r, size))
    BY <1>2, <1>3, <2>1, <2>2, EditedCells
  <2>4. QED
    BY <1>4, <2>2, <2>3
<1>7. QED
  BY <1>5, <1>6

\* No row, no line that enters a scrollback.
LEMMA NothingPushed ==
  ASSUME NEW log, NEW rows, Len(rows) = 0, NEW max
  PROVE  PushRows(log, rows, TRUE, max) = log
<1>1. PICK empty : empty = TRUE
  OBVIOUS
<1>2. Len(rows) \in Nat
  OBVIOUS
<1>3. PICK f : Pushing(f, log, rows, empty, max) /\ PushRows(log, rows, empty, max) = f[Len(rows)]
  BY <1>2, PushRowsIs
<1>4. f[0] = log
  BY <1>2, <1>3 DEF Pushing
<1>5. QED
  BY <1>1, <1>3, <1>4

\* Deleted lines move up, and those that leave at the top enter the scrollback:
\* what is saved is exactly what is removed from the screen.
LEMMA DeleteLineSteps ==
  ASSUME Typed, NEW c, c.y \in Int, NEW n \in Nat, DeleteLine(c, n)
  PROVE  GoodStep
<1>1. PICK b, r, y : b = buf[active] /\ r = Region /\ y = c.y
  OBVIOUS
<1>2. /\ active \in Screens /\ size \in ScreenSize /\ b \in Buffers(size, Values)
      /\ r \in AllRegions /\ Blank \in Values /\ r = scroll[active]
      /\ GoodScreen(size, b, history[active], Values, limit[active])
      /\ limit[active] \in Nat \ {0}
  BY <1>1, TypedScreen DEF Typed, Region
<1>3. n \in Nat \ {0} /\ In(c, r)
  BY <1>1 DEF DeleteLine
<1>4. /\ r.left \in Nat /\ r.top \in Nat /\ r.right \in Nat /\ r.bottom \in Nat
      /\ y \in Nat /\ r.top <= y /\ y < r.bottom /\ size.w \in Nat /\ size.h \in Nat
  BY <1>1, <1>2, <1>3 DEF In, AllRegions, ScreenSize
<1>5. PICK b2, rows, log2 :
        /\ b2 = LinesDeleted(b, r, y, n)
        /\ rows = [i \in 1..Lesser(Lesser(n, r.bottom - y), size.h - y) |-> b[y + i - 1]]
        /\ log2 = PushRows(history[active], rows, TRUE, limit[active])
  OBVIOUS
<1>6. /\ buf' = [buf EXCEPT ![active] = b2]
      /\ history' = [history EXCEPT ![active] = IF y = r.top /\ FullWidth THEN log2 ELSE @]
      /\ UNCHANGED <<size, active, scroll, limit, writes>>
      /\ y < size.h /\ y + n <= r.bottom - 1 => r.bottom - 1 < size.h
  BY <1>1, <1>5 DEF DeleteLine, PushN, RowsExist
<1>7. FullWidth <=> r.left = 0 /\ r.right = size.w
  BY <1>1 DEF FullWidth
<1>8. b2 \in Buffers(size, Values) /\ \E g : CellsFrom(g, size, b2, size, b, Whole(r, size))
  BY <1>2, <1>3, <1>4, <1>5, <1>6, EditedLines
<1>9. CASE history' = history
  BY <1>1, <1>6, <1>8, <1>9, DrawKept
<1>10. CASE ~(y = r.top /\ FullWidth)
  BY <1>2, <1>6, <1>9, <1>10 DEF Typed
<1>11. CASE y >= size.h
  <2>1. Lesser(Lesser(n, r.bottom - y), size.h - y) <= 0
    BY <1>4, <1>11 DEF Lesser
  <2>2. rows = <<>>
    BY <1>4, <1>5, <2>1 DEF Lesser
  <2>3. log2 = history[active]
    BY <1>5, <2>2, EmptySeq, NothingPushed
  <2>4. QED
    BY <1>2, <1>6, <1>9, <2>3 DEF Typed
<1>12. CASE y = r.top /\ FullWidth /\ y < size.h
  <2>1. PICK k, m : k = Cut(r, size) /\ m = Lesser(Lesser(n, r.bottom - y), size.h - y)
    OBVIOUS
  <2>2. r.left < size.w /\ r.top < size.h /\ r.left = 0 /\ r.right = size.w
    BY <1>2, <1>7, <1>12 DEF ScreenSize
  <2>3. /\ k \in Regions(size) /\ k.left = 0 /\ k.right = size.w /\ k.top = y
        /\ k.bottom = Lesser(r.bottom, size.h)
    BY <1>2, <1>4, <1>12, <2>1, <2>2, CutIs DEF Cut, Lesser
  <2>4. m \in Nat /\ m <= n /\ y + m <= k.bottom
    BY <1>3, <1>4, <1>12, <2>1, <2>3 DEF Lesser
  <2>5. b2 = LinesDeleted(b, k, y, n)
    BY <1>2, <1>3, <1>4, <1>5, <1>6, <1>12, <2>1, <2>2, LinesCut
  <2>6. RowsOf(rows, b, y, m)
    BY <1>5, <2>1 DEF RowsOf
  <2>7. /\ GoodScreen(size, b2, log2, Values, limit[active])
        /\ Entered(log2, history[active], limit[active])
        /\ Moves(size, log2, b2, size, history[active], b, Whole(k, size))
    <3>1. PICK log, max : log = history[active] /\ max = limit[active]
      OBVIOUS
    <3>2. /\ size \in ScreenSize /\ Blank \in Values /\ max \in Nat \ {0}
          /\ GoodScreen(size, b, log, Values, max)
          /\ log2 = PushRows(log, rows, TRUE, max)
      BY <1>2, <1>5, <3>1
    <3>3. /\ GoodScreen(size, LinesDeleted(b, k, y, n), log2, Values, max)
          /\ Entered(log2, log, max)
          /\ Moves(size, log2, LinesDeleted(b, k, y, n), size, log, b, Whole(k, size))
      BY <1>3, <1>4, <2>3, <2>4, <2>6, <3>2, LinesScrolled
    <3>4. QED
      BY <2>5, <3>1, <3>3
  <2>8. Whole(k, size) = Whole(r, size)
    BY <1>12, <2>2, <2>3 DEF Whole
  <2>9. Moves(size, log2, b2, size, history[active], buf[active], Whole(scroll[active], size))
    BY <1>1, <1>2, <2>7, <2>8
  <2>10. history' = [history EXCEPT ![active] = log2]
    BY <1>6, <1>12
  <2>11. QED
    BY <1>6, <2>7, <2>9, <2>10, EnterSteps
<1>13. QED
  BY <1>4, <1>10, <1>11, <1>12

\* Erasing within the screen removes cells and moves none.
LEMMA EraseSteps ==
  ASSUME Typed, NEW c, NEW n,
         EraseCharacter(c, n) \/ EraseInLine(c, n) \/ EraseBelowOrAbove(c, n)
  PROVE  GoodStep
<1>1. PICK areas : Draw(Cleared(buf[active], areas))
  BY DEF EraseCharacter, EraseInLine, EraseBelowOrAbove
<1>2. active \in Screens /\ size \in ScreenSize /\ buf[active] \in Buffers(size, Values)
      /\ Bounds(size) \in Regions(size) /\ Blank \in Values
  BY TypedScreen, BoundsIs DEF Typed
<1>3. Cleared(buf[active], areas) \in Buffers(size, Values)
  <2>1. 1 \in Nat \ {0}
    OBVIOUS
  <2>2. QED
    BY <1>2, <2>1, BuffersTyped
<1>4. \E g : CellsFrom(g, size, Cleared(buf[active], areas), size, buf[active], Whole(Region, size))
  BY <1>2, ClearedFrom
<1>5. QED
  BY <1>1, <1>3, <1>4, DrawKept DEF Draw

\* A blank screen is one.
LEMMA BlankTyped ==
  ASSUME NEW sz \in ScreenSize, NEW V, Blank \in V
  PROVE  BlankScreen(sz) \in Buffers(sz, V)
BY DEF BlankScreen, Buffers

\* Erasing the screen and its scrollback leaves the other screen as it was.
LEMMA EraseEverythingSteps ==
  ASSUME Typed, EraseEverything
  PROVE  GoodStep
<1>1. active \in Screens /\ size \in ScreenSize /\ Blank \in Values
  BY TypedScreen DEF Typed
<1>2. BlankScreen(size) \in Buffers(size, Values)
  BY <1>1, BlankTyped
<1>3. \E g : CellsFrom(g, size, BlankScreen(size), size, buf[active], Whole(Region, size))
  BY BlankFrom
<1>4. QED
  BY <1>2, <1>3, DrawKept DEF EraseEverything

\* Erasing the screen moves its lines that are not empty into the scrollback.
LEMMA EraseScreenSteps ==
  ASSUME Typed, EraseScreen
  PROVE  GoodStep
<1>1. /\ active \in Screens /\ size \in ScreenSize /\ Blank \in Values
      /\ GoodScreen(size, buf[active], history[active], Values, limit[active])
      /\ limit[active] \in Nat \ {0} /\ size.h \in Nat
  BY TypedScreen DEF Typed, ScreenSize
<1>2. PICK rows : rows = [i \in 1..size.h |-> buf[active][i - 1]]
  OBVIOUS
<1>3. RowsOf(rows, buf[active], 0, size.h)
  <2>1. \A i \in 1..size.h : 0 + i - 1 = i - 1
    BY <1>1
  <2>2. QED
    BY <1>2, <2>1 DEF RowsOf
<1>4. PICK log2 : log2 = PushRows(history[active], rows, FALSE, limit[active])
  OBVIOUS
<1>5. /\ GoodScreen(size, BlankScreen(size), log2, Values, limit[active])
      /\ Entered(log2, history[active], limit[active])
      /\ Moves(size, log2, BlankScreen(size), size, history[active], buf[active], Whole(scroll[active], size))
  BY <1>1, <1>3, <1>4, ScreenErased
<1>6. /\ buf' = [buf EXCEPT ![active] = BlankScreen(size)]
      /\ history' = [history EXCEPT ![active] = log2]
      /\ UNCHANGED <<size, active, scroll, limit, writes>>
  BY <1>2, <1>4 DEF EraseScreen
<1>7. QED
  BY <1>5, <1>6, EnterSteps

\* Cells of a screen that stay as they are.
LEMMA UnchangedBuffers ==
  ASSUME Typed, UNCHANGED <<size, buf>>
  PROVE  \A s \in Screens :
           \E g : CellsFrom(g, size', buf'[s], size, buf[s], Whole(scroll[s], size))
BY SameFrom

\* A region with other rows, and one with other columns.
WithRows(rg, low, high) == [rg EXCEPT !.top = low, !.bottom = high]
WithColumns(rg, low, high) == [rg EXCEPT !.left = low, !.right = high]

\* A region with other rows or other columns is one.
LEMMA RegionWith ==
  ASSUME NEW rg \in AllRegions, NEW low \in Nat, NEW high \in Nat, low < high
  PROVE  /\ WithRows(rg, low, high) \in AllRegions
         /\ WithColumns(rg, low, high) \in AllRegions
<1>1. rg \in [left : Nat, top : Nat, right : Nat, bottom : Nat]
  BY DEF AllRegions
<1>2. PICK a : a = [rg EXCEPT !.top = low, !.bottom = high]
  OBVIOUS
<1>3. /\ a \in [left : Nat, top : Nat, right : Nat, bottom : Nat]
      /\ a.top = low /\ a.bottom = high /\ a.left = rg.left /\ a.right = rg.right
  BY <1>1, <1>2
<1>4. PICK b : b = [rg EXCEPT !.left = low, !.right = high]
  OBVIOUS
<1>5. /\ b \in [left : Nat, top : Nat, right : Nat, bottom : Nat]
      /\ b.left = low /\ b.right = high /\ b.top = rg.top /\ b.bottom = rg.bottom
  BY <1>1, <1>4
<1>6. rg.left < rg.right /\ rg.top < rg.bottom
  BY DEF AllRegions
<1>7. a \in AllRegions /\ b \in AllRegions
  BY <1>3, <1>5, <1>6 DEF AllRegions
<1>8. QED
  BY <1>2, <1>4, <1>7 DEF WithRows, WithColumns

\* Setting margins moves no cell.
LEMMA MarginSteps ==
  ASSUME Typed,
         \/ \E top \in TopMargins, bottom \in Nat : DECSTBM(top, bottom)
         \/ \E l \in Nat, r \in Nat : DECSLRM(l, r)
  PROVE  GoodStep
<1>1. active \in Screens /\ Region \in AllRegions
  BY TypedScreen DEF Typed, Region
<1>2. ASSUME NEW top \in TopMargins, NEW bottom \in Nat, DECSTBM(top, bottom)
      PROVE  \E r \in AllRegions : SetMargins(r)
  <2>1. top \in Nat /\ top < bottom
    BY <1>2, CountsAssumption DEF DECSTBM
  <2>2. WithRows(Region, top, bottom) \in AllRegions
    BY <1>1, <2>1, RegionWith
  <2>3. QED
    BY <1>2, <2>2 DEF DECSTBM, WithRows
<1>3. ASSUME NEW l \in Nat, NEW r \in Nat, DECSLRM(l, r)
      PROVE  \E rg \in AllRegions : SetMargins(rg)
  <2>1. l < r
    BY <1>3 DEF DECSLRM
  <2>2. WithColumns(Region, l, r) \in AllRegions
    BY <1>1, <2>1, RegionWith
  <2>3. QED
    BY <1>3, <2>2 DEF DECSLRM, WithColumns
<1>4. PICK r \in AllRegions : SetMargins(r)
  BY <1>2, <1>3
<1>5. scroll' \in [Screens -> AllRegions] /\ UNCHANGED <<size, active, buf, history, limit, writes>>
  BY <1>1, <1>4 DEF SetMargins, Typed
<1>6. KeptStep
  BY <1>5, UnchangedBuffers DEF KeptStep, Typed
<1>7. QED
  BY <1>6, KeptSteps

\* Switching screens moves no cell; the alternate screen loses those it had.
LEMMA ScreenSteps ==
  ASSUME Typed, EnterAlt \/ LeaveAlt
  PROVE  GoodStep
<1>1. CASE EnterAlt
  <2>1. size \in ScreenSize /\ Blank \in Values /\ "alt" \in Screens
    BY TypedScreen DEF Typed, Screens
  <2>2. BlankScreen(size) \in Buffers(size, Values)
    BY <2>1, BlankTyped
  <2>3. /\ buf' = [buf EXCEPT !["alt"] = BlankScreen(size)]
        /\ active' \in Screens /\ UNCHANGED <<size, scroll, history, limit, writes>>
    BY <1>1, <2>1 DEF EnterAlt
  <2>4. /\ buf' \in [Screens -> Buffers(size, Values)]
        /\ \A s \in Screens : buf'[s] = buf[s] \/ buf'[s] = BlankScreen(size)
    BY <2>1, <2>2, <2>3 DEF Typed
  <2>5. \A s \in Screens :
          \E g : CellsFrom(g, size', buf'[s], size, buf[s], Whole(scroll[s], size))
    BY <2>3, <2>4, SameFrom, BlankFrom
  <2>6. KeptStep
    BY <2>3, <2>4, <2>5 DEF KeptStep, Typed
  <2>7. QED
    BY <2>6, KeptSteps
<1>2. CASE LeaveAlt
  <2>1. active' \in Screens /\ UNCHANGED <<size, buf, scroll, history, limit, writes>>
    BY <1>2 DEF LeaveAlt, Screens
  <2>2. KeptStep
    BY <2>1, UnchangedBuffers DEF KeptStep, Typed
  <2>3. QED
    BY <2>2, KeptSteps
<1>3. QED
  BY <1>1, <1>2

\* A reset empties both screens, another size cuts them: their scrollback stays.
LEMMA ResetSteps ==
  ASSUME Typed, RIS \/ \E new \in Sizes : Resize(new)
  PROVE  GoodStep
<1>1. "main" \in Screens /\ active \in Screens
  BY DEF Typed, Screens
<1>2. size \in ScreenSize /\ Blank \in Values
  BY <1>1, TypedScreen
<1>3. CASE RIS
  <2>1. BlankScreen(size) \in Buffers(size, Values) /\ Bounds(size) \in AllRegions
    BY <1>2, BlankTyped, BoundsIs
  <2>2. /\ buf' \in [Screens -> Buffers(size, Values)]
        /\ scroll' \in [Screens -> AllRegions]
        /\ active' \in Screens /\ UNCHANGED <<size, history, limit, writes>>
    BY <1>1, <1>3, <2>1 DEF RIS
  <2>3. ASSUME NEW s \in Screens
        PROVE  \E g : CellsFrom(g, size', buf'[s], size, buf[s], Whole(scroll[s], size))
    <3>1. buf'[s] = BlankScreen(size) /\ size' = size
      BY <1>3 DEF RIS
    <3>2. QED
      BY <3>1, BlankFrom
  <2>4. KeptStep
    BY <2>2, <2>3 DEF KeptStep, Typed
  <2>5. QED
    BY <2>4, KeptSteps
<1>4. ASSUME NEW new \in Sizes, Resize(new)
      PROVE  GoodStep
  <2>1. new \in ScreenSize
    BY SizesAre
  <2>2. ASSUME NEW s \in Screens
        PROVE  /\ Resized(buf[s], new) \in Buffers(new, Values)
               /\ \E g : CellsFrom(g, new, Resized(buf[s], new), size, buf[s], Whole(scroll[s], size))
    <3>1. buf[s] \in Buffers(size, Values) /\ Bounds(size) \in Regions(size)
      BY <1>2, TypedScreen, BoundsIs
    <3>2. 1 \in Nat \ {0}
      OBVIOUS
    <3>3. Resized(buf[s], new) \in Buffers(new, Values)
      BY <1>2, <2>1, <3>1, <3>2, BuffersTyped
    <3>4. \E g : CellsFrom(g, new, Resized(buf[s], new), size, buf[s], Whole(scroll[s], size))
      BY <1>2, <2>1, <3>1, ResizedFrom
    <3>5. QED
      BY <3>3, <3>4
  <2>3. Bounds(new) \in AllRegions
    BY <2>1, BoundsIs
  <2>4. /\ size' = new /\ buf' = [s \in Screens |-> Resized(buf[s], new)]
        /\ scroll' = [s \in Screens |-> Bounds(new)]
        /\ UNCHANGED <<active, history, limit, writes>>
    BY <1>4 DEF Resize
  <2>5. /\ buf' \in [Screens -> Buffers(new, Values)] /\ scroll' \in [Screens -> AllRegions]
    BY <2>2, <2>3, <2>4
  <2>6. \A s \in Screens :
          \E g : CellsFrom(g, size', buf'[s], size, buf[s], Whole(scroll[s], size))
    BY <2>2, <2>4
  <2>7. KeptStep
    BY <2>4, <2>5, <2>6 DEF KeptStep, Typed
  <2>8. QED
    BY <2>7, KeptSteps
<1>5. QED
  BY <1>3, <1>4

\* What the embedding program does moves no cell.
LEMMA EmbedderSteps ==
  ASSUME Typed, ClearScrollback \/ \E max \in Limits : SetScrollbackSize(max)
  PROVE  GoodStep
<1>1. "main" \in Screens
  BY DEF Screens
<1>2. CASE ClearScrollback
  <2>1. /\ history' = [history EXCEPT !["main"] = <<>>]
        /\ UNCHANGED <<size, active, buf, scroll, limit, writes>>
    BY <1>2 DEF ClearScrollback
  <2>2. /\ history' = [s \in Screens |-> history'[s]]
        /\ \A s \in Screens : history'[s] = history[s] \/ history'[s] = <<>>
    BY <1>1, <2>1 DEF Typed
  <2>3. KeptStep
    BY <2>1, <2>2, UnchangedBuffers DEF KeptStep, Typed, Empties
  <2>4. QED
    BY <2>3, KeptSteps
<1>3. ASSUME NEW max \in Limits, SetScrollbackSize(max)
      PROVE  GoodStep
  <2>1. /\ limit' = [limit EXCEPT !["main"] = max]
        /\ history' = [history EXCEPT !["main"] = LastLines(history["main"], max)]
        /\ UNCHANGED <<size, active, buf, scroll, writes>>
    BY <1>3 DEF SetScrollbackSize
  <2>2. max \in AllLimits
    BY DEF AllLimits
  <2>3. /\ limit' \in [Screens -> AllLimits] /\ history' = [s \in Screens |-> history'[s]]
        /\ limit'["main"] = max /\ history'["main"] = LastLines(history["main"], max)
        /\ \A s \in Screens : s # "main" => limit'[s] = limit[s] /\ history'[s] = history[s]
    BY <1>1, <2>1, <2>2 DEF Typed
  <2>4. Limited("main")
    BY <2>2, <2>3 DEF Limited
  <2>5. KeptStep
    BY <2>1, <2>3, <2>4, UnchangedBuffers DEF KeptStep, Typed
  <2>6. QED
    BY <2>5, KeptSteps
<1>4. QED
  BY <1>2, <1>3

\* A step that changes nothing.
LEMMA StutterSteps ==
  ASSUME Typed, UNCHANGED vars
  PROVE  GoodStep
<1>1. UNCHANGED <<size, active, buf, scroll, history, limit, writes>>
  BY DEF vars
<1>2. KeptStep
  BY <1>1, UnchangedBuffers DEF KeptStep, Typed
<1>3. QED
  BY <1>2, KeptSteps

\* The step of every handler but the one that writes a character.
LEMMA OtherSteps ==
  ASSUME Typed, [Next]_vars, \A c \in Positions : ~Write(c)
  PROVE  GoodStep
<1>1. /\ Positions = OnScreen(size) /\ \A n \in Counts : n \in Nat
      /\ \A c \in Positions : c.y \in Int
      /\ active \in Screens /\ size \in ScreenSize /\ Region \in AllRegions
  <2>1. Positions = OnScreen(size) /\ \A n \in Counts : n \in Nat
    BY CountsAssumption DEF Positions, OnScreen
  <2>2. active \in Screens /\ size \in ScreenSize /\ Region \in AllRegions
    BY TypedScreen DEF Typed, Region
  <2>3. \A c \in Positions : c.y \in Int
    BY <2>1, OnScreenIs
  <2>4. QED
    BY <2>1, <2>2, <2>3
<1>2. Pos(Region.left, Region.top).y \in Int
  BY <1>1 DEF AllRegions, Pos
<1>3. 1 \in Nat
  OBVIOUS
<1>4. CASE Editing
  <2>1. PICK c \in Positions :
          \/ \E n \in Counts : InsertLine(c, n) \/ DeleteLine(c, n)
          \/ \E n \in Counts : InsertCell(c, n) \/ DeleteCell(c, n)
          \/ \E n \in Counts : EraseCharacter(c, n)
          \/ \E n \in 0..2 : EraseInLine(c, n)
          \/ \E n \in 0..1 : EraseBelowOrAbove(c, n)
    BY <1>4 DEF Editing
  <2>2. c \in OnScreen(size) /\ c.y \in Int
    BY <1>1
  <2>3. QED
    BY <1>1, <2>1, <2>2, InsertLineSteps, EditSteps, DeleteLineSteps, EraseSteps
<1>5. CASE Scrolling
  <2>1. EraseScreen \/ \E n \in Nat : ScrollUp(n)
    BY <1>1, <1>3, <1>5 DEF Scrolling, Index
  <2>2. QED
    BY <1>2, <2>1, EraseScreenSteps, DeleteLineSteps DEF ScrollUp
<1>6. CASE (\E n \in Counts : ScrollDown(n)) \/ (\E c \in Positions : ReverseIndex(c))
  <2>1. \E n \in Nat : ScrollDown(n)
    BY <1>1, <1>3, <1>6 DEF ReverseIndex
  <2>2. QED
    BY <1>2, <2>1, InsertLineSteps DEF ScrollDown
<1>7. CASE Program
  <2>1. ASSUME \/ \E top \in TopMargins, bottom \in 1..(size.h + Past) : DECSTBM(top, bottom)
               \/ \E l \in 0..(size.w + Past - 1), r \in 1..(size.w + Past) : DECSLRM(l, r)
        PROVE  GoodStep
    <3>1. 1..(size.h + Past) \subseteq Nat /\ 1..(size.w + Past) \subseteq Nat
          /\ 0..(size.w + Past - 1) \subseteq Nat
      BY <1>1, PastAssumption DEF ScreenSize
    <3>2. QED
      BY <2>1, <3>1, MarginSteps
  <2>2. QED
    BY <1>4, <1>5, <1>6, <1>7, <2>1, EraseEverythingSteps, ScreenSteps DEF Program
<1>8. CASE RIS \/ Embedder
  BY <1>8, ResetSteps, EmbedderSteps DEF Embedder
<1>9. QED
  BY <1>7, <1>8, StutterSteps DEF Next

-----------------------------------------------------------------------------
(* Writing *)

\* What is in a place of a screen.
LEMMA CellTyped ==
  ASSUME NEW sz, NEW V, NEW max, NEW b, NEW log, GoodScreen(sz, b, log, V, max),
         NEW p \in Places(sz, log), sz.h \in Nat, sz.w \in Nat
  PROVE  Cell(b, log, p) \in V
<1>1. /\ p.y \in (-Len(log))..(sz.h - 1) /\ p.x \in 0..(RowLength(sz, log, p.y) - 1)
  BY PlaceIs
<1>2. log \in Seq(Seq(V)) /\ Len(log) \in Nat
  BY LenProperties DEF GoodScreen, GoodLog
<1>3. CASE p.y >= 0
  <2>1. p.y \in Rows(sz) /\ p.x \in Columns(sz)
    BY <1>1, <1>2, <1>3 DEF RowLength, Rows, Columns
  <2>2. QED
    BY <1>3, <2>1 DEF Cell, GoodScreen, Buffers
<1>4. CASE ~(p.y >= 0)
  <2>1. Len(log) + 1 + p.y \in 1..Len(log)
    BY <1>1, <1>2, <1>4
  <2>2. PICK line : line = log[Len(log) + 1 + p.y]
    OBVIOUS
  <2>3. line \in Seq(V) /\ Len(line) \in Nat
    BY <1>2, <2>1, <2>2, ElementOfSeq, LenProperties
  <2>4. p.x \in 0..(Len(line) - 1)
    BY <1>1, <1>4, <2>2 DEF RowLength
  <2>5. p.x + 1 \in 1..Len(line)
    BY <2>3, <2>4
  <2>6. line[p.x + 1] \in V
    BY <2>3, <2>5, ElementOfSeq
  <2>7. QED
    BY <1>4, <2>2, <2>6 DEF Cell
<1>5. QED
  BY <1>3, <1>4

\* More values do no harm.
LEMMA MoreValues ==
  ASSUME NEW V, NEW W, V \subseteq W, NEW max, NEW log, GoodLog(log, V, max)
  PROVE  GoodLog(log, W, max)
<1>1. log \in Seq(Seq(V)) /\ Len(log) \in Nat
  BY LenProperties DEF GoodLog
<1>2. ASSUME NEW i \in 1..Len(log)
      PROVE  log[i] \in Seq(W)
  <2>1. log[i] \in Seq(V)
    BY <1>1, ElementOfSeq
  <2>2. PICK line \in Seq(V) : line = log[i]
    BY <2>1
  <2>3. Len(line) \in Nat /\ line \in [1..Len(line) -> V]
    BY LenProperties
  <2>4. line \in [1..Len(line) -> W]
    BY <2>3
  <2>5. line \in Seq(W)
    BY <2>3, <2>4, IsSequence
  <2>6. QED
    BY <2>2, <2>5
<1>3. log \in [1..Len(log) -> Seq(V)]
  BY <1>1, LenProperties
<1>4. log \in [1..Len(log) -> Seq(W)]
  BY <1>2, <1>3
<1>5. log \in Seq(Seq(W))
  BY <1>1, <1>4, IsSequence
<1>6. QED
  BY <1>5 DEF GoodLog

\* A write changes one place, to a value no place has.
LEMMA WriteSteps ==
  ASSUME Typed, NEW c \in Positions, Write(c)
  PROVE  /\ Typed'
         /\ c \in Places(size, history[active]) /\ c.y \in 0..(size.h - 1)
         /\ UNCHANGED <<size, active, scroll, history, limit>>
         /\ \A s \in Screens : \A p \in Places(size, history[s]) :
              /\ Cell(buf'[s], history[s], p) =
                   IF s = active /\ p = c THEN writes + 1 ELSE Cell(buf[s], history[s], p)
              /\ Cell(buf[s], history[s], p) \in 0..writes
<1>1. /\ active \in Screens /\ size \in ScreenSize /\ size.h \in Nat /\ size.w \in Nat
      /\ writes \in Nat /\ writes < MaxWrites /\ MaxWrites \in Nat
  BY SizesAre, MaxWritesAssumption DEF Typed, ScreenSize, Write
<1>2. /\ writes' = writes + 1 /\ UNCHANGED <<size, active, scroll, history, limit>>
      /\ buf' = [buf EXCEPT ![active][c.y][c.x] = writes + 1]
  BY DEF Write
<1>3. Values' = 0..(writes + 1) /\ Values \subseteq Values' /\ writes + 1 \in Values'
  BY <1>1, <1>2 DEF Values
<1>4. c = Pos(c.x, c.y) /\ c.x \in 0..(size.w - 1) /\ c.y \in 0..(size.h - 1)
  BY OnScreenIs DEF Positions, OnScreen
<1>5. PICK row, screen, mine :
        /\ row = [buf[active][c.y] EXCEPT ![c.x] = writes + 1]
        /\ screen = [buf[active] EXCEPT ![c.y] = row]
        /\ mine = buf[active]
  OBVIOUS
<1>6. buf' = [buf EXCEPT ![active] = screen]
  BY <1>2, <1>5
<1>7. mine \in [0..(size.h - 1) -> [0..(size.w - 1) -> Values]]
  BY <1>1, <1>5 DEF Typed, Buffers, Rows, Columns
<1>8. mine[c.y] \in [0..(size.w - 1) -> Values]
  BY <1>4, <1>7
<1>9. row \in [0..(size.w - 1) -> Values'] /\ \A x \in 0..(size.w - 1) :
        row[x] = IF x = c.x THEN writes + 1 ELSE mine[c.y][x]
  BY <1>3, <1>4, <1>5, <1>8
<1>10. /\ screen \in [0..(size.h - 1) -> [0..(size.w - 1) -> Values']]
       /\ screen[c.y] = row /\ \A y \in 0..(size.h - 1) : y # c.y => screen[y] = mine[y]
  <2>1. \A y \in 0..(size.h - 1) : mine[y] \in [0..(size.w - 1) -> Values']
    BY <1>3, <1>7
  <2>2. screen = [mine EXCEPT ![c.y] = row]
    BY <1>5
  <2>3. QED
    BY <1>4, <1>7, <1>9, <2>1, <2>2
<1>11. /\ buf' \in [Screens -> Buffers(size, Values')]
       /\ buf'[active] = screen /\ \A s \in Screens : s # active => buf'[s] = buf[s]
  <2>1. \A s \in Screens : buf[s] \in Buffers(size, Values')
    BY <1>3 DEF Typed, Buffers
  <2>2. screen \in Buffers(size, Values')
    BY <1>10 DEF Buffers, Rows, Columns
  <2>3. QED
    BY <1>1, <1>6, <2>1, <2>2 DEF Typed
<1>12. Typed'
  <2>1. ASSUME NEW s \in Screens
        PROVE  GoodLog(history[s], Values', limit[s])
    <3>1. PICK W : W = Values'
      OBVIOUS
    <3>2. Values \subseteq W /\ GoodLog(history[s], Values, limit[s])
      BY <1>3, <3>1, TypedScreen
    <3>3. GoodLog(history[s], W, limit[s])
      BY <3>2, MoreValues
    <3>4. QED
      BY <3>1, <3>3
  <2>2. writes' \in 0..MaxWrites
    BY <1>1, <1>2
  <2>3. QED
    BY <1>2, <1>11, <2>1, <2>2 DEF Typed
<1>13. ASSUME NEW s \in Screens, NEW p \in Places(size, history[s])
       PROVE  /\ Cell(buf'[s], history[s], p) =
                   IF s = active /\ p = c THEN writes + 1 ELSE Cell(buf[s], history[s], p)
              /\ Cell(buf[s], history[s], p) \in 0..writes
  <2>1. Cell(buf[s], history[s], p) \in 0..writes
    BY <1>1, TypedScreen, CellTyped DEF Values
  <2>2. CASE s # active
    BY <1>11, <2>1, <2>2
  <2>3. CASE s = active /\ ~(p.y >= 0)
    <3>1. p # c
      BY <1>4, <2>3
    <3>2. QED
      BY <2>1, <2>3, <3>1 DEF Cell
  <2>4. CASE s = active /\ p.y >= 0
    <3>1. /\ p = Pos(p.x, p.y) /\ p.y \in (-Len(history[s]))..(size.h - 1)
          /\ p.x \in 0..(RowLength(size, history[s], p.y) - 1)
      BY PlaceIs
    <3>2. Len(history[s]) \in Nat
      <4>1. GoodLog(history[s], Values, limit[s])
        BY TypedScreen
      <4>2. QED
        BY <4>1, LenProperties DEF GoodLog
    <3>3. p.x \in 0..(size.w - 1) /\ p.y \in 0..(size.h - 1)
      BY <1>1, <2>4, <3>1, <3>2 DEF RowLength
    <3>4. p = c <=> p.x = c.x /\ p.y = c.y
      BY <1>4, <3>1
    <3>5. screen[p.y][p.x] = IF p = c THEN writes + 1 ELSE mine[p.y][p.x]
      <4>1. CASE p.y = c.y
        <5>1. screen[p.y] = row
          BY <1>10, <4>1
        <5>2. row[p.x] = IF p.x = c.x THEN writes + 1 ELSE mine[c.y][p.x]
          BY <1>9, <3>3
        <5>3. QED
          BY <3>4, <4>1, <5>1, <5>2
      <4>2. CASE p.y # c.y
        <5>1. screen[p.y] = mine[p.y]
          BY <1>10, <3>3, <4>2
        <5>2. QED
          BY <3>4, <4>2, <5>1
      <4>3. QED
        BY <4>1, <4>2
    <3>6. QED
      BY <1>5, <1>11, <2>1, <2>4, <3>5 DEF Cell
  <2>5. QED
    BY <2>2, <2>3, <2>4
<1>14. c \in Places(size, history[active])
  <2>1. Len(history[active]) \in Nat
    BY <1>1, LenProperties DEF Typed, GoodLog
  <2>2. c.y >= 0 /\ c.y \in (-Len(history[active]))..(size.h - 1)
    BY <1>1, <1>4, <2>1
  <2>3. RowLength(size, history[active], c.y) = size.w
    BY <2>2 DEF RowLength
  <2>4. QED
    BY <1>4, <2>2, <2>3, PlaceIs
<1>15. QED
  BY <1>2, <1>4, <1>12, <1>13, <1>14

\* The first states satisfy the invariant.
LEMMA TypedInit ==
  ASSUME Init
  PROVE  Typed
<1>1. size \in Sizes /\ size \in ScreenSize /\ Blank \in Values /\ writes = 0
  BY SizesAre DEF Init, Values, Blank
<1>2. BlankScreen(size) \in Buffers(size, Values) /\ Bounds(size) \in AllRegions
  BY <1>1, BlankTyped, BoundsIs
<1>3. \A max \in AllLimits : GoodLog(<<>>, Values, max)
  <2>1. <<>> \in Seq(Seq(Values)) /\ Len(<<>>) = 0
    BY EmptySeq
  <2>2. \A max \in AllLimits : max \in Nat
    BY SizesAre
  <2>3. QED
    BY <2>1, <2>2 DEF GoodLog
<1>4. DefaultScrollbackSize \in AllLimits /\ writes \in 0..MaxWrites
  BY <1>1, MaxWritesAssumption DEF AllLimits
<1>5. QED
  BY <1>1, <1>2, <1>3, <1>4 DEF Init, Typed, Screens

\* Every step of the terminal writes one cell, or moves cells and lines.
LEMMA AllSteps ==
  ASSUME Typed, [Next]_vars
  PROVE  Typed' /\ ((\E c \in Positions : Write(c)) \/ GoodStep)
<1>1. CASE \E c \in Positions : Write(c)
  BY <1>1, WriteSteps
<1>2. CASE \A c \in Positions : ~Write(c)
  <2>1. GoodStep
    BY <1>2, OtherSteps
  <2>2. QED
    BY <2>1 DEF GoodStep
<1>3. QED
  BY <1>1, <1>2

\* Buffers keep the size of the screen, regions keep a row and a column and
\* scrollbacks stay within their limits, for every screen size, count and limit
\* and for margins on the screen or past it (VtHistory!TypeOK).
THEOREM HistoryTyped == Spec => []TypeOK
<1>1. Init => Typed
  BY TypedInit
<1>2. Typed /\ [Next]_vars => Typed'
  BY AllSteps
<1>3. Typed => TypeOK
  <2> SUFFICES ASSUME Typed
               PROVE  TypeOK
    OBVIOUS
  <2>1. \A y \in Rows(size) : TRUE
    OBVIOUS
  <2>2. Values \subseteq 0..MaxWrites
    BY MaxWritesAssumption DEF Typed, Values
  <2>3. buf \in [Screens -> [Rows(size) -> [Columns(size) -> 0..MaxWrites]]]
    BY <2>2 DEF Typed, Buffers
  <2>4. ASSUME NEW s \in Screens
        PROVE  /\ 0 <= scroll[s].left /\ scroll[s].left < scroll[s].right
               /\ 0 <= scroll[s].top /\ scroll[s].top < scroll[s].bottom
               /\ Len(history[s]) <= limit[s]
               /\ \A i \in DOMAIN history[s] :
                    history[s][i] # <<>> => Last(history[s][i]) # Blank
    <3>1. scroll[s] \in AllRegions /\ GoodLog(history[s], Values, limit[s])
      BY TypedScreen
    <3>2. DOMAIN history[s] = 1..Len(history[s])
      BY <3>1, LenProperties DEF GoodLog
    <3>3. QED
      BY <3>1, <3>2 DEF AllRegions, GoodLog, Stripped, Last
  <2>5. QED
    BY <2>3, <2>4 DEF Typed, TypeOK, AllLimits
<1>4. QED
  BY <1>1, <1>2, <1>3, PTL DEF Spec

\* Cells that only move stay in one place each.
LEMMA MovesKeepOnce ==
  ASSUME StepMoves, WrittenOnce
  PROVE  WrittenOnce'
<1> DEFINE New(s) == Filled(size', history'[s], buf'[s])
<1> SUFFICES ASSUME NEW s \in Screens, NEW t \in Screens,
                    NEW p \in Places(size', history'[s]), NEW q \in Places(size', history'[t]),
                    Cell(buf'[s], history'[s], p) # Blank,
                    Cell(buf'[s], history'[s], p) = Cell(buf'[t], history'[t], q)
             PROVE  s = t /\ p = q
  BY DEF WrittenOnce
<1>1. p \in New(s) /\ q \in New(t)
  BY DEF Filled
<1>2. PICK f : /\ f \in [New(s) -> Places(size, history[s])]
               /\ \A a \in New(s) : Cell(buf[s], history[s], f[a]) = Cell(buf'[s], history'[s], a)
               /\ \A a, z \in New(s) : a # z => f[a] # f[z]
  BY DEF StepMoves, Moves
<1>3. PICK g : /\ g \in [New(t) -> Places(size, history[t])]
               /\ \A a \in New(t) : Cell(buf[t], history[t], g[a]) = Cell(buf'[t], history'[t], a)
  BY DEF StepMoves, Moves
<1> HIDE DEF New
<1>4. s = t /\ f[p] = g[q]
  <2>1. f[p] \in Places(size, history[s]) /\ g[q] \in Places(size, history[t])
    BY <1>1, <1>2, <1>3
  <2>2. /\ Cell(buf[s], history[s], f[p]) # Blank
        /\ Cell(buf[s], history[s], f[p]) = Cell(buf[t], history[t], g[q])
    BY <1>1, <1>2, <1>3
  <2>3. QED
    BY <2>1, <2>2 DEF WrittenOnce
<1>5. f[q] \in Places(size, history[s]) /\ q \in New(s)
  BY <1>1, <1>2, <1>4
<1>6. /\ Cell(buf[s], history[s], f[q]) = Cell(buf'[s], history'[s], q)
      /\ Cell(buf[s], history[s], f[p]) = Cell(buf'[s], history'[s], p)
      /\ f[p] \in Places(size, history[s])
  BY <1>1, <1>2, <1>5
<1>7. f[p] = f[q]
  BY <1>4, <1>5, <1>6 DEF WrittenOnce
<1>8. QED
  BY <1>1, <1>2, <1>4, <1>5, <1>7

\* A written cell is in one place only, on a screen or in its scrollback, for
\* every screen size, margin and count: what DeleteLine and ClearWithScrollback
\* copy into the scrollback they remove from the screen (VtHistory!WrittenOnce).
THEOREM CellsStayUnique == Spec => []WrittenOnce
<1> DEFINE Inv == Typed /\ WrittenOnce
<1>1. Init => Inv
  <2> SUFFICES ASSUME Init
               PROVE  Inv
    OBVIOUS
  <2>1. Typed
    BY TypedInit
  <2>2. ASSUME NEW s \in Screens, NEW p \in Places(size, history[s])
        PROVE  Cell(buf[s], history[s], p) = Blank
    <3>1. size \in ScreenSize
      BY <2>1, TypedScreen
    <3>2. buf[s] = BlankScreen(size) /\ history[s] = <<>> /\ Len(history[s]) = 0
      BY EmptySeq DEF Init
    <3>3. p.y \in (-0)..(size.h - 1) /\ p.x \in 0..(RowLength(size, history[s], p.y) - 1)
      BY <3>2, PlaceIs
    <3>4. p.y >= 0 /\ p.y \in Rows(size) /\ p.x \in Columns(size)
      BY <3>1, <3>3 DEF ScreenSize, RowLength, Rows, Columns
    <3>5. QED
      BY <3>2, <3>4 DEF Cell, BlankScreen
  <2>3. WrittenOnce
    BY <2>2 DEF WrittenOnce
  <2>4. QED
    BY <2>1, <2>3
<1>2. Inv /\ [Next]_vars => Inv'
  <2> SUFFICES ASSUME Typed, WrittenOnce, [Next]_vars
               PROVE  Typed' /\ WrittenOnce'
    OBVIOUS
  <2>1. CASE GoodStep
    BY <2>1, MovesKeepOnce DEF GoodStep
  <2>2. ASSUME NEW c \in Positions, Write(c)
        PROVE  WrittenOnce'
    <3>1. /\ UNCHANGED <<size, active, scroll, history, limit>>
          /\ \A s \in Screens : \A p \in Places(size, history[s]) :
              /\ Cell(buf'[s], history[s], p) =
                   IF s = active /\ p = c THEN writes + 1 ELSE Cell(buf[s], history[s], p)
              /\ Cell(buf[s], history[s], p) \in 0..writes
      BY <2>2, WriteSteps
    <3>2. writes \in Nat
      BY DEF Typed
    <3>3. size' = size /\ history' = history
      BY <3>1
    <3> SUFFICES ASSUME NEW s \in Screens, NEW t \in Screens,
                        NEW p \in Places(size, history[s]), NEW q \in Places(size, history[t]),
                        Cell(buf'[s], history[s], p) # Blank,
                        Cell(buf'[s], history[s], p) = Cell(buf'[t], history[t], q)
                 PROVE  s = t /\ p = q
      BY <3>3 DEF WrittenOnce
    <3>4. /\ Cell(buf'[s], history[s], p) =
               IF s = active /\ p = c THEN writes + 1 ELSE Cell(buf[s], history[s], p)
          /\ Cell(buf[s], history[s], p) \in 0..writes
          /\ Cell(buf'[t], history[t], q) =
               IF t = active /\ q = c THEN writes + 1 ELSE Cell(buf[t], history[t], q)
          /\ Cell(buf[t], history[t], q) \in 0..writes
      BY <3>1
    <3>5. PICK new, old, new2, old2 :
            /\ new = Cell(buf'[s], history[s], p) /\ old = Cell(buf[s], history[s], p)
            /\ new2 = Cell(buf'[t], history[t], q) /\ old2 = Cell(buf[t], history[t], q)
      OBVIOUS
    <3>6. PICK mine, other \in BOOLEAN :
            (mine <=> s = active /\ p = c) /\ (other <=> t = active /\ q = c)
      OBVIOUS
    <3>7. /\ new = (IF mine THEN writes + 1 ELSE old) /\ old \in 0..writes
          /\ new2 = (IF other THEN writes + 1 ELSE old2) /\ old2 \in 0..writes
          /\ new = new2 /\ new # Blank
      BY <3>4, <3>5, <3>6
    <3>8. mine <=> other
      BY <3>2, <3>7
    <3>9. CASE mine
      BY <3>6, <3>8, <3>9
    <3>10. CASE ~mine
      <4>1. old = old2 /\ old # Blank
        BY <3>7, <3>8, <3>10
      <4>2. /\ Cell(buf[s], history[s], p) # Blank
            /\ Cell(buf[s], history[s], p) = Cell(buf[t], history[t], q)
        BY <3>5, <4>1
      <4>3. QED
        BY <4>2 DEF WrittenOnce
    <3>11. QED
      BY <3>9, <3>10
  <2>3. QED
    BY <2>1, <2>2, AllSteps
<1>3. Inv => WrittenOnce
  OBVIOUS
<1>4. QED
  BY <1>1, <1>2, <1>3, PTL DEF Spec

\* Every region begins in the top row and spans every column.
FullRegions == \A s \in Screens : Whole(scroll[s], size)

\* Regions stay so if no margin is asked for that takes the top row or a column
\* out of the region.
LEMMA RegionsStayFull ==
  ASSUME TopMargins \subseteq {0}, "lr" \notin Groups, Typed, FullRegions, [Next]_vars
  PROVE  FullRegions'
<1>1. ASSUME UNCHANGED <<size, scroll>>
      PROVE  FullRegions'
  BY <1>1 DEF FullRegions
<1>2. ASSUME NEW b, Draw(b)
      PROVE  UNCHANGED <<size, scroll>>
  BY <1>2 DEF Draw
<1>3. ASSUME NEW c, NEW n,
             \/ InsertLine(c, n) \/ DeleteLine(c, n) \/ InsertCell(c, n) \/ DeleteCell(c, n)
             \/ EraseCharacter(c, n) \/ EraseInLine(c, n) \/ EraseBelowOrAbove(c, n) \/ Write(c)
      PROVE  UNCHANGED <<size, scroll>>
  BY <1>2, <1>3 DEF InsertLine, DeleteLine, InsertCell, DeleteCell, EraseCharacter, EraseInLine,
                    EraseBelowOrAbove, Write
<1>4. Editing => UNCHANGED <<size, scroll>>
  BY <1>3 DEF Editing
<1>5. ASSUME NEW c, NEW n, ScrollUp(n) \/ ScrollDown(n) \/ Index(c) \/ ReverseIndex(c)
      PROVE  UNCHANGED <<size, scroll>>
  BY <1>3, <1>5 DEF ScrollUp, ScrollDown, Index, ReverseIndex
<1>6. Scrolling => UNCHANGED <<size, scroll>>
  BY <1>5 DEF Scrolling, EraseScreen
<1>7. ASSUME NEW top \in TopMargins, NEW bottom, DECSTBM(top, bottom)
      PROVE  FullRegions'
  <2>1. PICK r : r = [Region EXCEPT !.top = top, !.bottom = bottom] /\ SetMargins(r)
    BY <1>7 DEF DECSTBM
  <2>2. active \in Screens /\ Region \in AllRegions /\ Region = scroll[active] /\ top = 0
    BY TypedScreen DEF Typed, Region
  <2>3. Region \in [left : Nat, top : Nat, right : Nat, bottom : Nat]
    BY <2>2 DEF AllRegions
  <2>4. r.left = Region.left /\ r.right = Region.right /\ r.top = 0
    <3>1. r = [Region EXCEPT !.top = top, !.bottom = bottom]
      BY <2>1
    <3>2. QED
      BY <2>2, <2>3, <3>1
  <2>5. Whole(r, size)
    BY <2>2, <2>4 DEF FullRegions, Whole
  <2>6. scroll' = [scroll EXCEPT ![active] = r] /\ size' = size
    BY <2>1 DEF SetMargins
  <2>7. \A s \in Screens : scroll'[s] = r \/ scroll'[s] = scroll[s]
    BY <2>2, <2>6 DEF Typed
  <2>8. QED
    BY <2>5, <2>6, <2>7 DEF FullRegions
<1>8. EraseEverything \/ EnterAlt \/ LeaveAlt => UNCHANGED <<size, scroll>>
  BY DEF EraseEverything, EnterAlt, LeaveAlt
<1>9. CASE Program
  BY <1>1, <1>4, <1>5, <1>6, <1>7, <1>8, <1>9 DEF Program
<1>10. ASSUME NEW sz \in Sizes, scroll' = [s \in Screens |-> Bounds(sz)], size' = sz
       PROVE  FullRegions'
  BY <1>10, SizesAre, BoundsIs DEF FullRegions
<1>11. CASE RIS \/ Embedder
  <2>1. CASE RIS
    <3>1. size \in Sizes /\ scroll' = [s \in Screens |-> Bounds(size)] /\ size' = size
      BY <2>1 DEF RIS, Typed
    <3>2. QED
      BY <1>10, <3>1
  <2>2. ASSUME NEW new \in Sizes, Resize(new)
        PROVE  FullRegions'
    BY <1>10, <2>2 DEF Resize
  <2>3. ClearScrollback \/ (\E max \in Limits : SetScrollbackSize(max)) => UNCHANGED <<size, scroll>>
    BY DEF ClearScrollback, SetScrollbackSize
  <2>4. QED
    BY <1>1, <1>11, <2>1, <2>2, <2>3 DEF Embedder
<1>12. CASE UNCHANGED vars
  BY <1>1, <1>12 DEF vars
<1>13. QED
  BY <1>9, <1>11, <1>12 DEF Next

\* What is written last is below and after what was written before.
LEMMA WriteKeepsOrder ==
  ASSUME Typed, ReadInOrder, LogOnly, NEW c \in Positions, Write(c)
  PROVE  ReadInOrder'
<1>1. /\ c \in Places(size, history[active]) /\ c.y \in 0..(size.h - 1)
      /\ UNCHANGED <<size, active, scroll, history, limit>>
      /\ \A s \in Screens : \A p \in Places(size, history[s]) :
           /\ Cell(buf'[s], history[s], p) =
                IF s = active /\ p = c THEN writes + 1 ELSE Cell(buf[s], history[s], p)
           /\ Cell(buf[s], history[s], p) \in 0..writes
  BY WriteSteps
<1>2. size' = size /\ history' = history /\ "main" \in Screens /\ writes \in Nat
  BY <1>1 DEF Typed, Screens
<1> SUFFICES ASSUME NEW p \in Places(size, history["main"]), NEW q \in Places(size, history["main"]),
                    Cell(buf'["main"], history["main"], p) # Blank,
                    Cell(buf'["main"], history["main"], q) # Blank,
                    Before(p, q)
             PROVE  Cell(buf'["main"], history["main"], p) < Cell(buf'["main"], history["main"], q)
  BY <1>2 DEF ReadInOrder
<1>3. PICK a, b :
        a = Cell(buf["main"], history["main"], p) /\ b = Cell(buf["main"], history["main"], q)
  OBVIOUS
<1>4. /\ Cell(buf'["main"], history["main"], p) = IF "main" = active /\ p = c THEN writes + 1 ELSE a
      /\ Cell(buf'["main"], history["main"], q) = IF "main" = active /\ q = c THEN writes + 1 ELSE b
      /\ a \in 0..writes /\ b \in 0..writes
  BY <1>1, <1>2, <1>3
<1>5. /\ p.y \in Int /\ q.y \in Int /\ q.y <= size.h - 1 /\ p.x \in Int
      /\ q.x \in Int /\ size.h \in Nat
      /\ q.y >= 0 => q.x \in Columns(size)
  <2>1. Len(history["main"]) \in Nat /\ size.h \in Nat /\ size.w \in Nat
    <3>1. GoodLog(history["main"], Values, limit["main"]) /\ size \in ScreenSize
      BY <1>2, TypedScreen
    <3>2. QED
      BY <3>1, LenProperties DEF GoodLog, ScreenSize
  <2>2. /\ p.y \in (-Len(history["main"]))..(size.h - 1) /\ p.x \in 0..(RowLength(size, history["main"], p.y) - 1)
        /\ q.y \in (-Len(history["main"]))..(size.h - 1) /\ q.x \in 0..(RowLength(size, history["main"], q.y) - 1)
    BY PlaceIs
  <2>3. p.y \in Int /\ q.y \in Int /\ q.y <= size.h - 1
    BY <2>1, <2>2
  <2>4. p.x \in Int /\ q.x \in Int
    BY <2>2
  <2>5. q.y >= 0 => q.x \in Columns(size)
    BY <2>2 DEF RowLength, Columns
  <2>6. QED
    BY <2>1, <2>3, <2>4, <2>5
<1>6. p # q
  <2>1. ~(p.y < p.y) /\ ~(p.x < p.x)
    BY <1>5
  <2>2. QED
    BY <2>1 DEF Before
<1>7. CASE "main" = active /\ p = c
  <2>1. q # c /\ b = Cell(buf'["main"], history["main"], q) /\ b # Blank
    BY <1>4, <1>6, <1>7
  <2>2. q.y \in c.y..(size.h - 1) /\ c.y >= 0 /\ q.y >= 0
    <3>1. c.y \in Int /\ c.y >= 0
      BY <1>1, <1>5
    <3>2. c.y <= q.y
      BY <1>5, <1>7 DEF Before
    <3>3. QED
      BY <1>5, <3>1, <3>2
  <2>3. LineEmpty(buf["main"][q.y])
    BY <1>7, <2>2 DEF Write, BelowEverything
  <2>4. b = buf["main"][q.y][q.x]
    BY <1>3, <2>2 DEF Cell
  <2>5. q.x \in DOMAIN buf["main"][q.y]
    <3>1. buf["main"] \in Buffers(size, Values)
      BY <1>2, TypedScreen
    <3>2. q.y \in Rows(size) /\ q.x \in Columns(size)
      <4>1. q.y \in 0..(size.h - 1)
        BY <1>5, <2>2
      <4>2. QED
        BY <1>5, <2>2, <4>1 DEF Rows
    <3>3. QED
      BY <3>1, <3>2 DEF Buffers
  <2>6. QED
    BY <2>1, <2>3, <2>4, <2>5 DEF LineEmpty
<1>8. CASE ~("main" = active /\ p = c) /\ "main" = active /\ q = c
  BY <1>2, <1>4, <1>8
<1>9. CASE ~("main" = active /\ p = c) /\ ~("main" = active /\ q = c)
  <2>1. a # Blank /\ b # Blank
    BY <1>4, <1>9
  <2>2. a < b
    BY <1>3, <2>1 DEF ReadInOrder
  <2>3. QED
    BY <1>4, <1>9, <2>2
<1>10. QED
  BY <1>7, <1>8, <1>9

\* Cells of a whole screen move without overtaking one another.
LEMMA MovesKeepOrder ==
  ASSUME StepMoves, FullRegions, LogOnly, ReadInOrder
  PROVE  ReadInOrder'
<1> DEFINE New == Filled(size', history'["main"], buf'["main"])
<1> SUFFICES ASSUME NEW p \in Places(size', history'["main"]),
                    NEW q \in Places(size', history'["main"]),
                    Cell(buf'["main"], history'["main"], p) # Blank,
                    Cell(buf'["main"], history'["main"], q) # Blank,
                    Before(p, q)
             PROVE  Cell(buf'["main"], history'["main"], p) < Cell(buf'["main"], history'["main"], q)
  BY DEF ReadInOrder
<1>1. p \in New /\ q \in New
  BY DEF Filled
<1>2. "main" \in Screens /\ Whole(scroll["main"], size)
  BY DEF FullRegions, Screens
<1>3. PICK f : /\ f \in [New -> Places(size, history["main"])]
               /\ \A a \in New : Cell(buf["main"], history["main"], f[a]) = Cell(buf'["main"], history'["main"], a)
               /\ \A a, z \in New : Before(a, z) => Before(f[a], f[z])
  BY <1>2 DEF StepMoves, Moves
<1> HIDE DEF New
<1>4. /\ f[p] \in Places(size, history["main"]) /\ f[q] \in Places(size, history["main"])
      /\ Before(f[p], f[q])
      /\ Cell(buf["main"], history["main"], f[p]) = Cell(buf'["main"], history'["main"], p)
      /\ Cell(buf["main"], history["main"], f[q]) = Cell(buf'["main"], history'["main"], q)
  BY <1>1, <1>3
<1>5. Cell(buf["main"], history["main"], f[p]) < Cell(buf["main"], history["main"], f[q])
  BY <1>4 DEF ReadInOrder
<1>6. QED
  BY <1>4, <1>5

\* What a program writes as a log is read back in that order from scrollback and
\* screen together, if no margin takes the top row or a column out of the
\* region (VtHistory!ReadInOrder). The scrollback takes the lines that leave
\* such a region, which on the screen are below those above the region.
THEOREM LogsReadInOrder ==
  ASSUME TopMargins \subseteq {0}, "lr" \notin Groups
  PROVE  Spec => []ReadInOrder
<1> DEFINE Inv == Typed /\ FullRegions /\ ReadInOrder
<1>1. Init => Inv
  <2> SUFFICES ASSUME Init
               PROVE  Inv
    OBVIOUS
  <2>1. Typed
    BY TypedInit
  <2>2. FullRegions
    BY <2>1, SizesAre, BoundsIs DEF Init, FullRegions
  <2>3. ASSUME NEW p \in Places(size, history["main"])
        PROVE  Cell(buf["main"], history["main"], p) = Blank
    <3>1. size \in ScreenSize /\ "main" \in Screens
      BY <2>1, TypedScreen DEF Screens
    <3>2. buf["main"] = BlankScreen(size) /\ history["main"] = <<>> /\ Len(history["main"]) = 0
      BY <3>1, EmptySeq DEF Init
    <3>3. p.y \in (-0)..(size.h - 1) /\ p.x \in 0..(RowLength(size, history["main"], p.y) - 1)
      BY <3>2, PlaceIs
    <3>4. p.y >= 0 /\ p.y \in Rows(size) /\ p.x \in Columns(size)
      BY <3>1, <3>3 DEF ScreenSize, RowLength, Rows, Columns
    <3>5. QED
      BY <3>2, <3>4 DEF Cell, BlankScreen
  <2>4. ReadInOrder
    BY <2>3 DEF ReadInOrder
  <2>5. QED
    BY <2>1, <2>2, <2>4
<1>2. Inv /\ [Next]_vars => Inv'
  <2> SUFFICES ASSUME Typed, FullRegions, ReadInOrder, [Next]_vars
               PROVE  Typed' /\ FullRegions' /\ ReadInOrder'
    OBVIOUS
  <2>1. Typed' /\ FullRegions'
    BY AllSteps, RegionsStayFull
  <2>2. CASE ~LogOnly
    BY <2>1, <2>2 DEF ReadInOrder
  <2>3. CASE LogOnly
    BY <2>1, <2>3, AllSteps, WriteKeepsOrder, MovesKeepOrder DEF GoodStep
  <2>4. QED
    BY <2>1, <2>2, <2>3
<1>3. Inv => ReadInOrder
  OBVIOUS
<1>4. QED
  BY <1>1, <1>2, <1>3, PTL DEF Spec

-----------------------------------------------------------------------------
(* The scrollback of the main screen as a log *)

\* Lines that entered a scrollback follow the newest lines it had.
LEMMA EnteredIsEnter ==
  ASSUME NEW V, NEW max \in Nat \ {0}, NEW log, GoodLog(log, V, max),
         NEW out, GoodLog(out, V, max), Entered(out, log, max)
  PROVE  \E k \in 0..Len(log) :
           /\ Log!IsPrefix(Log!Newest(log, k), out)
           /\ k < Len(log) => Len(out) = max
<1>1. log \in Seq(Seq(V)) /\ out \in Seq(Seq(V)) /\ Len(log) \in Nat /\ Len(out) \in Nat
  BY LenProperties DEF GoodLog
<1>2. PICK k \in 0..Len(log) : /\ k <= Len(out)
                               /\ \A i \in 1..k : out[i] = log[Len(log) - k + i]
                               /\ k < Len(log) => Len(out) = max
  BY DEF Entered
<1> DEFINE new == Log!Newest(log, k)
<1>3. new \in Seq(Seq(V)) /\ Len(new) = k /\ \A i \in 1..k : new[i] = log[Len(log) - k + i]
  <2>1. CASE Len(log) <= k
    <3>1. k = Len(log) /\ new = log
      BY <1>1, <2>1 DEF Log!Newest
    <3>2. \A i \in 1..k : Len(log) - k + i = i
      BY <1>1, <3>1
    <3>3. QED
      BY <1>1, <3>1, <3>2
  <2>2. CASE ~(Len(log) <= k)
    <3>1. new = SubSeq(log, Len(log) - k + 1, Len(log))
      BY <2>2 DEF Log!Newest
    <3>2. PICK a \in Int : a = Len(log) - k + 1
      <4>1. Len(log) - k + 1 \in Int
        BY <1>1
      <4>2. QED
        BY <4>1
    <3>3. \A i \in a..Len(log) : log[i] \in Seq(V)
      BY <1>1, <1>2, <2>2, <3>2, ElementOfSeq
    <3>4. /\ SubSeq(log, a, Len(log)) \in Seq(Seq(V))
          /\ Len(SubSeq(log, a, Len(log))) = IF a <= Len(log) THEN Len(log) - a + 1 ELSE 0
          /\ \A i \in 1..(Len(log) - a + 1) : SubSeq(log, a, Len(log))[i] = log[a + i - 1]
      BY <1>1, <3>3, SubSeqProperties
    <3>5. Len(log) - a + 1 = k /\ \A i \in 1..k : a + i - 1 = Len(log) - k + i
      BY <1>1, <3>2
    <3>6. Len(SubSeq(log, a, Len(log))) = k
      BY <1>1, <3>2, <3>4, <3>5
    <3> HIDE DEF new
    <3>7. QED
      BY <3>1, <3>2, <3>4, <3>5, <3>6
  <2>3. QED
    BY <2>1, <2>2
<1> HIDE DEF new
<1>4. SubSeq(new, 1, Len(new)) = SubSeq(out, 1, Len(new))
  <2>1. PICK s, t : s = SubSeq(new, 1, k) /\ t = SubSeq(out, 1, k)
    OBVIOUS
  <2>2. \A i \in 1..k : new[i] \in Seq(V) /\ out[i] \in Seq(V)
    <3>1. \A i \in 1..k : i \in 1..Len(out)
      BY <1>1, <1>2
    <3>2. QED
      BY <1>1, <1>3, <3>1, ElementOfSeq
  <2>3. /\ s \in Seq(Seq(V)) /\ Len(s) = IF 1 <= k THEN k - 1 + 1 ELSE 0
        /\ \A i \in 1..(k - 1 + 1) : s[i] = new[1 + i - 1]
    BY <2>1, <2>2, SubSeqProperties
  <2>4. /\ t \in Seq(Seq(V)) /\ Len(t) = IF 1 <= k THEN k - 1 + 1 ELSE 0
        /\ \A i \in 1..(k - 1 + 1) : t[i] = out[1 + i - 1]
    BY <2>1, <2>2, SubSeqProperties
  <2>5. Len(s) = k /\ Len(t) = k /\ \A i \in 1..k : s[i] = new[i] /\ t[i] = out[i]
    <3>1. k - 1 + 1 = k /\ \A i \in 1..k : 1 + i - 1 = i
      OBVIOUS
    <3>2. QED
      BY <2>3, <2>4, <3>1
  <2>6. s = t
    <3>1. \A i \in 1..Len(s) : s[i] = t[i]
      BY <1>2, <1>3, <2>5
    <3>2. QED
      BY <2>3, <2>4, <2>5, <3>1, SeqEqual
  <2>7. QED
    BY <1>3, <2>1, <2>6
<1>5. Log!IsPrefix(new, out)
  BY <1>2, <1>3, <1>4 DEF Log!IsPrefix
<1>6. QED
  BY <1>2, <1>5 DEF new

\* The scrollback of the main screen implements a bounded log: lines enter at
\* its end in their order and the oldest leave when it is full and only then
\* (VtHistory!IsScrollLog, Scrollback.Push, PushN, SetMaxLines, Clear).
THEOREM ScrollbackIsLog == Spec => IsScrollLog
<1>1. Init => Log!Init
  BY DEF Init, Log!Init, Screens
<1>2. Init => Typed
  BY TypedInit
<1>3. Typed /\ [Next]_vars => Typed'
  BY AllSteps
<1>4. Typed /\ [Next]_vars => [Log!Next]_<<history["main"], limit["main"]>>
  <2> SUFFICES ASSUME Typed, [Next]_vars
               PROVE  Log!Next \/ (history'["main"] = history["main"] /\ limit'["main"] = limit["main"])
    OBVIOUS
  <2>1. "main" \in Screens
    BY DEF Screens
  <2>2. CASE \E c \in Positions : Write(c)
    BY <2>2 DEF Write
  <2>3. CASE GoodStep
    <3>1. CASE Enters("main")
      <4>1. PICK log, out, max : /\ log = history["main"] /\ out = history'["main"]
                                 /\ max = limit["main"]
        OBVIOUS
      <4>2. limit'["main"] = max /\ Entered(out, log, max)
        BY <3>1, <4>1 DEF Enters
      <4>3. GoodLog(log, Values, max) /\ max \in Nat \ {0}
        BY <2>1, <4>1, TypedScreen
      <4>4. GoodLog(out, Values', max)
        BY <2>1, <2>3, <4>1, <4>2 DEF GoodStep, Typed
      <4>5. \E k \in 0..Len(log) :
              /\ Log!IsPrefix(Log!Newest(log, k), out)
              /\ k < Len(log) => Len(out) = max
        <5>1. Values \subseteq Values \cup Values' /\ Values' \subseteq Values \cup Values'
          OBVIOUS
        <5>2. GoodLog(log, Values \cup Values', max) /\ GoodLog(out, Values \cup Values', max)
          BY <4>3, <4>4, <5>1, MoreValues
        <5>3. QED
          BY <4>2, <4>3, <5>2, EnteredIsEnter
      <4>6. Len(out) <= max
        BY <4>4 DEF GoodLog
      <4>7. Log!Enter
        BY <4>1, <4>2, <4>5, <4>6 DEF Log!Enter
      <4>8. QED
        BY <4>7 DEF Log!Next
    <3>2. CASE Empties("main")
      BY <3>2 DEF Empties, Log!Next, Log!Clear
    <3>3. CASE Limited("main")
      <4>1. PICK log, out, max : /\ log = history["main"] /\ out = history'["main"]
                                 /\ max = limit'["main"]
        OBVIOUS
      <4>2. max \in AllLimits /\ max \in Nat /\ out = LastLines(log, max)
        BY <3>3, <4>1, SizesAre DEF Limited
      <4>3. Len(log) \in Nat
        BY <2>1, <4>1, TypedScreen, LenProperties DEF GoodLog
      <4>4. out = Log!Newest(log, max)
        BY <4>2, <4>3 DEF LastLines, Log!Newest
      <4>5. Log!SetLimit
        BY <4>1, <4>2, <4>4 DEF Log!SetLimit, AllLimits
      <4>6. QED
        BY <4>5 DEF Log!Next
    <3>4. QED
      BY <2>1, <2>3, <3>1, <3>2, <3>3 DEF GoodStep, LogStep
  <2>4. QED
    BY <2>2, <2>3, AllSteps
<1>5. QED
  BY <1>1, <1>2, <1>3, <1>4, PTL DEF Spec, IsScrollLog, Log!Spec

-----------------------------------------------------------------------------
(* The alternate screen *)

\* Every screen has a buffer and a scrollback.
Shape ==
  /\ active \in Screens
  /\ buf = [s \in Screens |-> buf[s]]
  /\ history = [s \in Screens |-> history[s]]

\* A step that changes the lines of the active screen only.
ActiveOnly ==
  /\ active' = active
  /\ buf' = buf \/ \E b : buf' = [buf EXCEPT ![active] = b]
  /\ history' = history \/ \E h : history' = [history EXCEPT ![active] = h]

\* What the screens are after such a step.
LEMMA ActiveOnlyStep ==
  ASSUME Shape, ActiveOnly
  PROVE  /\ Shape'
         /\ \A s \in Screens \ {active} : buf'[s] = buf[s] /\ history'[s] = history[s]
<1>1. /\ active \in Screens /\ active' = active
      /\ buf = [s \in Screens |-> buf[s]] /\ history = [s \in Screens |-> history[s]]
  BY DEF Shape, ActiveOnly
<1>2. /\ buf' = [s \in Screens |-> buf'[s]]
      /\ \A s \in Screens \ {active} : buf'[s] = buf[s]
  BY <1>1 DEF ActiveOnly
<1>3. /\ history' = [s \in Screens |-> history'[s]]
      /\ \A s \in Screens \ {active} : history'[s] = history[s]
  BY <1>1 DEF ActiveOnly
<1>4. QED
  BY <1>1, <1>2, <1>3 DEF Shape

\* A handler changes the lines of the active screen, or switches screens.
LEMMA ProgramSteps ==
  ASSUME Program
  PROVE  ActiveOnly \/ EnterAlt \/ LeaveAlt
<1>1. ASSUME NEW b, Draw(b)
      PROVE  ActiveOnly
  BY <1>1 DEF Draw, ActiveOnly
<1>2. ASSUME NEW c, NEW n, DeleteLine(c, n)
      PROVE  ActiveOnly
  BY <1>2 DEF DeleteLine, ActiveOnly
<1>3. ASSUME NEW c, NEW n, InsertLine(c, n)
      PROVE  ActiveOnly
  BY <1>1, <1>3 DEF InsertLine
<1>4. ASSUME NEW c \in Positions, Write(c)
      PROVE  ActiveOnly
  <2> DEFINE b == [buf[active] EXCEPT ![c.y] =
                     [buf[active][c.y] EXCEPT ![c.x] = writes + 1]]
  <2>1. buf' = [buf EXCEPT ![active] = b]
    BY <1>4 DEF Write
  <2>2. QED
    BY <1>4, <2>1 DEF Write, ActiveOnly
<1>5. ASSUME NEW c \in Positions, NEW n, EraseCharacter(c, n) \/ EraseInLine(c, n) \/ EraseBelowOrAbove(c, n)
      PROVE  ActiveOnly
  BY <1>1, <1>5 DEF EraseCharacter, EraseInLine, EraseBelowOrAbove
<1>6. ASSUME NEW c \in Positions, NEW n, InsertCell(c, n) \/ DeleteCell(c, n)
      PROVE  ActiveOnly
  BY <1>1, <1>6 DEF InsertCell, DeleteCell
<1>7. Editing => ActiveOnly
  BY <1>2, <1>3, <1>4, <1>5, <1>6 DEF Editing
<1>8. ASSUME EraseScreen \/ EraseEverything
      PROVE  ActiveOnly
  BY <1>8 DEF EraseScreen, EraseEverything, ActiveOnly
<1>9. Scrolling => ActiveOnly
  BY <1>2, <1>8 DEF Scrolling, ScrollUp, Index
<1>10. ASSUME NEW c, NEW n, ScrollDown(n) \/ ReverseIndex(c)
       PROVE  ActiveOnly
  BY <1>3, <1>10 DEF ScrollDown, ReverseIndex
<1>11. ASSUME NEW a, NEW b, DECSTBM(a, b) \/ DECSLRM(a, b)
       PROVE  ActiveOnly
  BY <1>11 DEF DECSTBM, DECSLRM, SetMargins, ActiveOnly
<1>12. QED
  BY <1>7, <1>8, <1>9, <1>10, <1>11 DEF Program

\* Every screen keeps a buffer and a scrollback.
LEMMA ShapePreserved ==
  ASSUME Shape, [Next]_vars
  PROVE  Shape'
<1>1. CASE Program
  <2>1. EnterAlt \/ LeaveAlt => Shape'
    BY DEF EnterAlt, LeaveAlt, Shape, Screens
  <2>2. QED
    BY <1>1, <2>1, ProgramSteps, ActiveOnlyStep
<1>2. CASE RIS
  BY <1>2 DEF RIS, Shape, Screens
<1>3. CASE Embedder
  BY <1>3 DEF Embedder, Resize, SetScrollbackSize, ClearScrollback, Shape
<1>4. CASE UNCHANGED vars
  BY <1>4 DEF vars, Shape
<1>5. QED
  BY <1>1, <1>2, <1>3, <1>4 DEF Next

\* Whatever a program does on the alternate screen, on the way there and on the
\* way back, the lines and the scrollback of the main screen stay as they were.
THEOREM MainUntouched == Spec => AlternateLeavesMain
<1> DEFINE Untouched == \/ active = "main" /\ active' = "main"
                        \/ /\ buf'["main"] = buf["main"]
                           /\ history'["main"] = history["main"]
                        \/ RIS \/ Embedder
<1>1. Init => Shape
  BY DEF Init, Shape, Screens
<1>2. Shape /\ [Next]_vars => Shape'
  BY ShapePreserved
<1>3. Shape /\ [Next]_vars => [Untouched]_vars
  <2> SUFFICES ASSUME Shape, Program, ~(active = "main" /\ active' = "main")
               PROVE  /\ buf'["main"] = buf["main"]
                      /\ history'["main"] = history["main"]
    BY DEF Next
  <2>1. CASE ActiveOnly
    <3>1. active = "alt"
      BY <2>1 DEF ActiveOnly, Shape, Screens
    <3>2. "main" \in Screens \ {active}
      BY <3>1 DEF Screens
    <3>3. QED
      BY <2>1, <3>2, ActiveOnlyStep
  <2>2. CASE EnterAlt
    BY <2>2 DEF EnterAlt, Shape, Screens
  <2>3. CASE LeaveAlt
    BY <2>3 DEF LeaveAlt
  <2>4. QED
    BY <2>1, <2>2, <2>3, ProgramSteps
<1>4. QED
  BY <1>1, <1>2, <1>3, PTL DEF Spec, AlternateLeavesMain

-----------------------------------------------------------------------------
(* Lines that are not empty *)

\* What is kept of the first lines, one more after another.
Filtering(f, lines) ==
  f = [i \in 0..Len(lines) |->
         IF i = 0 THEN <<>>
         ELSE IF lines[i] = <<>> THEN f[i - 1]
         ELSE Append(f[i - 1], lines[i])]

\* The recursive function that NonBlank is defined with exists.
LEMMA NonBlankIs ==
  ASSUME NEW lines, Len(lines) \in Nat
  PROVE  \E f : Filtering(f, lines) /\ NonBlank(lines) = f[Len(lines)]
<1> DEFINE Nx(v, i) == IF lines[i] = <<>> THEN v ELSE Append(v, lines[i])
           S == {k \in Nat : \E f : f = [i \in 0..k |-> IF i = 0 THEN <<>> ELSE Nx(f[i - 1], i)]}
<1>1. \A k \in Nat : k \in S
  <2> HIDE DEF Nx
  <2>1. 0 \in S
    <3> DEFINE f == [i \in 0..0 |-> <<>>]
    <3>1. f = [i \in 0..0 |-> IF i = 0 THEN <<>> ELSE Nx(f[i - 1], i)]
      OBVIOUS
    <3> HIDE DEF f
    <3>2. QED
      BY <3>1
  <2>2. ASSUME NEW k \in Nat, k \in S
        PROVE  k + 1 \in S
    <3>1. PICK f : f = [i \in 0..k |-> IF i = 0 THEN <<>> ELSE Nx(f[i - 1], i)]
      BY <2>2
    <3> DEFINE g == [i \in 0..(k + 1) |-> IF i <= k THEN f[i] ELSE Nx(f[k], k + 1)]
    <3>2. \A i \in 0..(k + 1) : g[i] = IF i = 0 THEN <<>> ELSE Nx(g[i - 1], i)
      <4> SUFFICES ASSUME NEW i \in 0..(k + 1)
                   PROVE  g[i] = IF i = 0 THEN <<>> ELSE Nx(g[i - 1], i)
        OBVIOUS
      <4>1. CASE i = 0
        BY <3>1, <4>1
      <4>2. CASE i # 0 /\ i <= k
        <5>1. g[i] = f[i] /\ g[i - 1] = f[i - 1] /\ i \in 0..k
          BY <4>2
        <5>2. f[i] = Nx(f[i - 1], i)
          BY <3>1, <4>2, <5>1
        <5>3. QED
          BY <4>2, <5>1, <5>2
      <4>3. CASE i = k + 1
        <5>1. g[i] = Nx(f[k], k + 1) /\ g[i - 1] = f[k] /\ i # 0
          BY <4>3
        <5>2. QED
          BY <4>3, <5>1
      <4>4. QED
        BY <4>1, <4>2, <4>3
    <3>3. g = [i \in 0..(k + 1) |-> IF i = 0 THEN <<>> ELSE Nx(g[i - 1], i)]
      <4>1. g = [i \in 0..(k + 1) |-> g[i]]
        OBVIOUS
      <4> HIDE DEF g
      <4>2. QED
        BY <3>2, <4>1
    <3> HIDE DEF g
    <3>4. QED
      BY <3>3
  <2>3. QED
    <3> HIDE DEF S
    <3>1. QED
      BY <2>1, <2>2, NatSetInduction
<1>2. \E f : Filtering(f, lines)
  BY <1>1 DEF Filtering
<1> DEFINE F == CHOOSE f : Filtering(f, lines)
<1>3. Filtering(F, lines)
  BY <1>2
<1>4. NonBlank(lines) = F[Len(lines)]
  BY DEF NonBlank, Filtering
<1>5. QED
  BY <1>3, <1>4

\* What it is line by line.
LEMMA FilteringLines ==
  ASSUME NEW lines, NEW n \in Nat, n = Len(lines), NEW f, Filtering(f, lines)
  PROVE  /\ f[0] = <<>>
         /\ \A i \in 1..n : f[i] = IF lines[i] = <<>> THEN f[i - 1] ELSE Append(f[i - 1], lines[i])
<1>1. f = [i \in 0..n |-> IF i = 0 THEN <<>>
                         ELSE IF lines[i] = <<>> THEN f[i - 1]
                         ELSE Append(f[i - 1], lines[i])]
  BY DEF Filtering
<1>2. f[0] = <<>>
  BY <1>1
<1>3. ASSUME NEW i \in 1..n
      PROVE  f[i] = IF lines[i] = <<>> THEN f[i - 1] ELSE Append(f[i - 1], lines[i])
  <2>1. i \in 0..n /\ i # 0
    OBVIOUS
  <2>2. QED
    BY ONLY <1>1, <2>1
<1>4. QED
  BY <1>2, <1>3

\* A line at the end is kept or not, after what is kept of the others.
LEMMA NonBlankAppend ==
  ASSUME NEW S, NEW lines \in Seq(S), NEW line \in S
  PROVE  NonBlank(Append(lines, line)) =
           IF line = <<>> THEN NonBlank(lines) ELSE Append(NonBlank(lines), line)
<1>1. PICK more : more = Append(lines, line)
  OBVIOUS
<1>2. PICK n \in Nat : n = Len(lines)
  BY LenProperties
<1>3. /\ Len(more) = n + 1 /\ more[n + 1] = line
      /\ \A i \in 1..n : more[i] = lines[i]
  BY <1>1, <1>2, AppendProperties
<1>4. PICK f : Filtering(f, lines) /\ NonBlank(lines) = f[Len(lines)]
  BY <1>2, NonBlankIs
<1>5. PICK g : Filtering(g, more) /\ NonBlank(more) = g[Len(more)]
  BY <1>3, NonBlankIs
<1>6. /\ f[0] = <<>>
      /\ \A i \in 1..n : f[i] = IF lines[i] = <<>> THEN f[i - 1] ELSE Append(f[i - 1], lines[i])
  BY <1>2, <1>4, FilteringLines
<1>7. /\ g[0] = <<>>
      /\ \A i \in 1..(n + 1) :
           g[i] = IF more[i] = <<>> THEN g[i - 1] ELSE Append(g[i - 1], more[i])
  <2>1. n + 1 \in Nat /\ n + 1 = Len(more)
    BY <1>3
  <2>2. QED
    BY <1>5, <2>1, FilteringLines
<1> DEFINE T == {i \in Nat : i <= n => f[i] = g[i]}
<1>8. 0 \in T
  BY <1>6, <1>7
<1>9. ASSUME NEW i \in Nat, i \in T
      PROVE  i + 1 \in T
  <2> SUFFICES ASSUME i + 1 <= n
               PROVE  f[i + 1] = g[i + 1]
    OBVIOUS
  <2>1. PICK k : k = i + 1
    OBVIOUS
  <2>2. k \in 1..n /\ k \in 1..(n + 1) /\ k - 1 = i /\ i <= n
    BY <2>1
  <2>3. f[k - 1] = g[k - 1] /\ more[k] = lines[k]
    BY <1>3, <1>9, <2>2
  <2>4. f[k] = g[k]
    BY <1>6, <1>7, <2>2, <2>3
  <2>5. QED
    BY <2>1, <2>4
<1>10. n \in T
  <2> HIDE DEF T
  <2>1. QED
    BY <1>8, <1>9, NatSetInduction
<1>11. g[n] = NonBlank(lines)
  BY <1>2, <1>4, <1>10
<1>12. g[n + 1] = IF line = <<>> THEN g[n] ELSE Append(g[n], line)
  <2>1. n + 1 \in 1..(n + 1) /\ (n + 1) - 1 = n
    OBVIOUS
  <2>2. QED
    BY <1>3, <1>7, <2>1
<1>13. QED
  BY <1>1, <1>3, <1>5, <1>11, <1>12

\* What is kept of no lines, and of empty ones.
LEMMA NonBlankOfEmpty ==
  ASSUME NEW lines, Len(lines) \in Nat, \A i \in 1..Len(lines) : lines[i] = <<>>
  PROVE  NonBlank(lines) = <<>>
<1>1. PICK f : Filtering(f, lines) /\ NonBlank(lines) = f[Len(lines)]
  BY NonBlankIs
<1> DEFINE T == {i \in Nat : i <= Len(lines) => f[i] = <<>>}
<1>2. 0 \in T
  BY <1>1 DEF Filtering
<1>3. ASSUME NEW i \in Nat, i \in T
      PROVE  i + 1 \in T
  <2> SUFFICES ASSUME i + 1 <= Len(lines)
               PROVE  f[i + 1] = <<>>
    OBVIOUS
  <2>1. PICK k : k = i + 1
    OBVIOUS
  <2>2. k \in 1..Len(lines) /\ k \in 0..Len(lines) /\ k # 0 /\ k - 1 = i /\ i <= Len(lines)
    BY <2>1
  <2>3. f[k] = f[k - 1]
    BY <1>1, <2>2 DEF Filtering
  <2>4. QED
    BY <1>3, <2>1, <2>2, <2>3
<1>4. Len(lines) \in T
  <2> HIDE DEF T
  <2>1. QED
    BY <1>2, <1>3, NatSetInduction
<1>5. QED
  BY <1>1, <1>4

\* What is kept of two sequences of lines, one after the other.
LEMMA NonBlankConcat ==
  ASSUME NEW S, NEW s \in Seq(S), NEW t \in Seq(S)
  PROVE  /\ NonBlank(t) \in Seq(S) /\ NonBlank(s \o t) \in Seq(S)
         /\ NonBlank(s \o t) = NonBlank(s) \o NonBlank(t)
<1> DEFINE N == {n \in Nat : \A u \in Seq(S) : Len(u) = n =>
                   /\ NonBlank(u) \in Seq(S)
                   /\ NonBlank(s) \in Seq(S) => NonBlank(s \o u) = NonBlank(s) \o NonBlank(u)}
<1>1. 0 \in N
  <2> SUFFICES ASSUME NEW u \in Seq(S), Len(u) = 0
               PROVE  /\ NonBlank(u) \in Seq(S)
                      /\ NonBlank(s) \in Seq(S) => NonBlank(s \o u) = NonBlank(s) \o NonBlank(u)
    OBVIOUS
  <2>1. u = <<>> /\ s \o u = s
    BY EmptySeq, ConcatEmptySeq
  <2>2. NonBlank(u) = <<>> /\ <<>> \in Seq(S)
    BY NonBlankOfEmpty, EmptySeq
  <2>3. QED
    BY <2>1, <2>2, ConcatEmptySeq
<1>2. ASSUME NEW n \in Nat, n \in N
      PROVE  n + 1 \in N
  <2> SUFFICES ASSUME NEW u \in Seq(S), Len(u) = n + 1
               PROVE  /\ NonBlank(u) \in Seq(S)
                      /\ NonBlank(s) \in Seq(S) => NonBlank(s \o u) = NonBlank(s) \o NonBlank(u)
    OBVIOUS
  <2>1. u # <<>>
    BY EmptySeq
  <2>2. PICK v \in Seq(S), e \in S : u = Append(v, e)
    BY <2>1, SequenceEmptyOrAppend
  <2>3. Len(v) = n
    <3>1. Len(v) \in Nat /\ Len(u) = Len(v) + 1
      BY <2>2, LenProperties, AppendProperties
    <3>2. QED
      BY <3>1
  <2>4. PICK k : k = NonBlank(v)
    OBVIOUS
  <2>5. /\ k \in Seq(S)
        /\ NonBlank(s) \in Seq(S) => NonBlank(s \o v) = NonBlank(s) \o k
    BY <1>2, <2>3, <2>4
  <2>6. NonBlank(u) = IF e = <<>> THEN k ELSE Append(k, e)
    BY <2>2, <2>4, NonBlankAppend
  <2>7. NonBlank(u) \in Seq(S)
    BY <2>5, <2>6, AppendProperties
  <2>8. ASSUME NonBlank(s) \in Seq(S)
        PROVE  NonBlank(s \o u) = NonBlank(s) \o NonBlank(u)
    <3>1. s \o v \in Seq(S)
      BY ConcatProperties
    <3>2. s \o u = Append(s \o v, e)
      <4>1. u = v \o <<e>> /\ <<e>> \in Seq(S) /\ Append(s \o v, e) = (s \o v) \o <<e>>
        BY <2>2, <3>1, AppendIsConcat
      <4>2. PICK x : x = <<e>>
        OBVIOUS
      <4>3. s \in Seq(S) /\ v \in Seq(S) /\ x \in Seq(S)
        BY <4>1, <4>2
      <4>4. (s \o v) \o x = s \o (v \o x)
        BY ONLY <4>3, ConcatAssociative, SMTT(60)
      <4>5. QED
        BY <4>1, <4>2, <4>4
    <3>3. NonBlank(s \o u) = IF e = <<>> THEN NonBlank(s \o v) ELSE Append(NonBlank(s \o v), e)
      BY <3>1, <3>2, NonBlankAppend
    <3>4. CASE e = <<>>
      BY <2>4, <2>5, <2>6, <2>8, <3>3, <3>4
    <3>5. CASE e # <<>>
      <4>1. PICK a, x : a = NonBlank(s) /\ x = <<e>>
        OBVIOUS
      <4>2. PICK q \in Seq(S) : q = k
        BY <2>5
      <4>3. a \in Seq(S) /\ k \in Seq(S) /\ x \in Seq(S)
        BY <2>5, <2>8, <4>1
      <4>4. a \o k \in Seq(S)
        BY <4>3, ConcatProperties
      <4>5. Append(a \o k, e) = (a \o k) \o x /\ Append(k, e) = k \o x
        BY <4>1, <4>3, <4>4, AppendIsConcat
      <4>6. (a \o k) \o x = a \o (k \o x)
        BY ONLY <4>3, ConcatAssociative, SMTT(60)
      <4>7. QED
        BY <2>5, <2>6, <2>8, <3>3, <3>5, <4>1, <4>5, <4>6
    <3>6. QED
      BY <3>4, <3>5
  <2>9. QED
    BY <2>7, <2>8
<1>3. \A n \in Nat : n \in N
  <2> HIDE DEF N
  <2>1. QED
    BY <1>1, <1>2, NatSetInduction
<1>4. \A u \in Seq(S) : /\ NonBlank(u) \in Seq(S)
                        /\ NonBlank(s) \in Seq(S) => NonBlank(s \o u) = NonBlank(s) \o NonBlank(u)
  BY <1>3, LenProperties
<1>5. s \o t \in Seq(S)
  BY ConcatProperties
<1>6. QED
  BY <1>4, <1>5

\* The end of a sequence is a suffix of it.
LEMMA SuffixOfConcat ==
  ASSUME NEW S, NEW s \in Seq(S), NEW t \in Seq(S)
  PROVE  IsSuffix(t, s \o t)
<1>1. PICK u : u = s \o t
  OBVIOUS
<1>2. PICK m \in Nat, n \in Nat : m = Len(s) /\ n = Len(t)
  BY LenProperties
<1>3. /\ u \in Seq(S) /\ Len(u) = m + n
      /\ \A i \in 1..(m + n) : u[i] = IF i <= m THEN s[i] ELSE t[i - m]
  BY <1>1, <1>2, ConcatProperties
<1>4. PICK a, b : a = Reverse(t) /\ b = Reverse(u)
  OBVIOUS
<1>5. /\ a = [i \in 1..n |-> t[(n - i) + 1]]
      /\ b = [i \in 1..(m + n) |-> u[((m + n) - i) + 1]]
  BY <1>2, <1>3, <1>4 DEF Reverse
<1>6. /\ a \in Seq(S) /\ Len(a) = n /\ b \in Seq(S) /\ Len(b) = m + n
  <2>1. \A i \in 1..n : t[(n - i) + 1] \in S
    BY <1>2, ElementOfSeq
  <2>2. \A i \in 1..(m + n) : u[((m + n) - i) + 1] \in S
    BY <1>3, ElementOfSeq
  <2>3. a \in [1..n -> S] /\ b \in [1..(m + n) -> S] /\ m + n \in Nat
    BY <1>5, <2>1, <2>2
  <2>4. QED
    BY <2>3, IsSequence
<1>7. ASSUME NEW i \in 1..n
      PROVE  a[i] = b[i]
  <2>1. PICK j : j = ((m + n) - i) + 1
    OBVIOUS
  <2>2. j \in 1..(m + n) /\ ~(j <= m) /\ j - m = (n - i) + 1 /\ i \in 1..(m + n)
    BY <2>1
  <2>3. b[i] = u[j] /\ a[i] = t[(n - i) + 1]
    BY <1>5, <2>1, <2>2
  <2>4. QED
    BY <1>3, <2>2, <2>3
<1>8. SubSeq(a, 1, n) = SubSeq(b, 1, n)
  <2>1. \A i \in 1..n : a[i] \in S /\ b[i] \in S
    BY <1>6, <1>7, ElementOfSeq
  <2>2. 1 \in Int /\ n \in Int /\ n - 1 + 1 = n /\ (n = 0 => ~(1 <= n)) /\ (n # 0 => 1 <= n)
    OBVIOUS
  <2>3. PICK x, y : x = SubSeq(a, 1, n) /\ y = SubSeq(b, 1, n)
    OBVIOUS
  <2>4. /\ x \in Seq(S) /\ Len(x) = n /\ \A i \in 1..n : x[i] = a[1 + i - 1]
        /\ y \in Seq(S) /\ Len(y) = n /\ \A i \in 1..n : y[i] = b[1 + i - 1]
    BY <2>1, <2>2, <2>3, SubSeqProperties
  <2>5. \A i \in 1..n : x[i] = y[i]
    <3>1. \A i \in 1..n : 1 + i - 1 = i
      OBVIOUS
    <3>2. QED
      BY <1>7, <2>4, <3>1
  <2>6. QED
    BY <2>3, <2>4, <2>5, SeqEqual
<1>9. n <= m + n
  OBVIOUS
<1>10. QED
  BY <1>1, <1>4, <1>6, <1>8, <1>9 DEF IsSuffix, IsPrefix

\* Of an empty line nothing is kept.
LEMMA BlankLineTrimmed ==
  ASSUME NEW w \in Nat, NEW V, NEW line \in [0..(w - 1) -> V], LineEmpty(line)
  PROVE  Trimmed(line) = <<>>
<1>1. PICK t : t = Trimmed(line)
  OBVIOUS
<1>2. /\ t \in Seq(V) /\ Len(t) <= w /\ Stripped(t)
      /\ \A i \in 1..Len(t) : t[i] = line[i - 1]
  BY <1>1, TrimmedLine
<1>3. Len(t) \in Nat
  BY <1>2, LenProperties
<1>4. ASSUME t # <<>>
      PROVE  FALSE
  <2>1. Len(t) \in 1..Len(t) /\ Len(t) - 1 \in 0..(w - 1)
    BY <1>2, <1>3, <1>4, EmptySeq
  <2>2. line[Len(t) - 1] = Blank
    BY <2>1 DEF LineEmpty
  <2>3. QED
    BY <1>2, <1>4, <2>1, <2>2 DEF Stripped
<1>5. QED
  BY <1>1, <1>4

\* What rows that are pushed leave is what was there and the rows, without what
\* a full scrollback drives out.
PushKeeps(log, rows, out, V, max) ==
  /\ out \in Seq(Seq(V))
  /\ \E d \in Seq(Seq(V)) :
       /\ NonBlank(log \o [i \in 1..Len(rows) |-> Trimmed(rows[i])]) = d \o NonBlank(out)
       /\ d # <<>> => Len(out) = max

\* Pushed rows are kept: nothing is driven out unless the scrollback is full.
LEMMA PushesKeep ==
  ASSUME NEW w \in Nat, NEW V, NEW max \in Nat \ {0}, NEW log, GoodLog(log, V, max),
         NEW rows \in Seq([0..(w - 1) -> V]), NEW empty \in BOOLEAN
  PROVE  PushKeeps(log, rows, PushRows(log, rows, empty, max), V, max)
<1>0. PICK trims, out : /\ trims = [i \in 1..Len(rows) |-> Trimmed(rows[i])]
                        /\ out = PushRows(log, rows, empty, max)
  OBVIOUS
<1> DEFINE L == Seq(V)
<1>1. PICK n \in Nat : n = Len(rows)
  BY LenProperties
<1>2. \A i \in 1..n : rows[i] \in [0..(w - 1) -> V]
  BY <1>1, ElementOfSeq
<1>3. \A i \in 1..n : /\ Trimmed(rows[i]) \in L
                      /\ LineEmpty(rows[i]) => Trimmed(rows[i]) = <<>>
  <2> SUFFICES ASSUME NEW i \in 1..n
               PROVE  /\ Trimmed(rows[i]) \in L
                      /\ LineEmpty(rows[i]) => Trimmed(rows[i]) = <<>>
    OBVIOUS
  <2>1. PICK line \in [0..(w - 1) -> V] : line = rows[i]
    BY <1>2
  <2>2. Trimmed(line) \in L
    BY TrimmedLine
  <2>3. LineEmpty(line) => Trimmed(line) = <<>>
    BY BlankLineTrimmed
  <2>4. QED
    BY <2>1, <2>2, <2>3
<1>4. trims \in Seq(L) /\ Len(trims) = n
  <2>1. trims \in [1..n -> L]
    BY <1>0, <1>1, <1>3
  <2>2. QED
    BY <2>1, IsSequence
<1>5. log \in Seq(L) /\ Len(log) \in Nat /\ Len(log) <= max
  BY LenProperties DEF GoodLog
<1>6. PICK f : Pushing(f, log, rows, empty, max) /\ out = f[Len(rows)]
  BY <1>0, <1>1, PushRowsIs
<1> HIDE DEF L
<1> DEFINE P(i) == /\ f[i] \in Seq(L) /\ Len(f[i]) <= max
                   /\ \E d \in Seq(L) :
                        /\ NonBlank(log \o SubSeq(trims, 1, i)) = d \o NonBlank(f[i])
                        /\ d # <<>> => Len(f[i]) = max
           N == {i \in Nat : i <= n => P(i)}
<1>7. 0 \in N
  <2>1. f[0] = log
    BY <1>1, <1>6 DEF Pushing
  <2>2. SubSeq(trims, 1, 0) = <<>>
    BY SubSeqEmpty
  <2>3. log \o <<>> = log
    BY <1>5, ConcatEmptySeq
  <2>4. NonBlank(log) \in Seq(L) /\ <<>> \in Seq(L)
    BY <1>5, <2>3, NonBlankConcat, EmptySeq
  <2>5. NonBlank(log) = <<>> \o NonBlank(log)
    BY <2>4, ConcatEmptySeq
  <2>6. P(0)
    BY <1>5, <2>1, <2>2, <2>3, <2>4, <2>5
  <2>7. QED
    BY <2>6
<1>8. ASSUME NEW i \in Nat, i \in N
      PROVE  i + 1 \in N
  <2> SUFFICES ASSUME i + 1 <= n
               PROVE  P(i + 1)
    <3> HIDE DEF P
    <3>1. QED
      OBVIOUS
  <2>1. PICK k : k = i + 1
    OBVIOUS
  <2>2. k \in 1..n /\ k - 1 = i /\ i <= n /\ k \in 0..n /\ k # 0 /\ i \in 0..n
    BY <2>1
  <2>3. PICK t \in L : t = Trimmed(rows[k])
    BY <1>3, <2>2
  <2>4. PICK v \in Seq(L) : v = f[i] /\ Len(v) <= max
    BY <1>8, <2>2
  <2>5. PICK d \in Seq(L) : /\ NonBlank(log \o SubSeq(trims, 1, i)) = d \o NonBlank(v)
                            /\ d # <<>> => Len(v) = max
    BY <1>8, <2>2, <2>4
  <2>6. f[k] = IF LineEmpty(rows[k]) /\ ~empty THEN v
               ELSE Append(IF Len(v) >= max THEN Tail(v) ELSE v, t)
    BY <1>1, <1>6, <2>2, <2>3, <2>4 DEF Pushing, Push
  <2>7. PICK s \in Seq(L) : s = SubSeq(trims, 1, i)
    <3>1. \A j \in 1..i : trims[j] \in L
      BY <1>4, <2>2, ElementOfSeq
    <3>2. SubSeq(trims, 1, i) \in Seq(L)
      BY <3>1, SubSeqProperties
    <3>3. QED
      BY <3>2
  <2>8. SubSeq(trims, 1, k) = Append(s, t)
    <3>1. 1 \in 1..Len(trims) /\ k \in 1..Len(trims)
      BY <1>4, <2>2
    <3>2. SubSeq(trims, 1, k) = SubSeq(trims, 1, k - 1) \o <<trims[k]>>
      BY <1>4, <3>1, SubSeqRecursiveSecond
    <3>3. trims[k] = t
      BY <1>0, <1>1, <2>2, <2>3
    <3>4. QED
      BY <2>2, <2>7, <3>2, <3>3, AppendIsConcat
  <2>9. PICK all \in Seq(L) : all = log \o s
    BY <1>5, ConcatProperties
  <2>10. log \o Append(s, t) = Append(all, t)
    <3>1. PICK x : x = <<t>>
      OBVIOUS
    <3>2. log \in Seq(L) /\ s \in Seq(L) /\ x \in Seq(L)
      BY <1>5, <3>1
    <3>3. (log \o s) \o x = log \o (s \o x)
      BY ONLY <3>2, ConcatAssociative, SMTT(60)
    <3>4. Append(s, t) = s \o x /\ Append(all, t) = all \o x
      BY <3>1, AppendIsConcat
    <3>5. QED
      BY <2>9, <3>3, <3>4
  <2>11. NonBlank(all) = d \o NonBlank(v) /\ NonBlank(v) \in Seq(L)
    BY <2>5, <2>7, <2>9, NonBlankConcat
  <2>12. NonBlank(Append(all, t)) = d \o NonBlank(Append(v, t))
    <3>1. /\ NonBlank(Append(all, t)) = IF t = <<>> THEN NonBlank(all) ELSE Append(NonBlank(all), t)
          /\ NonBlank(Append(v, t)) = IF t = <<>> THEN NonBlank(v) ELSE Append(NonBlank(v), t)
      BY NonBlankAppend
    <3>2. CASE t = <<>>
      BY <2>11, <3>1, <3>2
    <3>3. CASE t # <<>>
      <4>1. PICK x, y : x = <<t>> /\ y = NonBlank(v)
        OBVIOUS
      <4>2. d \in Seq(L) /\ y \in Seq(L) /\ x \in Seq(L)
        BY <2>11, <4>1
      <4>3. (d \o y) \o x = d \o (y \o x)
        BY ONLY <4>2, ConcatAssociative, SMTT(60)
      <4>4. d \o y \in Seq(L)
        BY <4>2, ConcatProperties
      <4>5. Append(d \o y, t) = (d \o y) \o x /\ Append(y, t) = y \o x
        BY <4>1, <4>2, <4>4, AppendIsConcat
      <4>6. QED
        BY <2>11, <3>1, <3>3, <4>1, <4>3, <4>5
    <3>4. QED
      BY <3>2, <3>3
  <2>13. PICK new : new = f[k]
    OBVIOUS
  <2>14. /\ new \in Seq(L) /\ Len(new) <= max
         /\ \E e \in Seq(L) : /\ NonBlank(Append(all, t)) = e \o NonBlank(new)
                              /\ e # <<>> => Len(new) = max
    <3>1. Len(v) \in Nat
      BY LenProperties
    <3>2. CASE LineEmpty(rows[k]) /\ ~empty
      <4>1. t = <<>> /\ new = v
        BY <1>3, <2>2, <2>3, <2>6, <2>13, <3>2
      <4>2. NonBlank(Append(v, t)) = NonBlank(v)
        BY <4>1, NonBlankAppend
      <4>3. QED
        BY <2>4, <2>5, <2>12, <4>1, <4>2
    <3>3. CASE ~(LineEmpty(rows[k]) /\ ~empty) /\ Len(v) < max
      <4>1. new = Append(v, t)
        BY <2>6, <2>13, <3>1, <3>3
      <4>2. new \in Seq(L) /\ Len(new) <= max
        BY <3>1, <3>3, <4>1, AppendProperties
      <4>3. d = <<>>
        BY <2>5, <3>1, <3>3
      <4>4. QED
        BY <2>12, <4>1, <4>2, <4>3
    <3>4. CASE ~(LineEmpty(rows[k]) /\ ~empty) /\ Len(v) = max
      <4>1. v # <<>>
        BY <3>4, EmptySeq
      <4>2. PICK h, u : h = <<Head(v)>> /\ u = Tail(v)
        OBVIOUS
      <4>3. h \in Seq(L) /\ u \in Seq(L) /\ Len(u) = max - 1 /\ v = h \o u
        <5>1. Head(v) \in L /\ u \in Seq(L) /\ Len(u) = max - 1
          BY <3>4, <4>1, <4>2, HeadTailProperties
        <5>2. h \in Seq(L)
          BY <4>2, <5>1
        <5>3. v = h \o u
          <6>1. 1 \in 1..Len(v) /\ Len(v) \in 1..Len(v)
            BY <3>4
          <6>2. SubSeq(v, 1, Len(v)) = <<v[1]>> \o SubSeq(v, 1 + 1, Len(v))
            BY <6>1, SubSeqRecursiveFirst
          <6>3. SubSeq(v, 1, Len(v)) = v /\ u = SubSeq(v, 2, Len(v)) /\ 1 + 1 = 2 /\ Head(v) = v[1]
            BY <4>1, <4>2, SubSeqFull, TailIsSubSeq
          <6>4. QED
            BY <4>2, <6>2, <6>3
        <5>4. QED
          BY <5>1, <5>2, <5>3
      <4>4. new = Append(u, t)
        BY <2>6, <2>13, <3>4, <4>2
      <4>5. new \in Seq(L) /\ Len(new) = max
        BY <4>3, <4>4, AppendProperties
      <4>6. Append(v, t) = h \o new
        <5>1. PICK x : x = <<t>>
          OBVIOUS
        <5>2. h \in Seq(L) /\ u \in Seq(L) /\ x \in Seq(L)
          BY <4>3, <5>1
        <5>3. (h \o u) \o x = h \o (u \o x)
          BY ONLY <5>2, ConcatAssociative, SMTT(60)
        <5>4. Append(v, t) = v \o x /\ Append(u, t) = u \o x
          BY <4>3, <5>1, AppendIsConcat
        <5>5. QED
          BY <4>3, <4>4, <5>3, <5>4
      <4>7. PICK a, b : a = NonBlank(h) /\ b = NonBlank(new)
        OBVIOUS
      <4>8. /\ NonBlank(Append(v, t)) = a \o b
            /\ d \in Seq(L) /\ a \in Seq(L) /\ b \in Seq(L)
        BY <4>3, <4>5, <4>6, <4>7, NonBlankConcat
      <4>9. (d \o a) \o b = d \o (a \o b)
        BY ONLY <4>8, ConcatAssociative, SMTT(60)
      <4>10. d \o a \in Seq(L)
        BY <4>8, ConcatProperties
      <4>11. NonBlank(Append(all, t)) = (d \o a) \o NonBlank(new)
        BY <2>12, <4>7, <4>8, <4>9
      <4>12. PICK e \in Seq(L) : e = d \o a
        BY <4>10
      <4>13. NonBlank(Append(all, t)) = e \o NonBlank(new)
        BY <4>11, <4>12
      <4>14. Len(new) <= max
        BY <4>5
      <4>15. QED
        BY <4>5, <4>13, <4>14
    <3>5. Len(v) < max \/ Len(v) = max
      BY <2>4, <3>1
    <3>6. QED
      BY <3>2, <3>3, <3>4, <3>5
  <2>15. QED
    BY <2>1, <2>8, <2>10, <2>13, <2>14
<1>9. n \in N
  <2> HIDE DEF N
  <2>1. QED
    BY <1>7, <1>8, NatSetInduction
<1>10. SubSeq(trims, 1, n) = trims
  BY <1>4, SubSeqFull
<1>11. P(n)
  <2> HIDE DEF P
  <2>1. QED
    BY <1>9
<1>12. /\ out \in Seq(L)
       /\ \E d \in Seq(L) : /\ NonBlank(log \o trims) = d \o NonBlank(out)
                            /\ d # <<>> => Len(out) = max
  BY <1>1, <1>6, <1>10, <1>11
<1>13. QED
  BY <1>0, <1>12 DEF L, PushKeeps

\* Of these lines, d in front is missing.
Without(lines2, lines, d) == NonBlank(lines) = d \o NonBlank(lines2)

\* What becomes of lines when some enter the scrollback and the rest stays:
\* what is driven out, and nothing else, is missing in front.
LEMMA LinesConserved ==
  ASSUME NEW S, NEW log, NEW gone, NEW rest, NEW out, NEW stay, NEW d,
         /\ log \in Seq(S) /\ gone \in Seq(S) /\ rest \in Seq(S)
         /\ out \in Seq(S) /\ stay \in Seq(S) /\ d \in Seq(S),
         Without(out, log \o gone, d), NonBlank(stay) = NonBlank(rest)
  PROVE  Without(out \o stay, log \o (gone \o rest), d)
<1>1. log \o (gone \o rest) = (log \o gone) \o rest
  <2>1. log \in Seq(S) /\ gone \in Seq(S) /\ rest \in Seq(S)
    OBVIOUS
  <2>2. QED
    BY ONLY <2>1, ConcatAssociative, SMTT(60)
<1>2. log \o gone \in Seq(S)
  <2>1. log \in Seq(S) /\ gone \in Seq(S)
    OBVIOUS
  <2>2. QED
    BY ONLY <2>1, ConcatProperties
<1>3. PICK q : q = log \o gone
  OBVIOUS
<1>4. NonBlank(q \o rest) = NonBlank(q) \o NonBlank(rest)
  <2>1. q \in Seq(S) /\ rest \in Seq(S)
    BY <1>2, <1>3
  <2>2. QED
    BY ONLY <2>1, NonBlankConcat
<1>5. PICK a, b : a = NonBlank(out) /\ b = NonBlank(rest)
  OBVIOUS
<1>6. d \in Seq(S) /\ a \in Seq(S) /\ b \in Seq(S)
  <2>1. out \in Seq(S) /\ rest \in Seq(S)
    OBVIOUS
  <2>2. NonBlank(out) \in Seq(S) /\ NonBlank(rest) \in Seq(S)
    BY ONLY <2>1, NonBlankConcat
  <2>3. QED
    BY <1>5, <2>2
<1>7. (d \o a) \o b = d \o (a \o b)
  BY ONLY <1>6, ConcatAssociative, SMTT(60)
<1>8. NonBlank(out \o stay) = a \o b
  <2>1. out \in Seq(S) /\ stay \in Seq(S)
    OBVIOUS
  <2>2. NonBlank(out \o stay) = NonBlank(out) \o NonBlank(stay)
    BY ONLY <2>1, NonBlankConcat
  <2>3. QED
    BY <1>5, <2>2
<1>9. QED
  BY <1>1, <1>3, <1>4, <1>5, <1>7, <1>8 DEF Without

\* The rows of a screen as lines, the topmost first.
TrimmedRows(sz, b) == [i \in 1..sz.h |-> Trimmed(b[i - 1])]

\* The rows are lines, and blank ones are empty.
LEMMA RowsTrimmed ==
  ASSUME NEW sz \in ScreenSize, NEW V, NEW b \in Buffers(sz, V)
  PROVE  /\ TrimmedRows(sz, b) \in Seq(Seq(V)) /\ Len(TrimmedRows(sz, b)) = sz.h
         /\ \A j \in 0..(sz.h - 1) : /\ Trimmed(b[j]) \in Seq(V)
                                     /\ LineEmpty(b[j]) => Trimmed(b[j]) = <<>>
<1>1. PICK w, h : w = sz.w /\ h = sz.h /\ w \in Nat /\ h \in Nat
  BY DEF ScreenSize
<1>2. \A j \in 0..(h - 1) : b[j] \in [0..(w - 1) -> V]
  BY <1>1 DEF Buffers, Rows, Columns
<1>3. ASSUME NEW j \in 0..(h - 1)
      PROVE  Trimmed(b[j]) \in Seq(V) /\ (LineEmpty(b[j]) => Trimmed(b[j]) = <<>>)
  <2>1. PICK line \in [0..(w - 1) -> V] : line = b[j]
    BY <1>2
  <2>2. Trimmed(line) \in Seq(V)
    BY <1>1, TrimmedLine
  <2>3. LineEmpty(line) => Trimmed(line) = <<>>
    BY <1>1, BlankLineTrimmed
  <2>4. QED
    BY <2>1, <2>2, <2>3
<1>4. PICK L : L = Seq(V)
  OBVIOUS
<1>5. \A j \in 0..(h - 1) : Trimmed(b[j]) \in L
  BY <1>3, <1>4
<1>6. \A i \in 1..h : i - 1 \in 0..(h - 1)
  BY <1>1
<1>7. TrimmedRows(sz, b) \in [1..h -> L]
  BY <1>1, <1>5, <1>6 DEF TrimmedRows
<1>8. TrimmedRows(sz, b) \in Seq(L) /\ Len(TrimmedRows(sz, b)) = h
  BY <1>1, <1>7, IsSequence
<1>9. QED
  BY <1>1, <1>3, <1>4, <1>8

\* The rows after lines are deleted at the top of a region of every column.
LEMMA RowsDeleted ==
  ASSUME NEW sz \in ScreenSize, NEW V, NEW b \in Buffers(sz, V),
         NEW r \in Regions(sz), r.left = 0, r.right = sz.w, r.top = 0,
         NEW n \in Nat \ {0}, NEW b2, b2 = LinesDeleted(b, r, 0, n)
  PROVE  \A j \in 0..(sz.h - 1) :
           /\ j >= r.bottom => b2[j] = b[j]
           /\ j < r.bottom /\ j + n < r.bottom => b2[j] = b[j + n]
           /\ j < r.bottom /\ ~(j + n < r.bottom) => LineEmpty(b2[j])
<1>1. PICK w, h : w = sz.w /\ h = sz.h /\ w \in Nat /\ h \in Nat
  BY DEF ScreenSize
<1>2. r.bottom \in Nat /\ r.bottom <= h
  BY <1>1 DEF Regions
<1>3. DOMAIN b = 0..(h - 1) /\ \A j \in 0..(h - 1) : b[j] = [x \in 0..(w - 1) |-> b[j][x]]
  BY <1>1 DEF Buffers, Rows, Columns
<1> SUFFICES ASSUME NEW j \in 0..(h - 1)
             PROVE  /\ j >= r.bottom => b2[j] = b[j]
                    /\ j < r.bottom /\ j + n < r.bottom => b2[j] = b[j + n]
                    /\ j < r.bottom /\ ~(j + n < r.bottom) => LineEmpty(b2[j])
  BY <1>1
<1>4. b2[j] = [x \in 0..(w - 1) |->
                 IF ~In(Pos(x, j), r) \/ j < 0 THEN b[j][x]
                 ELSE IF j + n < r.bottom THEN b[j + n][x] ELSE Blank]
  <2>1. DOMAIN b[j] = 0..(w - 1)
    BY <1>3
  <2>2. QED
    BY <1>3, <2>1 DEF LinesDeleted
<1>5. \A x \in 0..(w - 1) : In(Pos(x, j), r) <=> j < r.bottom
  BY <1>1 DEF In, Pos
<1>6. PICK k \in Nat : k = r.bottom /\ k <= h
  BY <1>2
<1>7. j \in Int /\ 0 <= j /\ j < h
  BY <1>1
<1>8. ASSUME j >= k
      PROVE  b2[j] = b[j]
  <2>1. \A x \in 0..(w - 1) : ~In(Pos(x, j), r)
    BY <1>5, <1>6, <1>7, <1>8
  <2>2. b2[j] = [x \in 0..(w - 1) |-> b[j][x]]
    BY <1>4, <2>1
  <2>3. QED
    BY <1>3, <2>2
<1>9. ASSUME j < k, j + n < k
      PROVE  b2[j] = b[j + n]
  <2>1. \A x \in 0..(w - 1) : In(Pos(x, j), r) /\ ~(j < 0)
    BY <1>5, <1>6, <1>7, <1>9
  <2>2. PICK i : i = j + n
    OBVIOUS
  <2>3. b2[j] = [x \in 0..(w - 1) |-> b[i][x]]
    BY <1>4, <1>6, <1>9, <2>1, <2>2
  <2>4. i \in 0..(h - 1)
    BY <1>1, <1>6, <1>7, <1>9, <2>2
  <2>5. QED
    BY <1>3, <2>2, <2>3, <2>4
<1>10. ASSUME j < k, ~(j + n < k)
       PROVE  LineEmpty(b2[j])
  <2>1. \A x \in 0..(w - 1) : In(Pos(x, j), r) /\ ~(j < 0)
    BY <1>5, <1>6, <1>7, <1>10
  <2>2. b2[j] = [x \in 0..(w - 1) |-> Blank]
    BY <1>4, <1>6, <1>10, <2>1
  <2>3. QED
    BY <2>2 DEF LineEmpty
<1>11. QED
  BY <1>6, <1>8, <1>9, <1>10

\* One sequence after another, element by element.
LEMMA Concatenated ==
  ASSUME NEW S, NEW s, NEW t, s \in Seq(S) /\ t \in Seq(S),
         NEW m, NEW n, Len(s) = m /\ Len(t) = n
  PROVE  /\ s \o t \in Seq(S) /\ Len(s \o t) = m + n
         /\ \A i \in 1..(m + n) : (s \o t)[i] = IF i <= m THEN s[i] ELSE t[i - m]
BY ConcatProperties

\* Sequences with the same elements are the same.
LEMMA SameElements ==
  ASSUME NEW S, NEW s, NEW t, s \in Seq(S) /\ t \in Seq(S),
         NEW n, Len(s) = n /\ Len(t) = n, \A i \in 1..n : s[i] = t[i]
  PROVE  s = t
BY SeqEqual

\* Of the lines before, what is left is an end; all of it if nothing is driven out.
KeepsLines(lines2, lines, log2, max) ==
  /\ IsSuffix(NonBlank(lines2), NonBlank(lines))
  /\ NonBlank(lines2) # NonBlank(lines) => Len(log2) = max

\* What is driven out in front, and nothing else, is missing.
LEMMA KeptWithout ==
  ASSUME NEW S, NEW d \in Seq(S), NEW kept \in Seq(S), NEW lines, NEW lines2, NEW log2, NEW max,
         NonBlank(lines2) = kept, NonBlank(lines) = d \o kept,
         d # <<>> => Len(log2) = max
  PROVE  KeepsLines(lines2, lines, log2, max)
<1>1. IsSuffix(kept, d \o kept)
  BY SuffixOfConcat
<1>2. d = <<>> => d \o kept = kept
  BY ConcatEmptySeq
<1>3. QED
  BY <1>1, <1>2 DEF KeepsLines

\* Lines that scroll off at the top of the screen are in the scrollback, unless
\* it is full.
LEMMA ScrolledLinesKept ==
  ASSUME NEW sz \in ScreenSize, NEW V, Blank \in V, NEW max \in Nat \ {0},
         NEW b \in Buffers(sz, V), NEW log, GoodLog(log, V, max),
         NEW r \in Regions(sz), r.left = 0, r.right = sz.w, r.top = 0,
         NEW n \in Nat \ {0}, NEW m \in Nat, m = Lesser(n, r.bottom),
         NEW rows, RowsOf(rows, b, 0, m),
         NEW log2, log2 = PushRows(log, rows, TRUE, max),
         NEW b2, b2 = LinesDeleted(b, r, 0, n), b2 \in Buffers(sz, V)
  PROVE  KeepsLines(log2 \o TrimmedRows(sz, b2), log \o TrimmedRows(sz, b), log2, max)
<1>1. PICK w \in Nat, h \in Nat, k \in Nat : w = sz.w /\ h = sz.h /\ k = r.bottom
  BY DEF ScreenSize, Regions
<1>2. k <= h /\ m <= k /\ m <= n /\ (m = n \/ m = k)
  BY <1>1 DEF Regions, Lesser
<1>3. PICK L : L = Seq(V)
  OBVIOUS
<1>4. <<>> \in L
  BY <1>3, EmptySeq
<1>5. PICK old, new : old = TrimmedRows(sz, b) /\ new = TrimmedRows(sz, b2)
  OBVIOUS
<1>6. /\ old = [i \in 1..h |-> Trimmed(b[i - 1])]
      /\ new = [i \in 1..h |-> Trimmed(b2[i - 1])]
  BY <1>1, <1>5 DEF TrimmedRows
<1>7. /\ \A j \in 0..(h - 1) : Trimmed(b[j]) \in L
      /\ \A j \in 0..(h - 1) : LineEmpty(b2[j]) => Trimmed(b2[j]) = <<>>
      /\ old \in Seq(L) /\ Len(old) = h /\ new \in Seq(L) /\ Len(new) = h
  BY <1>1, <1>3, <1>5, RowsTrimmed
<1>8. \A j \in 0..(h - 1) :
        /\ j >= k => b2[j] = b[j]
        /\ j < k /\ j + n < k => b2[j] = b[j + n]
        /\ j < k /\ ~(j + n < k) => LineEmpty(b2[j])
  BY <1>1, RowsDeleted
<1>9. PICK gone : gone = [i \in 1..m |-> Trimmed(b[i - 1])]
  OBVIOUS
<1>10. PICK moved : moved = [i \in 1..(k - m) |-> Trimmed(b[m + i - 1])]
  OBVIOUS
<1>11. PICK under : under = [i \in 1..(h - k) |-> Trimmed(b[k + i - 1])]
  OBVIOUS
<1>12. PICK empties : empties = [i \in 1..m |-> <<>>]
  OBVIOUS
<1>13. gone \in Seq(L) /\ Len(gone) = m
  <2>1. \A i \in 1..m : i - 1 \in 0..(h - 1)
    BY <1>2
  <2>2. gone \in [1..m -> L]
    BY <1>7, <1>9, <2>1
  <2>3. QED
    BY <2>2, IsSequence
<1>14. moved \in Seq(L) /\ Len(moved) = k - m
  <2>1. \A i \in 1..(k - m) : m + i - 1 \in 0..(h - 1)
    BY <1>2
  <2>2. moved \in [1..(k - m) -> L] /\ k - m \in Nat
    BY <1>2, <1>7, <1>10, <2>1
  <2>3. QED
    BY <2>2, IsSequence
<1>15. under \in Seq(L) /\ Len(under) = h - k
  <2>1. \A i \in 1..(h - k) : k + i - 1 \in 0..(h - 1)
    BY <1>2
  <2>2. under \in [1..(h - k) -> L] /\ h - k \in Nat
    BY <1>2, <1>7, <1>11, <2>1
  <2>3. QED
    BY <2>2, IsSequence
<1>16. empties \in Seq(L) /\ Len(empties) = m
  <2>1. empties \in [1..m -> L]
    BY <1>4, <1>12
  <2>2. QED
    BY <2>1, IsSequence
<1>17. PICK rest : rest = moved \o under
  OBVIOUS
<1>18. /\ rest \in Seq(L) /\ Len(rest) = (k - m) + (h - k)
       /\ \A i \in 1..((k - m) + (h - k)) :
            rest[i] = IF i <= k - m THEN moved[i] ELSE under[i - (k - m)]
  <2>1. moved \in Seq(L) /\ under \in Seq(L)
    BY <1>14, <1>15
  <2>2. Len(moved) = k - m /\ Len(under) = h - k
    BY <1>14, <1>15
  <2>3. QED
    <3>1. /\ moved \o under \in Seq(L) /\ Len(moved \o under) = (k - m) + (h - k)
          /\ \A i \in 1..((k - m) + (h - k)) :
               (moved \o under)[i] = IF i <= k - m THEN moved[i] ELSE under[i - (k - m)]
      BY ONLY <2>1, <2>2, Concatenated
    <3>2. QED
      BY <1>17, <3>1
<1>19. old = gone \o rest
  <2>1. PICK all : all = gone \o rest
    OBVIOUS
  <2>2. /\ all \in Seq(L) /\ Len(all) = m + ((k - m) + (h - k))
        /\ \A i \in 1..(m + ((k - m) + (h - k))) :
             all[i] = IF i <= m THEN gone[i] ELSE rest[i - m]
    <3>1. gone \in Seq(L) /\ rest \in Seq(L)
      BY <1>13, <1>18
    <3>2. Len(gone) = m /\ Len(rest) = (k - m) + (h - k)
      BY <1>13, <1>18
    <3>3. QED
      BY ONLY <2>1, <3>1, <3>2, Concatenated
  <2>3. m + ((k - m) + (h - k)) = h /\ (k - m) + (h - k) = h - m
    OBVIOUS
  <2>4. ASSUME NEW i \in 1..h
        PROVE  all[i] = old[i]
    <3>1. all[i] = IF i <= m THEN gone[i] ELSE rest[i - m]
      BY <2>2, <2>3
    <3>2. CASE i <= m
      <4>1. i \in 1..m
        BY <3>2
      <4>2. QED
        BY <1>6, <1>9, <3>1, <3>2, <4>1
    <3>3. CASE ~(i <= m)
      <4>1. PICK e : e = i - m
        OBVIOUS
      <4>2. e \in 1..(h - m) /\ m + e - 1 = i - 1
        BY <1>2, <3>3, <4>1
      <4>3. rest[e] = IF e <= k - m THEN moved[e] ELSE under[e - (k - m)]
        BY <1>18, <2>3, <4>2
      <4>4. CASE e <= k - m
        <5>1. e \in 1..(k - m)
          BY <4>2, <4>4
        <5>2. QED
          BY <1>6, <1>10, <3>1, <3>3, <4>1, <4>2, <4>3, <4>4, <5>1
      <4>5. CASE ~(e <= k - m)
        <5>1. PICK z : z = e - (k - m)
          OBVIOUS
        <5>2. z \in 1..(h - k) /\ k + z - 1 = i - 1
          BY <1>2, <4>1, <4>2, <4>5, <5>1
        <5>3. QED
          BY <1>6, <1>11, <3>1, <3>3, <4>1, <4>3, <4>5, <5>1, <5>2
      <4>6. QED
        BY <4>4, <4>5
    <3>4. QED
      BY <3>2, <3>3
  <2>5. QED
    <3>1. all \in Seq(L) /\ old \in Seq(L)
      BY <1>7, <2>2
    <3>2. Len(all) = h /\ Len(old) = h
      BY <1>7, <2>2, <2>3
    <3>3. all = old
      BY ONLY <2>4, <3>1, <3>2, SameElements
    <3>4. QED
      BY <2>1, <3>3
<1>20. PICK up : up = moved \o empties
  OBVIOUS
<1>21. /\ up \in Seq(L) /\ Len(up) = (k - m) + m
       /\ \A i \in 1..((k - m) + m) :
            up[i] = IF i <= k - m THEN moved[i] ELSE empties[i - (k - m)]
  <2>1. moved \in Seq(L) /\ empties \in Seq(L)
    BY <1>14, <1>16
  <2>2. Len(moved) = k - m /\ Len(empties) = m
    BY <1>14, <1>16
  <2>3. QED
    <3>1. /\ moved \o empties \in Seq(L) /\ Len(moved \o empties) = (k - m) + m
          /\ \A i \in 1..((k - m) + m) :
               (moved \o empties)[i] = IF i <= k - m THEN moved[i] ELSE empties[i - (k - m)]
      BY ONLY <2>1, <2>2, Concatenated
    <3>2. QED
      BY <1>20, <3>1
<1>22. new = up \o under
  <2>1. PICK all : all = up \o under
    OBVIOUS
  <2>2. /\ all \in Seq(L) /\ Len(all) = ((k - m) + m) + (h - k)
        /\ \A i \in 1..(((k - m) + m) + (h - k)) :
             all[i] = IF i <= (k - m) + m THEN up[i] ELSE under[i - ((k - m) + m)]
    <3>1. up \in Seq(L) /\ under \in Seq(L)
      BY <1>15, <1>21
    <3>2. Len(up) = (k - m) + m /\ Len(under) = h - k
      BY <1>15, <1>21
    <3>3. QED
      BY ONLY <2>1, <3>1, <3>2, Concatenated
  <2>3. ((k - m) + m) + (h - k) = h /\ (k - m) + m = k
    OBVIOUS
  <2>4. ASSUME NEW i \in 1..h
        PROVE  all[i] = new[i]
    <3>1. all[i] = IF i <= k THEN up[i] ELSE under[i - k]
      BY <2>2, <2>3
    <3>2. PICK j \in 0..(h - 1) : j = i - 1
      OBVIOUS
    <3>3. new[i] = Trimmed(b2[j])
      BY <1>6, <3>2
    <3>4. CASE i <= k - m
      <4>1. i \in 1..(k - m) /\ i \in 1..k /\ i <= k
        BY <1>2, <3>4
      <4>2. all[i] = moved[i]
        BY <1>21, <2>3, <3>1, <3>4, <4>1
      <4>3. m = n /\ j < k /\ j + n < k /\ m + i - 1 = j + n
        BY <1>2, <3>2, <3>4, <4>1
      <4>4. moved[i] = Trimmed(b[j + n])
        BY <1>10, <4>1, <4>3
      <4>5. b2[j] = b[j + n]
        BY <1>8, <4>3
      <4>6. QED
        BY <3>3, <4>2, <4>4, <4>5
    <3>5. CASE ~(i <= k - m) /\ i <= k
      <4>1. i \in 1..k
        BY <3>5
      <4>2. PICK z : z = i - (k - m)
        OBVIOUS
      <4>3. z \in 1..m
        BY <1>2, <3>5, <4>2
      <4>4. all[i] = <<>>
        BY <1>12, <1>21, <2>3, <3>1, <3>5, <4>1, <4>2, <4>3
      <4>5. j < k /\ ~(j + n < k)
        BY <1>2, <3>2, <3>5
      <4>6. LineEmpty(b2[j])
        BY <1>8, <4>5
      <4>7. Trimmed(b2[j]) = <<>>
        BY <1>7, <4>6
      <4>8. QED
        BY <3>3, <4>4, <4>7
    <3>6. CASE ~(i <= k)
      <4>1. PICK z : z = i - k
        OBVIOUS
      <4>2. z \in 1..(h - k) /\ k + z - 1 = j /\ j >= k
        BY <3>2, <3>6, <4>1
      <4>3. all[i] = under[z]
        BY <3>1, <3>6, <4>1
      <4>4. under[z] = Trimmed(b[j])
        BY <1>11, <4>2
      <4>5. b2[j] = b[j]
        BY <1>8, <4>2
      <4>6. QED
        BY <3>3, <4>3, <4>4, <4>5
    <3>7. QED
      BY <3>4, <3>5, <3>6
  <2>5. QED
    <3>1. all \in Seq(L) /\ new \in Seq(L)
      BY <1>7, <2>2
    <3>2. Len(all) = h /\ Len(new) = h
      BY <1>7, <2>2, <2>3
    <3>3. all = new
      BY ONLY <2>4, <3>1, <3>2, SameElements
    <3>4. QED
      BY <2>1, <3>3
<1>23. NonBlank(new) = NonBlank(rest)
  <2>1. moved \in Seq(L) /\ empties \in Seq(L)
    BY <1>14, <1>16
  <2>2. NonBlank(up) = NonBlank(moved) \o NonBlank(empties) /\ NonBlank(moved) \in Seq(L)
    <3>1. /\ NonBlank(moved \o empties) = NonBlank(moved) \o NonBlank(empties)
      BY ONLY <2>1, NonBlankConcat
    <3>2. moved \o moved \in Seq(L) /\ NonBlank(moved) \in Seq(L)
      BY ONLY <2>1, NonBlankConcat, ConcatProperties
    <3>3. QED
      BY <1>20, <3>1, <3>2
  <2>3. NonBlank(empties) = <<>>
    <3>1. \A i \in 1..Len(empties) : empties[i] = <<>>
      BY <1>12, <1>16
    <3>2. Len(empties) \in Nat
      BY <1>16
    <3>3. QED
      BY <3>1, <3>2, NonBlankOfEmpty
  <2>4. NonBlank(up) = NonBlank(moved)
    BY <2>2, <2>3, ConcatEmptySeq
  <2>5. up \in Seq(L) /\ under \in Seq(L)
    BY <1>15, <1>21
  <2>6. NonBlank(up \o under) = NonBlank(up) \o NonBlank(under)
    BY ONLY <2>5, NonBlankConcat
  <2>7. moved \in Seq(L) /\ under \in Seq(L)
    BY <1>14, <1>15
  <2>8. NonBlank(moved \o under) = NonBlank(moved) \o NonBlank(under)
    BY ONLY <2>7, NonBlankConcat
  <2>9. QED
    BY <1>17, <1>22, <2>4, <2>6, <2>8
<1>24. rows \in Seq([0..(w - 1) -> V]) /\ Len(rows) = m /\ gone = [i \in 1..m |-> Trimmed(rows[i])]
  <2>1. PICK S : S = [0..(w - 1) -> V]
    OBVIOUS
  <2>2. \A j \in 0..(h - 1) : b[j] \in S
    BY <1>1, <2>1 DEF Buffers, Rows, Columns
  <2>3. \A i \in 1..m : 0 + i - 1 = i - 1 /\ i - 1 \in 0..(h - 1)
    BY <1>2
  <2>4. rows = [i \in 1..m |-> b[i - 1]]
    BY <2>3 DEF RowsOf
  <2>5. rows \in [1..m -> S]
    BY <2>2, <2>3, <2>4
  <2>6. rows \in Seq(S) /\ Len(rows) = m
    BY <2>5, IsSequence
  <2>7. gone = [i \in 1..m |-> Trimmed(rows[i])]
    BY <1>9, <2>4
  <2>8. QED
    BY <2>1, <2>6, <2>7
<1>25. PICK Q : Q = Seq(L)
  OBVIOUS
<1>26. PICK d \in Q : /\ Without(log2, log \o gone, d)
                      /\ d # <<>> => Len(log2) = max
                      /\ log2 \in Q
  <2>1. PushKeeps(log, rows, PushRows(log, rows, TRUE, max), V, max)
    BY <1>24, PushesKeep
  <2>2. gone = [i \in 1..Len(rows) |-> Trimmed(rows[i])]
    BY <1>24
  <2>3. /\ log2 \in Seq(Seq(V))
        /\ \E d \in Seq(Seq(V)) : /\ NonBlank(log \o gone) = d \o NonBlank(log2)
                                  /\ d # <<>> => Len(log2) = max
    BY <2>1, <2>2 DEF PushKeeps
  <2>4. Q = Seq(Seq(V))
    BY <1>3, <1>25
  <2>5. QED
    BY <2>3, <2>4 DEF Without
<1>27. /\ log \in Seq(L) /\ gone \in Seq(L) /\ rest \in Seq(L)
       /\ log2 \in Seq(L) /\ new \in Seq(L) /\ d \in Seq(L)
  <2>1. log \in Seq(L)
    BY <1>3 DEF GoodLog
  <2>2. gone \in Seq(L) /\ rest \in Seq(L) /\ new \in Seq(L)
    BY <1>7, <1>13, <1>18
  <2>3. QED
    BY <1>25, <1>26, <2>1, <2>2
<1>28. Without(log2 \o new, log \o (gone \o rest), d)
  <2>1. Without(log2, log \o gone, d)
    BY <1>26
  <2>2. QED
    BY ONLY <1>23, <1>27, <2>1, LinesConserved
<1>29. KeepsLines(log2 \o new, log \o old, log2, max)
  <2>1. PICK kept, lines, lines2 : kept = NonBlank(lines2) /\ lines = log \o old /\ lines2 = log2 \o new
    OBVIOUS
  <2>2. NonBlank(lines) = d \o kept
    BY <1>19, <1>28, <2>1 DEF Without
  <2>3. kept \in Seq(L)
    <3>1. log2 \in Seq(L) /\ new \in Seq(L)
      BY <1>27
    <3>2. NonBlank(log2 \o new) \in Seq(L)
      BY ONLY <3>1, NonBlankConcat, ConcatProperties
    <3>3. QED
      BY <2>1, <3>2
  <2>4. d \in Seq(L) /\ (d # <<>> => Len(log2) = max)
    BY <1>26, <1>27
  <2>5. KeepsLines(lines2, lines, log2, max)
    BY ONLY <2>1, <2>2, <2>3, <2>4, KeptWithout
  <2>6. QED
    BY <2>1, <2>5
<1>30. QED
  BY <1>5, <1>29

\* Lines of a screen that is erased are in the scrollback, unless it is full.
LEMMA ErasedLinesKept ==
  ASSUME NEW sz \in ScreenSize, NEW V, Blank \in V, NEW max \in Nat \ {0},
         NEW b \in Buffers(sz, V), NEW log, GoodLog(log, V, max),
         NEW rows, RowsOf(rows, b, 0, sz.h),
         NEW log2, log2 = PushRows(log, rows, FALSE, max)
  PROVE  KeepsLines(log2 \o TrimmedRows(sz, BlankScreen(sz)), log \o TrimmedRows(sz, b), log2, max)
<1>1. PICK w \in Nat, h \in Nat : w = sz.w /\ h = sz.h
  BY DEF ScreenSize
<1>2. PICK L, b2 : L = Seq(V) /\ b2 = BlankScreen(sz)
  OBVIOUS
<1>3. PICK gone, empties : gone = TrimmedRows(sz, b) /\ empties = TrimmedRows(sz, b2)
  OBVIOUS
<1>4. /\ gone \in Seq(L) /\ Len(gone) = h
      /\ gone = [i \in 1..h |-> Trimmed(b[i - 1])]
  BY <1>1, <1>2, <1>3, RowsTrimmed DEF TrimmedRows
<1>5. /\ empties \in Seq(L) /\ Len(empties) = h
      /\ \A i \in 1..h : empties[i] = <<>>
  <2>1. b2 \in Buffers(sz, V)
    BY <1>2, BlankTyped
  <2>2. \A j \in 0..(h - 1) : LineEmpty(b2[j])
    BY <1>1, <1>2 DEF BlankScreen, Rows, Columns, LineEmpty
  <2>3. \A j \in 0..(h - 1) : Trimmed(b2[j]) = <<>>
    BY <1>1, <2>1, <2>2, RowsTrimmed
  <2>4. \A i \in 1..h : i - 1 \in 0..(h - 1)
    OBVIOUS
  <2>5. empties \in Seq(L) /\ Len(empties) = h
    BY <1>1, <1>2, <1>3, <2>1, RowsTrimmed
  <2>6. empties = [i \in 1..h |-> Trimmed(b2[i - 1])]
    BY <1>1, <1>3 DEF TrimmedRows
  <2>7. QED
    BY <2>3, <2>4, <2>5, <2>6
<1>6. NonBlank(empties) = <<>> /\ NonBlank(<<>>) = <<>> /\ <<>> \in Seq(L)
  <2>1. NonBlank(empties) = <<>>
    <3>1. Len(empties) \in Nat /\ \A i \in 1..Len(empties) : empties[i] = <<>>
      BY <1>5
    <3>2. QED
      BY <3>1, NonBlankOfEmpty
  <2>2. PICK none : none = <<>>
    OBVIOUS
  <2>3. none \in Seq(L) /\ Len(none) = 0
    BY <2>2, EmptySeq
  <2>4. NonBlank(none) = <<>>
    <3>1. Len(none) \in Nat /\ \A i \in 1..Len(none) : none[i] = <<>>
      BY <2>3
    <3>2. QED
      BY <3>1, NonBlankOfEmpty
  <2>5. QED
    BY <2>1, <2>2, <2>3, <2>4
<1>7. rows \in Seq([0..(w - 1) -> V]) /\ Len(rows) = h /\ gone = [i \in 1..h |-> Trimmed(rows[i])]
  <2>1. PICK S : S = [0..(w - 1) -> V]
    OBVIOUS
  <2>2. \A j \in 0..(h - 1) : b[j] \in S
    BY <1>1, <2>1 DEF Buffers, Rows, Columns
  <2>3. \A i \in 1..h : 0 + i - 1 = i - 1 /\ i - 1 \in 0..(h - 1)
    OBVIOUS
  <2>4. rows = [i \in 1..h |-> b[i - 1]]
    BY <1>1, <2>3 DEF RowsOf
  <2>5. rows \in [1..h -> S]
    BY <2>2, <2>3, <2>4
  <2>6. rows \in Seq(S) /\ Len(rows) = h
    BY <2>5, IsSequence
  <2>7. gone = [i \in 1..h |-> Trimmed(rows[i])]
    BY <1>4, <2>4
  <2>8. QED
    BY <2>1, <2>6, <2>7
<1>8. PICK Q : Q = Seq(L)
  OBVIOUS
<1>9. PICK d \in Q : /\ Without(log2, log \o gone, d)
                     /\ d # <<>> => Len(log2) = max
                     /\ log2 \in Q
  <2>1. FALSE \in BOOLEAN
    OBVIOUS
  <2>2. PushKeeps(log, rows, PushRows(log, rows, FALSE, max), V, max)
    BY <1>7, <2>1, PushesKeep
  <2>3. gone = [i \in 1..Len(rows) |-> Trimmed(rows[i])]
    BY <1>7
  <2>4. /\ log2 \in Seq(Seq(V))
        /\ \E d \in Seq(Seq(V)) : /\ NonBlank(log \o gone) = d \o NonBlank(log2)
                                  /\ d # <<>> => Len(log2) = max
    BY <2>2, <2>3 DEF PushKeeps
  <2>5. Q = Seq(Seq(V))
    BY <1>2, <1>8
  <2>6. QED
    BY <2>4, <2>5 DEF Without
<1>10. PICK none : none = <<>>
  OBVIOUS
<1>11. /\ log \in Seq(L) /\ gone \in Seq(L) /\ none \in Seq(L)
       /\ log2 \in Seq(L) /\ empties \in Seq(L) /\ d \in Seq(L)
  <2>1. log \in Seq(L)
    BY <1>2 DEF GoodLog
  <2>2. QED
    BY <1>4, <1>5, <1>6, <1>8, <1>9, <1>10, <2>1
<1>12. Without(log2 \o empties, log \o (gone \o none), d)
  <2>1. Without(log2, log \o gone, d) /\ NonBlank(empties) = NonBlank(none)
    BY <1>6, <1>9, <1>10
  <2>2. QED
    BY ONLY <1>11, <2>1, LinesConserved
<1>13. gone \o none = gone
  BY <1>10, <1>11, ConcatEmptySeq
<1>14. KeepsLines(log2 \o empties, log \o gone, log2, max)
  <2>1. PICK kept, lines, lines2 : kept = NonBlank(lines2) /\ lines = log \o gone /\ lines2 = log2 \o empties
    OBVIOUS
  <2>2. NonBlank(lines) = d \o kept
    BY <1>12, <1>13, <2>1 DEF Without
  <2>3. kept \in Seq(L)
    <3>1. log2 \in Seq(L) /\ empties \in Seq(L)
      BY <1>11
    <3>2. NonBlank(log2 \o empties) \in Seq(L)
      BY ONLY <3>1, NonBlankConcat, ConcatProperties
    <3>3. QED
      BY <2>1, <3>2
  <2>4. d \in Seq(L) /\ (d # <<>> => Len(log2) = max)
    BY <1>9, <1>11
  <2>5. KeepsLines(lines2, lines, log2, max)
    BY ONLY <2>1, <2>2, <2>3, <2>4, KeptWithout
  <2>6. QED
    BY <2>1, <2>5
<1>15. QED
  BY <1>2, <1>3, <1>14

\* The lines of the active screen before a step that keeps them, and after.
ActiveKept ==
  /\ active' = active
  /\ KeepsLines(Lines(active)', Lines(active), history'[active], limit[active])

\* Deleting lines at the top of a screen whose region spans it keeps them.
LEMMA ScrollUpKeeps ==
  ASSUME Typed, NEW n \in Nat, ScrollUp(n), FullWidth, Region.top = 0
  PROVE  ActiveKept
<1>1. /\ active \in Screens /\ size \in ScreenSize /\ Blank \in Values
      /\ buf[active] \in Buffers(size, Values) /\ GoodLog(history[active], Values, limit[active])
      /\ limit[active] \in Nat \ {0} /\ Region \in AllRegions
  BY TypedScreen DEF Typed, Region
<1>2. PICK y : y = 0
  OBVIOUS
<1>3. Pos(Region.left, Region.top).y = y
  BY <1>2 DEF Pos
<1>4. PICK b, log, rg, r : /\ b = buf[active] /\ log = history[active] /\ rg = Region
                           /\ r = Cut(rg, size)
  OBVIOUS
<1>5. n \in Nat \ {0} /\ rg.left = 0 /\ rg.right = size.w /\ rg.top = 0
  BY <1>4 DEF ScrollUp, DeleteLine, FullWidth
<1>6. PICK k \in Nat, h \in Nat, low \in Nat :
        /\ k = r.bottom /\ h = size.h /\ low = rg.bottom /\ k = Lesser(low, h)
        /\ k <= h /\ 0 < k /\ r \in Regions(size)
        /\ r.left = 0 /\ r.right = size.w /\ r.top = 0
  <2>1. rg.left < size.w /\ rg.top < size.h /\ size.w \in Nat /\ size.h \in Nat /\ rg.bottom \in Nat
    BY <1>1, <1>4, <1>5 DEF ScreenSize, AllRegions
  <2>2. /\ r \in Regions(size) /\ r.left = 0 /\ r.right = size.w /\ r.top = 0
        /\ r.bottom = Lesser(rg.bottom, size.h)
    BY <1>1, <1>4, <1>5, <2>1, CutIs DEF Cut, Lesser
  <2>3. QED
    BY <2>1, <2>2 DEF Regions, Lesser
<1>7. PICK m \in Nat : m = Lesser(n, k)
  BY DEF Lesser
<1>8. Lesser(Lesser(n, low - 0), h - 0) = m
  BY <1>6, <1>7 DEF Lesser
<1>9. PICK b2 : b2 = LinesDeleted(b, r, 0, n)
  OBVIOUS
<1>10. LinesDeleted(b, rg, 0, n) = b2
  <2>1. 0 + n <= rg.bottom - 1 => rg.bottom - 1 < size.h
    BY <1>1, <1>3, <1>4, <1>5, <1>6 DEF ScrollUp, DeleteLine, RowsExist, Pos
  <2>2. rg.left < size.w /\ rg.top < size.h /\ 0 \in Nat
    BY <1>1, <1>5 DEF ScreenSize
  <2>3. QED
    BY <1>1, <1>4, <1>5, <1>9, <2>1, <2>2, LinesCut
<1>11. PICK rows : rows = [i \in 1..m |-> b[0 + i - 1]]
  OBVIOUS
<1>12. PICK log2 : log2 = PushRows(log, rows, TRUE, limit[active])
  OBVIOUS
<1>13. /\ buf' = [buf EXCEPT ![active] = b2]
       /\ history' = [history EXCEPT ![active] = log2]
       /\ UNCHANGED <<size, active, scroll, limit, writes>>
  <2>1. PushN(log, 0, Lesser(n, low - 0), limit[active]) = log2
    BY <1>4, <1>6, <1>8, <1>11, <1>12 DEF PushN
  <2>2. /\ buf' = [buf EXCEPT ![active] = LinesDeleted(b, rg, y, n)]
        /\ history' = [history EXCEPT ![active] =
                         IF y = rg.top /\ FullWidth
                         THEN PushN(log, y, Lesser(n, low - y), limit[active]) ELSE log]
        /\ UNCHANGED <<size, active, scroll, limit, writes>>
    BY <1>1, <1>3, <1>4, <1>6 DEF ScrollUp, DeleteLine, Typed
  <2>3. QED
    BY <1>2, <1>4, <1>5, <1>10, <2>1, <2>2
<1>14. history'[active] = log2 /\ buf'[active] = b2
  BY <1>1, <1>13 DEF Typed
<1>15. b2 \in Buffers(size, Values)
  <2>1. 0 \in r.top..(r.bottom - 1)
    BY <1>6
  <2>2. QED
    BY <1>1, <1>4, <1>5, <1>6, <2>1, <1>9, BuffersTyped
<1>16. KeepsLines(log2 \o TrimmedRows(size, b2), log \o TrimmedRows(size, b), log2, limit[active])
  <2>1. RowsOf(rows, b, 0, m) /\ m = Lesser(n, r.bottom)
    BY <1>6, <1>7, <1>11 DEF RowsOf
  <2>2. QED
    BY <1>1, <1>4, <1>5, <1>6, <1>9, <1>12, <1>15, <2>1, ScrolledLinesKept
<1>17. Lines(active) = log \o TrimmedRows(size, b)
  BY <1>4 DEF Lines, TrimmedRows
<1>18. Lines(active)' = log2 \o TrimmedRows(size, b2)
  <2>1. Lines(active)' = history'[active'] \o [i \in 1..size'.h |-> Trimmed(buf'[active'][i - 1])]
    BY DEF Lines
  <2>2. active' = active /\ size' = size /\ history'[active'] = log2 /\ buf'[active'] = b2
    BY <1>13, <1>14
  <2>3. QED
    BY ONLY <2>1, <2>2 DEF TrimmedRows
<1>19. QED
  BY <1>13, <1>14, <1>16, <1>17, <1>18 DEF ActiveKept

\* Erasing the screen keeps its lines.
LEMMA EraseScreenKeeps ==
  ASSUME Typed, EraseScreen
  PROVE  ActiveKept
<1>1. /\ active \in Screens /\ size \in ScreenSize /\ Blank \in Values
      /\ buf[active] \in Buffers(size, Values) /\ GoodLog(history[active], Values, limit[active])
      /\ limit[active] \in Nat \ {0} /\ size.h \in Nat
  BY TypedScreen DEF Typed, ScreenSize
<1>2. PICK b, log, b2 : b = buf[active] /\ log = history[active] /\ b2 = BlankScreen(size)
  OBVIOUS
<1>3. PICK rows : rows = [i \in 1..size.h |-> b[i - 1]]
  OBVIOUS
<1>4. RowsOf(rows, b, 0, size.h)
  <2>1. \A i \in 1..size.h : 0 + i - 1 = i - 1
    BY <1>1
  <2>2. QED
    BY <1>3, <2>1 DEF RowsOf
<1>5. PICK log2 : log2 = PushRows(log, rows, FALSE, limit[active])
  OBVIOUS
<1>6. /\ buf' = [buf EXCEPT ![active] = b2]
      /\ history' = [history EXCEPT ![active] = log2]
      /\ UNCHANGED <<size, active, scroll, limit, writes>>
  BY <1>2, <1>3, <1>5 DEF EraseScreen
<1>7. history'[active] = log2 /\ buf'[active] = b2
  BY <1>1, <1>6 DEF Typed
<1>8. KeepsLines(log2 \o TrimmedRows(size, b2), log \o TrimmedRows(size, b), log2, limit[active])
  BY <1>1, <1>2, <1>4, <1>5, ErasedLinesKept
<1>9. Lines(active) = log \o TrimmedRows(size, b)
  BY <1>2 DEF Lines, TrimmedRows
<1>10. Lines(active)' = log2 \o TrimmedRows(size, b2)
  <2>1. Lines(active)' = history'[active'] \o [i \in 1..size'.h |-> Trimmed(buf'[active'][i - 1])]
    BY DEF Lines
  <2>2. active' = active /\ size' = size /\ history'[active'] = log2 /\ buf'[active'] = b2
    BY <1>6, <1>7
  <2>3. QED
    BY ONLY <2>1, <2>2 DEF TrimmedRows
<1>11. QED
  BY <1>6, <1>7, <1>8, <1>9, <1>10 DEF ActiveKept

\* Scrolling a region that spans the screen from its top, and erasing the
\* screen, lose no line but the oldest ones of a full scrollback, and keep the
\* order of lines, for every screen size, count and limit
\* (VtHistory!ScrollingConserves).
THEOREM ScrollingKeepsLines == Spec => ScrollingConserves
<1> DEFINE A == Scrolling /\ FullWidth /\ Region.top = 0 =>
                  LET before == NonBlank(Lines(active))
                      after == NonBlank(Lines(active)')
                  IN  /\ IsSuffix(after, before)
                      /\ after # before => Len(history'[active]) = limit[active]
<1>1. Init => Typed
  BY TypedInit
<1>2. Typed /\ [Next]_vars => Typed'
  BY AllSteps
<1>3. Typed /\ [Next]_vars => [A]_vars
  <2> SUFFICES ASSUME Typed, Scrolling, FullWidth, Region.top = 0
               PROVE  ActiveKept
    BY DEF ActiveKept, KeepsLines
  <2>1. CASE EraseScreen
    BY <2>1, EraseScreenKeeps
  <2>2. CASE ~EraseScreen
    <3>1. PICK n : n \in Nat /\ ScrollUp(n)
      BY <2>2, CountsAssumption DEF Scrolling, Index
    <3>2. QED
      BY <3>1, ScrollUpKeeps
  <2>3. QED
    BY <2>1, <2>2
<1>4. QED
  BY <1>1, <1>2, <1>3, PTL DEF Spec, ScrollingConserves
=============================================================================
