------------------------- MODULE AnsiReadersProofs --------------------------
(* What the readers of escape sequences read (AnsiReaders), for every size   *)
(* of the parser's buffers, every alphabet and any number of bytes.          *)
(*                                                                           *)
(* Parser.Advance is compared with a twin, a parser that was new at the last *)
(* ESC: in each state the two are alike in all the state looks at (Alike).   *)
(* The proof follows the table: which entries it has (Entry), then what the  *)
(* action of an entry makes of two parsers that are alike (the Twins         *)
(* lemmas), then a whole step (StepSame).                                    *)
(*                                                                           *)
(* DecodeSequence is followed byte by byte (the Goes lemmas): its parser is  *)
(* Filled with no more parameters than its buffer holds and one more for     *)
(* each byte taken, and a call that takes nothing leaves a sequence.         *)
EXTENDS AnsiReaders, TLAPS, NaturalsInduction, FiniteSetTheorems

\* What is read.
Byte == 0..255

\* The states that gather parameters.
Headers == CsiStates \cup {"DcsEntry", "DcsIntermediate", "DcsParam"}
\* The states of the strings that are not device control strings.
ControlStrings == {"OscString", "SosString", "PmString", "ApcString"}

\* The entries of the table, one line for each action.
Entry(s, b, act, next) ==
  \/ act = "None" /\ next \in {s, "Ground"}
  \/ act \in {"Print", "Execute"} /\ next \in {s, "Ground"}
  \/ act = "Clear" /\ ((next = "Escape" /\ b = Esc) \/ next \in {"CsiEntry", "DcsEntry"})
  \/ act = "Prefix" /\ s \in {"CsiEntry", "DcsEntry"} /\ next \in Headers
  \/ act = "Param" /\ s \in Headers /\ next \in Headers /\ b \in ParamBytes
  \/ act = "Collect" /\ next = "Utf8"
  \/ act = "Collect" /\ s \in {"Escape", "EscapeIntermediate"} /\ next = "EscapeIntermediate"
  \/ act = "Collect" /\ s \in Headers /\ next \in Headers
  \/ act = "Start" /\ next \in ControlStrings
  \/ act = "Start" /\ s \in Headers /\ next = "DcsString"
  \/ act = "Put" /\ s \in ControlStrings \cup {"DcsString"} /\ next = s
  \/ act = "Put" /\ s = "DcsEntry" /\ next = "DcsString"
  \/ act = "Dispatch" /\ next = "Ground"
        /\ s \notin {"Ground", "Utf8", "DcsEntry", "DcsIntermediate", "DcsParam"}
  \/ act = "Dispatch" /\ s \in ControlStrings \cup {"DcsString"} /\ next = "Escape"

\* What the table says of a byte in a state is one of its entries.
Found(s, b, go) == Entry(s, b, go.act, go.next) /\ go.next \in States

\* The entries of the bytes a state says nothing of.
LEMMA AnywhereEntry ==
  ASSUME NEW s \in States, NEW b \in Byte
  PROVE  Found(s, b, Anywhere(b))
<1>1. \/ b = Esc /\ Anywhere(b) = Go("Clear", "Escape")
      \/ Anywhere(b) \in {Go("Clear", "CsiEntry"), Go("Clear", "DcsEntry"),
            Go("Start", "OscString"), Go("Start", "SosString"), Go("Start", "PmString"),
            Go("Start", "ApcString"), Go("Execute", "Ground"), Go("Collect", "Utf8"),
            Go("None", "Ground")}
  BY SMT DEF Anywhere
<1> QED BY <1>1, SMT DEF Found, Entry, Go, States, ControlStrings

\* The whole table (transition_table.go), state by state.
LEMMA TableEntry ==
  ASSUME NEW s \in States \ {"Utf8"}, NEW b \in Byte
  PROVE  Found(s, b, Transition(s, b))
<1> DEFINE go == Transition(s, b)
<1>a. go = Anywhere(b) => Found(s, b, go) BY AnywhereEntry
<1>1. CASE s = "Ground"
  <2>1. \/ go \in {Go("Execute", "Ground"), Go("Print", "Ground")}
        \/ go = Anywhere(b)
    BY <1>1, SMT DEF Transition, Ground, States, CsiStates
  <2> QED BY <1>a, <1>1, <2>1, SMT DEF Found, Entry, Go, States, Headers, ControlStrings, CsiStates
<1>2. CASE s = "Escape"
  <2>1. \/ go \in {Go("Execute", "Escape"), Go("None", "Escape"),
              Go("Collect", "EscapeIntermediate"), Go("Clear", "DcsEntry"),
              Go("Clear", "CsiEntry"), Go("Dispatch", "Ground")}
        \/ go \in {Go("Start", "SosString"), Go("Start", "PmString"),
              Go("Start", "ApcString"), Go("Start", "OscString")}
        \/ go = Anywhere(b)
    BY <1>2, SMT DEF Transition, Escape, StringOpened, States, CsiStates
  <2> QED BY <1>a, <1>2, <2>1, SMT DEF Found, Entry, Go, States, Headers, ControlStrings, CsiStates
<1>3. CASE s = "EscapeIntermediate"
  <2>1. \/ go \in {Go("Execute", "EscapeIntermediate"),
              Go("Collect", "EscapeIntermediate"), Go("None", "EscapeIntermediate"),
              Go("Dispatch", "Ground")}
        \/ go = Anywhere(b)
    BY <1>3, SMT DEF Transition, EscapeIntermediate, States, CsiStates
  <2> QED BY <1>a, <1>3, <2>1, SMT DEF Found, Entry, Go, States, Headers, ControlStrings, CsiStates
<1>4. CASE s = "CsiEntry"
  <2>1. \/ go \in {Go("Execute", s), Go("None", s), Go("Collect", "CsiIntermediate"),
              Go("Dispatch", "Ground"), Go("Prefix", "CsiParam")}
        \/ b \in ParamBytes /\ go \in {Go("Param", "CsiParam")}
        \/ go = Anywhere(b)
    BY <1>4, SMT DEF Transition, CsiEntry, CsiHeader, States, CsiStates
  <2> QED BY <1>a, <1>4, <2>1, SMT DEF Found, Entry, Go, States, Headers, ControlStrings, CsiStates
<1>5. CASE s = "CsiParam"
  <2>1. \/ go \in {Go("Execute", s), Go("None", s), Go("Collect", "CsiIntermediate"),
              Go("Dispatch", "Ground")}
        \/ b \in ParamBytes /\ go \in {Go("Param", "CsiParam")}
        \/ go = Anywhere(b)
    BY <1>5, SMT DEF Transition, CsiParam, CsiHeader, States, CsiStates
  <2> QED BY <1>a, <1>5, <2>1, SMT DEF Found, Entry, Go, States, Headers, ControlStrings, CsiStates
<1>6. CASE s = "CsiIntermediate"
  <2>1. \/ go \in {Go("Execute", s), Go("None", s), Go("Collect", "CsiIntermediate"),
              Go("Dispatch", "Ground"), Go("None", "Ground")}
        \/ go = Anywhere(b)
    BY <1>6, SMT DEF Transition, CsiIntermediate, CsiHeader, States, CsiStates
  <2> QED BY <1>a, <1>6, <2>1, SMT DEF Found, Entry, Go, States, Headers, ControlStrings, CsiStates
<1>7. CASE s = "DcsEntry"
  <2>1. \/ go \in {Go("None", s), Go("Collect", "DcsIntermediate"),
              Go("Start", "DcsString"), Go("Prefix", "DcsParam"), Go("Put", "DcsString")}
        \/ b \in ParamBytes /\ go \in {Go("Param", "DcsParam")}
        \/ go = Anywhere(b)
    BY <1>7, SMT DEF Transition, DcsEntry, DcsHeader, States, CsiStates
  <2> QED BY <1>a, <1>7, <2>1, SMT DEF Found, Entry, Go, States, Headers, ControlStrings, CsiStates
<1>8. CASE s = "DcsParam"
  <2>1. \/ go \in {Go("None", s), Go("Collect", "DcsIntermediate"), Go("Start", "DcsString")}
        \/ b \in ParamBytes /\ go \in {Go("Param", "DcsParam")}
        \/ go = Anywhere(b)
    BY <1>8, SMT DEF Transition, DcsParam, DcsHeader, States, CsiStates
  <2> QED BY <1>a, <1>8, <2>1, SMT DEF Found, Entry, Go, States, Headers, ControlStrings, CsiStates
<1>9. CASE s = "DcsIntermediate"
  <2>1. \/ go \in {Go("None", s), Go("Collect", "DcsIntermediate"), Go("Start", "DcsString")}
        \/ go = Anywhere(b)
    BY <1>9, SMT DEF Transition, DcsIntermediate, DcsHeader, States, CsiStates
  <2> QED BY <1>a, <1>9, <2>1, SMT DEF Found, Entry, Go, States, Headers, ControlStrings, CsiStates
<1>10. CASE s = "DcsString"
  <2>1. \/ go \in {Go("Dispatch", "Escape"), Go("Dispatch", "Ground"),
              Go("None", "Ground"), Go("Put", s)}
        \/ go = Anywhere(b)
    BY <1>10, SMT DEF Transition, DcsString, States, CsiStates
  <2> QED BY <1>a, <1>10, <2>1, SMT DEF Found, Entry, Go, States, Headers, ControlStrings, CsiStates
<1>11. CASE s = "OscString"
  <2>1. \/ go \in {Go("Dispatch", "Escape"), Go("Dispatch", "Ground"),
              Go("None", "Ground"), Go("Put", s), Go("None", s)}
        \/ go = Anywhere(b)
    BY <1>11, SMT DEF Transition, OscString, States, CsiStates
  <2> QED BY <1>a, <1>11, <2>1, SMT DEF Found, Entry, Go, States, Headers, ControlStrings, CsiStates
<1>12. CASE s \in {"SosString", "PmString", "ApcString"}
  <2>1. \/ go \in {Go("Dispatch", "Escape"), Go("Dispatch", "Ground"),
              Go("None", "Ground"), Go("Put", s)}
        \/ go = Anywhere(b)
    BY <1>12, SMT DEF Transition, SosPmApc, States, CsiStates
  <2> QED BY <1>a, <1>12, <2>1, SMT DEF Found, Entry, Go, States, Headers, ControlStrings, CsiStates
<1> QED BY <1>1, <1>2, <1>3, <1>4, <1>5, <1>6, <1>7, <1>8, <1>9, <1>10, <1>11, <1>12 DEF States

----------------------------------------------------------------------------
\* The operators on packed commands.

\* A byte of a packed command is a byte.
LEMMA ByteAtType ==
  ASSUME NEW c \in Nat, NEW i \in 0..2
  PROVE  ByteAt(c, i) \in Byte
<1>1. CASE i = 0 BY <1>1 DEF ByteAt, Weight, Byte
<1>2. CASE i = 1 BY <1>2 DEF ByteAt, Weight, Byte
<1>3. CASE i = 2 BY <1>3 DEF ByteAt, Weight, Byte
<1> QED BY <1>1, <1>2, <1>3

\* A command with a byte replaced is a command.
LEMMA WithByteType ==
  ASSUME NEW c \in Nat, NEW i \in 0..2, NEW b \in Byte
  PROVE  WithByte(c, i, b) \in Nat
<1>1. CASE i = 0 BY <1>1 DEF WithByte, ByteAt, Weight, Byte
<1>2. CASE i = 1 BY <1>2 DEF WithByte, ByteAt, Weight, Byte
<1>3. CASE i = 2 BY <1>3 DEF WithByte, ByteAt, Weight, Byte
<1> QED BY <1>1, <1>2, <1>3

\* The bitwise or of two bytes is a byte.
LEMMA OrType ==
  ASSUME NEW x \in Byte, NEW y \in Byte
  PROVE  Or(x, y) \in Byte
<1>1. \A w \in Nat: OrBit(x, y, w) \in {0, w} BY DEF OrBit
<1> QED BY <1>1 DEF Or, Byte

\* A command with bits added to its last byte is a command.
LEMMA OrByteType ==
  ASSUME NEW c \in Nat, NEW b \in Byte
  PROVE  OrByte(c, b) \in Nat
BY ByteAtType, OrType, WithByteType DEF OrByte

\* Induction over a set of numbers.
LEMMA NatSetInduction ==
  ASSUME NEW S, 0 \in S, \A n \in Nat : n \in S => n + 1 \in S
  PROVE  \A n \in Nat : n \in S
<1> SUFFICES ASSUME NEW n \in Nat, n \notin S PROVE FALSE OBVIOUS
<1> DEFINE M == {m \in 0 .. n : m \notin S}
           T == {m \in 0 .. (n - 1) : m \notin S}
           f == [m \in M |-> m - 1]
<1>1. IsFiniteSet(M)
  <2>1. IsFiniteSet(0 .. n) BY FS_Interval
  <2>2. M \in SUBSET (0 .. n) OBVIOUS
  <2> QED BY <2>1, <2>2, FS_Subset
<1>2. T \in SUBSET M /\ n \in M /\ n \notin T OBVIOUS
<1>3. /\ IsFiniteSet(T) /\ Cardinality(T) # Cardinality(M)
      /\ Cardinality(T) <= Cardinality(M)
      /\ Cardinality(T) \in Nat /\ Cardinality(M) \in Nat
  <2> HIDE DEF M, T
  <2> QED BY <1>1, <1>2, FS_Subset, FS_CardinalityType
<1>4. \A m \in M : m # 0 /\ m - 1 \in T OBVIOUS
<1>5. f \in Injection(M, T) BY <1>4 DEF Injection, IsInjective
<1>6. Cardinality(M) <= Cardinality(T)
  <2> HIDE DEF M, T, f
  <2> QED BY <1>3, <1>5, FS_Injection
<1> QED BY <1>3, <1>6

\* The remainder after the low byte is replaced.
LEMMA LowByteReplaced ==
  ASSUME NEW c \in Nat, NEW b \in 0..255
  PROVE  (c + (b - (c % 256))) % 256 = b
OBVIOUS

\* The low byte is at weight one.
LEMMA LowByteOf ==
  ASSUME NEW c \in Nat
  PROVE  c \div 1 = c /\ c % 256 \in Int
OBVIOUS

\* A rune's first byte, once stored, is read back.
LEMMA LowByte0 ==
  ASSUME NEW c \in Nat, NEW b \in Byte
  PROVE  ByteAt(WithByte(c, 0, b), 0) = b
<1>a. b \in 0..255 BY DEF Byte
<1>b. c % 256 \in Int BY ONLY c \in Nat, LowByteOf, Zenon
<1>c. (c + (b - (c % 256))) % 256 = b BY ONLY <1>a, c \in Nat, LowByteReplaced, Zenon
<1>1. PICK r \in Int: r = c % 256 /\ (c + (b - r)) % 256 = b BY ONLY <1>b, <1>c, Zenon
<1>2. Weight(0) = 1 BY DEF Weight
<1>3. ByteAt(c, 0) = r BY <1>1, <1>2, LowByteOf DEF ByteAt
<1>4. WithByte(c, 0, b) = c + (b - r) * 1 BY <1>2, <1>3 DEF WithByte
<1>5. WithByte(c, 0, b) = c + (b - r) BY <1>4 DEF Byte
<1>6. c + (b - r) \in Int BY DEF Byte
<1>7. \A x \in Int: ByteAt(x, 0) = x % 256 BY DEF ByteAt, Weight
<1> QED BY <1>1, <1>5, <1>6, <1>7, Zenon

\* Its second byte leaves the first alone.
LEMMA LowByte1 ==
  ASSUME NEW c \in Nat, NEW b \in Byte
  PROVE  ByteAt(WithByte(c, 1, b), 0) = ByteAt(c, 0)
<1> DEFINE k == b - ByteAt(c, 1)
<1>1. k \in Int BY ByteAtType DEF Byte
<1>2. WithByte(c, 1, b) = c + 256 * k BY <1>1 DEF WithByte, Weight
<1> HIDE DEF k
<1>3. (c + 256 * k) % 256 = c % 256 BY <1>1
<1>4. \A x \in Int: ByteAt(x, 0) = x % 256 BY DEF ByteAt, Weight
<1>5. c + 256 * k \in Int BY <1>1
<1> QED BY <1>2, <1>3, <1>4, <1>5

\* Its third byte leaves the first alone.
LEMMA LowByte2 ==
  ASSUME NEW c \in Nat, NEW b \in Byte
  PROVE  ByteAt(WithByte(c, 2, b), 0) = ByteAt(c, 0)
<1> DEFINE k == b - ByteAt(c, 2)
<1>1. k \in Int BY ByteAtType DEF Byte
<1>2. WithByte(c, 2, b) = c + 65536 * k BY <1>1 DEF WithByte, Weight
<1> HIDE DEF k
<1>3. (c + 65536 * k) % 256 = c % 256 BY <1>1
<1>4. \A x \in Int: ByteAt(x, 0) = x % 256 BY DEF ByteAt, Weight
<1>5. c + 65536 * k \in Int BY <1>1
<1> QED BY <1>2, <1>3, <1>4, <1>5

\* The number a string starts with is a number (parseStringCmd).
LEMMA StringNumberType ==
  ASSUME NEW s \in Seq(Byte)
  PROVE  StringNumber(s) \in Nat
<1> DEFINE After(i, num) == IF \A j \in 1..i: s[j] \in 48..57
                            THEN 10 * (IF num = MissingCommand THEN 0 ELSE num) + (s[i] - 48) ELSE num
           Counts(f, n) == f \in [0..n -> Nat] /\ f[0] = MissingCommand
                           /\ \A i \in 1..n: f[i] = After(i, f[i - 1])
           S == {n \in Nat: n <= Len(s) => \E f: Counts(f, n)}
<1>1. \A i \in 1..Len(s): \A num \in Nat: After(i, num) \in Nat
  <2> SUFFICES ASSUME NEW i \in 1..Len(s), NEW num \in Nat PROVE After(i, num) \in Nat OBVIOUS
  <2>1. CASE \A j \in 1..i: s[j] \in 48..57
    <3>1. s[i] \in 48..57 BY <2>1
    <3> QED BY <2>1, <3>1 DEF MissingCommand
  <2>2. CASE ~\A j \in 1..i: s[j] \in 48..57 BY <2>2
  <2> QED BY <2>1, <2>2
<1>2. 0 \in S
  <2>1. Counts([i \in 0..0 |-> MissingCommand], 0) BY DEF MissingCommand
  <2> QED BY <2>1
<1>3. ASSUME NEW n \in Nat, n \in S PROVE n + 1 \in S
  <2> SUFFICES ASSUME n + 1 <= Len(s) PROVE \E f: Counts(f, n + 1) OBVIOUS
  <2>1. PICK f: Counts(f, n)
    <3> HIDE DEF Counts
    <3> QED BY <1>3
  <2> DEFINE g == [i \in 0..n + 1 |-> IF i <= n THEN f[i] ELSE After(n + 1, f[n])]
  <2> HIDE DEF After
  <2>2. After(n + 1, f[n]) \in Nat BY <1>1, <2>1
  <2>3. Counts(g, n + 1) BY <2>1, <2>2
  <2> QED BY <2>3
<1>4. \A n \in Nat: n \in S
  <2> HIDE DEF S
  <2> QED BY <1>2, <1>3, NatSetInduction
<1>5. Len(s) \in Nat OBVIOUS
<1> DEFINE F(f) == [i \in 0..Len(s) |-> IF i = 0 THEN MissingCommand ELSE After(i, f[i - 1])]
           number == CHOOSE f: f = F(f)
<1>6. PICK f: Counts(f, Len(s))
  <2> HIDE DEF Counts
  <2> QED BY <1>4, <1>5
<1>7. f = F(f)
  <2> HIDE DEF After
  <2> QED BY <1>6
<1>8. number = F(number)
  <2> HIDE DEF F
  <2> QED BY <1>7
<1> DEFINE U == {n \in Nat: n <= Len(s) => number[n] \in Nat}
<1>9. \A n \in Nat: n \in U
  <2> HIDE DEF number, After
  <2>1. 0 \in U BY <1>8 DEF MissingCommand
  <2>2. ASSUME NEW n \in Nat, n \in U PROVE n + 1 \in U
    <3> SUFFICES ASSUME n + 1 <= Len(s) PROVE number[n + 1] \in Nat OBVIOUS
    <3>1. number[n + 1] = After(n + 1, number[n]) BY <1>8
    <3>2. number[n] \in Nat BY <2>2
    <3> QED BY <1>1, <3>1, <3>2
  <2> HIDE DEF U
  <2> QED BY <2>1, <2>2, NatSetInduction
<1>10. StringNumber(s) = number[Len(s)] BY DEF StringNumber
<1> HIDE DEF number
<1> QED BY <1>5, <1>9, <1>10

----------------------------------------------------------------------------
\* Parsers, and what the operations make of their fields.

\* A parameter: its raw value, and whether it goes on after a colon.
Parameter == [v: Int, more: BOOLEAN]

\* A parser: its parameters and its command have their types.
Formed(x) ==
  /\ x = [state |-> x.state, params |-> x.params, n |-> x.n, cmd |-> x.cmd,
          data |-> x.data, out |-> x.out]
  /\ x.params \in [1..ParamsSize -> Parameter]
  /\ x.n \in Nat
  /\ x.cmd \in Nat
\* The string data fits its buffer.
Holding(x) == x.data \in Seq(Byte) /\ Len(x.data) <= DataSize

\* y is x but for its parameters and its command.
KeepsRest(x, y) == y.state = x.state /\ y.data = x.data /\ y.out = x.out

\* A parser with another command.
LEMMA SetCmdDoes ==
  ASSUME NEW x, Formed(x), NEW c \in Nat
  PROVE  LET y == [x EXCEPT !.cmd = c]
         IN Formed(y) /\ KeepsRest(x, y) /\ y.n = x.n /\ y.cmd = c /\ y.params = x.params
BY DEF Formed, KeepsRest

\* A parser with other parameters.
LEMMA SetParamsDoes ==
  ASSUME NEW x, Formed(x), NEW ps \in [1..ParamsSize -> Parameter]
  PROVE  LET y == [x EXCEPT !.params = ps]
         IN Formed(y) /\ KeepsRest(x, y) /\ y.n = x.n /\ y.cmd = x.cmd /\ y.params = ps
BY DEF Formed, KeepsRest

\* A parser with another count of parameters.
LEMMA SetCountDoes ==
  ASSUME NEW x, Formed(x), NEW n \in Nat
  PROVE  LET y == [x EXCEPT !.n = n]
         IN Formed(y) /\ KeepsRest(x, y) /\ y.n = n /\ y.cmd = x.cmd /\ y.params = x.params
BY DEF Formed, KeepsRest

\* A parser with all three changed.
LEMMA SetFieldsDoes ==
  ASSUME NEW x, Formed(x), NEW ps \in [1..ParamsSize -> Parameter], NEW n \in Nat, NEW c \in Nat
  PROVE  LET y == [x EXCEPT !.params = ps, !.n = n, !.cmd = c]
         IN Formed(y) /\ KeepsRest(x, y) /\ y.params = ps /\ y.n = n /\ y.cmd = c
<1> DEFINE v == [x EXCEPT !.params = ps]
           w == [v EXCEPT !.n = n]
           y == [w EXCEPT !.cmd = c]
<1>1. Formed(v) /\ KeepsRest(x, v) /\ v.params = ps BY SetParamsDoes
<1>2. Formed(w) /\ KeepsRest(v, w) /\ w.params = v.params /\ w.n = n
  <2> HIDE DEF v
  <2> QED BY <1>1, SetCountDoes
<1>3. Formed(y) /\ KeepsRest(w, y) /\ y.params = w.params /\ y.n = w.n /\ y.cmd = c
  <2> HIDE DEF w
  <2> QED BY <1>2, SetCmdDoes
<1>4. [x EXCEPT !.params = ps, !.n = n, !.cmd = c] = y OBVIOUS
<1> HIDE DEF v, w, y
<1> QED BY <1>1, <1>2, <1>3, <1>4 DEF KeepsRest

\* Parser.clear: no parameter and no command is left.
LEMMA ClearDoes ==
  ASSUME NEW x, Formed(x)
  PROVE  LET y == Clear(x)
         IN Formed(y) /\ KeepsRest(x, y) /\ y.n = 0 /\ y.cmd = 0 /\ y.params[1] = Missing
<1>1. Missing \in Parameter BY DEF Missing, Parameter
<1>2. 1 \in 1..ParamsSize BY SizesAssumption DEF SizesAssumption
<1> DEFINE ps == [x.params EXCEPT ![1] = Missing]
<1>3. ps \in [1..ParamsSize -> Parameter] /\ ps[1] = Missing BY <1>1, <1>2 DEF Formed
<1> DEFINE v == [x EXCEPT !.params[1] = Missing]
           w == [v EXCEPT !.n = 0]
           y == [w EXCEPT !.cmd = 0]
<1>4. Formed(v) /\ KeepsRest(x, v) /\ v.params = ps
  <2>1. v = [x EXCEPT !.params = ps] BY DEF Formed
  <2> HIDE DEF v, ps
  <2> QED BY <1>3, <2>1, SetParamsDoes
<1>5. Formed(w) /\ KeepsRest(v, w) /\ w.params = v.params /\ w.n = 0
  <2> HIDE DEF v
  <2> QED BY <1>4, SetCountDoes
<1>6. Formed(y) /\ KeepsRest(w, y) /\ y.params = w.params /\ y.n = w.n /\ y.cmd = 0
  <2> HIDE DEF w
  <2> QED BY <1>5, SetCmdDoes
<1>7. Clear(x) = y BY DEF Clear
<1> HIDE DEF v, w, y, ps
<1> QED BY <1>3, <1>4, <1>5, <1>6, <1>7 DEF KeepsRest

\* A handler is called: nothing but the events changes.
LEMMA EmitDoes ==
  ASSUME NEW x, Formed(x), NEW e
  PROVE  LET y == Emit(x, e)
         IN Formed(y) /\ y.state = x.state /\ y.n = x.n /\ y.cmd = x.cmd /\ y.params = x.params
            /\ y.data = x.data /\ y.out = Append(x.out, e)
<1> DEFINE o == Append(x.out, e)
<1>1. Emit(x, e) = [x EXCEPT !.out = o] BY DEF Emit
<1> HIDE DEF o
<1>2. Emit(x, e) = [state |-> x.state, params |-> x.params, n |-> x.n, cmd |-> x.cmd,
                    data |-> x.data, out |-> o]
  BY <1>1, SMT DEF Formed
<1>3. o = Append(x.out, e) BY DEF o
<1> QED BY <1>2, <1>3 DEF Formed

\* A parser in another state.
LEMMA SetStateDoes ==
  ASSUME NEW x, Formed(x), NEW s
  PROVE  LET y == [x EXCEPT !.state = s]
         IN Formed(y) /\ y.state = s /\ y.n = x.n /\ y.cmd = x.cmd /\ y.params = x.params
            /\ y.data = x.data /\ y.out = x.out
BY DEF Formed

\* A parser whose events have been taken.
LEMMA SilentDoes ==
  ASSUME NEW x, Formed(x)
  PROVE  LET y == Silent(x)
         IN Formed(y) /\ y.state = x.state /\ y.n = x.n /\ y.cmd = x.cmd /\ y.params = x.params
            /\ y.data = x.data /\ y.out = <<>>
BY DEF Formed, Silent

\* The last parameter has no separator after it.
Unclosed(x) == \/ x.n > 0 /\ x.n < ParamsSize - 1
               \/ x.n = 0 /\ x.params[1] # Missing

\* The last parameter is counted.
LEMMA LastParamDoes ==
  ASSUME NEW x, Formed(x)
  PROVE  LET y == LastParam(x)
         IN Formed(y) /\ KeepsRest(x, y) /\ y.cmd = x.cmd /\ y.params = x.params
            /\ y.n = IF Unclosed(x) THEN x.n + 1 ELSE x.n
<1>1. x.n + 1 \in Nat BY DEF Formed
<1>2. CASE Unclosed(x)
  <2>1. LastParam(x) = [x EXCEPT !.n = x.n + 1] BY <1>2 DEF LastParam, Unclosed
  <2>2. LastParam(x) = [state |-> x.state, params |-> x.params, n |-> x.n + 1, cmd |-> x.cmd,
                        data |-> x.data, out |-> x.out]
    BY <2>1, SMT DEF Formed
  <2> QED BY <1>1, <1>2, <2>2 DEF Formed, KeepsRest
<1>3. CASE ~Unclosed(x)
  <2>1. LastParam(x) = x BY <1>3 DEF LastParam, Unclosed
  <2> QED BY <1>3, <2>1 DEF KeepsRest
<1> QED BY <1>2, <1>3

\* A digit changes the parameter at hand and no other.
LEMMA AddDigitDoes ==
  ASSUME NEW x, Formed(x), x.n < ParamsSize, NEW b \in Byte
  PROVE  LET y == AddDigit(x, b)
         IN Formed(y) /\ KeepsRest(x, y) /\ y.cmd = x.cmd /\ y.n = x.n
            /\ \E v \in Int:
                 /\ v = 10 * (IF x.params[x.n + 1].v = -1 THEN 0 ELSE x.params[x.n + 1].v) + (b - 48)
                 /\ y.params = [x.params EXCEPT ![x.n + 1] = [v |-> v,
                       more |-> x.params[x.n + 1].more]]
<1> DEFINE i == x.n + 1
           v == 10 * (IF x.params[i].v = -1 THEN 0 ELSE x.params[i].v) + (b - 48)
<1>1. i \in 1..ParamsSize BY SizesAssumption DEF Formed, SizesAssumption
<1>2. x.params[i] \in Parameter BY <1>1 DEF Formed
<1>3. v \in Int BY <1>2 DEF Parameter, Byte
<1> DEFINE r == [x.params[i] EXCEPT !.v = v]
<1>5. r = [v |-> v, more |-> x.params[i].more] BY <1>2, SMT DEF Parameter
<1>6. AddDigit(x, b) = [x EXCEPT !.params = [x.params EXCEPT ![i] = r]]
  <2>1. AddDigit(x, b) = [x EXCEPT !.params[i].v = v] BY DEF AddDigit
  <2> HIDE DEF v, i
  <2> QED BY <1>1, <2>1 DEF Formed
<1>7. r \in Parameter
  <2> HIDE DEF r, v
  <2> QED BY <1>2, <1>3, <1>5 DEF Parameter
<1> HIDE DEF v, i, r
<1>8. LET y == AddDigit(x, b)
      IN Formed(y) /\ KeepsRest(x, y) /\ y.cmd = x.cmd /\ y.n = x.n
         /\ y.params = [x.params EXCEPT ![i] = r]
  <2>1. AddDigit(x, b) = [state |-> x.state, params |-> [x.params EXCEPT ![i] = r], n |-> x.n,
                          cmd |-> x.cmd, data |-> x.data, out |-> x.out]
    BY <1>6, SMT DEF Formed
  <2>2. [x.params EXCEPT ![i] = r] \in [1..ParamsSize -> Parameter] BY <1>1, <1>7 DEF Formed
  <2> QED BY <2>1, <2>2 DEF Formed, KeepsRest
<1> QED BY <1>3, <1>5, <1>8 DEF v, i

\* A separator changes the parameter at hand and readies the next.
LEMMA CloseParamDoes ==
  ASSUME NEW x, Formed(x), x.n < ParamsSize, NEW b \in Byte
  PROVE  LET y == CloseParam(x, b)
             q == [x.params EXCEPT ![x.n + 1] = [v |-> x.params[x.n + 1].v,
                                                 more |-> x.params[x.n + 1].more \/ b = 58]]
         IN Formed(y) /\ KeepsRest(x, y) /\ y.cmd = x.cmd /\ y.n = x.n + 1
            /\ y.params = IF x.n + 1 < ParamsSize THEN [q EXCEPT ![x.n + 2] = Missing] ELSE q
<1> DEFINE i == x.n + 1
           r == [v |-> x.params[i].v, more |-> x.params[i].more \/ b = 58]
           z == [x EXCEPT !.params[x.n + 1].more = @ \/ b = 58, !.n = @ + 1]
           q == [x.params EXCEPT ![i] = r]
<1>1. i \in 1..ParamsSize BY SizesAssumption DEF Formed, SizesAssumption
<1>2. x.params[i] \in Parameter BY <1>1 DEF Formed
<1>3. [x.params[i] EXCEPT !.more = @ \/ b = 58] = r BY <1>2 DEF Parameter
<1>4. r \in Parameter BY <1>2 DEF Parameter
<1>5. Missing \in Parameter BY DEF Missing, Parameter
<1> HIDE DEF r
<1>6. z = [x EXCEPT !.params = q, !.n = x.n + 1] BY <1>1, <1>3 DEF Formed
<1>7. q \in [1..ParamsSize -> Parameter] BY <1>1, <1>4 DEF Formed
<1> HIDE DEF q
<1>8. /\ Formed(z) /\ KeepsRest(x, z) /\ z.cmd = x.cmd /\ z.n = x.n + 1 /\ z.params = q
  <2>1. x.n + 1 \in Nat BY DEF Formed
  <2>2. z = [x EXCEPT !.params = q, !.n = x.n + 1, !.cmd = x.cmd] BY <1>6 DEF Formed
  <2> HIDE DEF z
  <2> QED BY <1>7, <2>1, <2>2, SetFieldsDoes DEF Formed
<1>9. CloseParam(x, b) = IF z.n < ParamsSize THEN [z EXCEPT !.params[z.n + 1] = Missing] ELSE z
  BY DEF CloseParam
<1> HIDE DEF z
<1>10. CASE z.n < ParamsSize
  <2>1. CloseParam(x, b) = [z EXCEPT !.params = [q EXCEPT ![z.n + 1] = Missing]]
    BY <1>8, <1>9, <1>10 DEF Formed
  <2>2. [q EXCEPT ![z.n + 1] = Missing] \in [1..ParamsSize -> Parameter]
    BY <1>5, <1>7
  <2>3. LET y == CloseParam(x, b)
        IN Formed(y) /\ KeepsRest(x, y) /\ y.cmd = x.cmd /\ y.n = x.n + 1
           /\ y.params = [q EXCEPT ![z.n + 1] = Missing]
    BY <1>8, <2>1, <2>2 DEF Formed, KeepsRest
  <2>4. z.n + 1 = x.n + 2 /\ z.n = x.n + 1 BY <1>8 DEF Formed
  <2> QED BY <1>10, <2>3, <2>4 DEF q, r, i
<1>11. CASE ~(z.n < ParamsSize)
  <2>1. CloseParam(x, b) = z BY <1>9, <1>11
  <2> QED BY <1>8, <1>11, <2>1 DEF q, r, i
<1> QED BY <1>10, <1>11

\* y has the parameters of x.
SameParams(x, y) == y.n = x.n /\ y.params = x.params

\* A parser with other string data.
LEMMA SetDataDoes ==
  ASSUME NEW x, Formed(x), NEW d
  PROVE  LET y == [x EXCEPT !.data = d]
         IN Formed(y) /\ y.state = x.state /\ y.out = x.out /\ y.cmd = x.cmd
            /\ SameParams(x, y) /\ y.data = d
BY DEF Formed, SameParams

\* A byte of a string is kept while there is room.
LEMMA PutByteDoes ==
  ASSUME NEW x, Formed(x), Holding(x), NEW b \in Byte
  PROVE  LET y == PutByte(x, b)
         IN Formed(y) /\ Holding(y) /\ y.state = x.state /\ y.out = x.out /\ y.cmd = x.cmd
            /\ SameParams(x, y)
            /\ y.data = IF Len(x.data) < DataSize THEN Append(x.data, b) ELSE x.data
<1> DEFINE d == Append(x.data, b)
<1>1. CASE Len(x.data) < DataSize
  <2>1. PutByte(x, b) = [x EXCEPT !.data = d] BY <1>1 DEF PutByte
  <2>2. d \in Seq(Byte) /\ Len(d) = Len(x.data) + 1 BY DEF Holding
  <2>3. Len(x.data) \in Nat /\ DataSize \in Nat BY SizesAssumption DEF SizesAssumption, Holding
  <2> HIDE DEF d
  <2>4. LET y == [x EXCEPT !.data = d]
        IN Formed(y) /\ y.state = x.state /\ y.out = x.out /\ y.cmd = x.cmd
           /\ SameParams(x, y) /\ y.data = d
    BY SetDataDoes
  <2>5. Len(d) <= DataSize BY <1>1, <2>2, <2>3
  <2> QED BY <1>1, <2>1, <2>2, <2>4, <2>5 DEF Holding, d
<1>2. CASE ~(Len(x.data) < DataSize)
  <2>1. PutByte(x, b) = x BY <1>2 DEF PutByte
  <2> QED BY <1>2, <2>1 DEF SameParams
<1> QED BY <1>1, <1>2

\* A string's command is read from its data, once.
LEMMA ParseStringCmdDoes ==
  ASSUME NEW x, Formed(x), Holding(x)
  PROVE  LET y == ParseStringCmd(x)
         IN Formed(y) /\ KeepsRest(x, y) /\ SameParams(x, y)
            /\ y.cmd = IF x.cmd = MissingCommand THEN StringNumber(x.data) ELSE x.cmd
<1>1. StringNumber(x.data) \in Nat BY StringNumberType DEF Holding
<1>2. CASE x.cmd = MissingCommand
  <2>1. ParseStringCmd(x) = [x EXCEPT !.cmd = StringNumber(x.data)] BY <1>2 DEF ParseStringCmd
  <2> QED BY <1>1, <1>2, <2>1, SetCmdDoes DEF SameParams
<1>3. CASE x.cmd # MissingCommand
  BY <1>3 DEF ParseStringCmd, KeepsRest, SameParams
<1> QED BY <1>2, <1>3

\* A string is begun: its data is empty.
LEMMA StartDoes ==
  ASSUME NEW x, Formed(x), NEW b \in Byte
  PROVE  LET y == Start(x, b)
         IN Formed(y) /\ Holding(y) /\ y.state = x.state /\ y.out = x.out /\ SameParams(x, y)
            /\ y.data = <<>> /\ y.cmd = IF x.state \in DcsStates THEN OrByte(x.cmd,
                  b) ELSE MissingCommand
<1> DEFINE c == IF x.state \in DcsStates THEN OrByte(x.cmd, b) ELSE MissingCommand
           v == [x EXCEPT !.data = <<>>]
           y == [v EXCEPT !.cmd = c]
<1>1. c \in Nat
  <2>1. OrByte(x.cmd, b) \in Nat BY OrByteType DEF Formed
  <2> QED BY <2>1 DEF MissingCommand
<1>2. Formed(v) /\ v.state = x.state /\ v.out = x.out /\ v.cmd = x.cmd /\ SameParams(x,
         v) /\ v.data = <<>>
  BY SetDataDoes
<1>3. Formed(y) /\ KeepsRest(v, y) /\ y.n = v.n /\ y.cmd = c /\ y.params = v.params
  <2> HIDE DEF v, c
  <2> QED BY <1>1, <1>2, SetCmdDoes
<1>4. Start(x, b) = y BY DEF Start
<1>5. Holding(y)
  <2>1. <<>> \in Seq(Byte) /\ Len(<<>>) = 0 OBVIOUS
  <2>2. y.data = <<>> BY <1>2, <1>3 DEF KeepsRest
  <2> HIDE DEF y
  <2> QED BY <2>1, <2>2, SizesAssumption DEF Holding, SizesAssumption
<1> HIDE DEF v, y
<1> QED BY <1>2, <1>3, <1>4, <1>5 DEF KeepsRest, SameParams

\* A byte of a string, the separator of an OSC included.
LEMMA PutDoes ==
  ASSUME NEW x, Formed(x), Holding(x), NEW b \in Byte
  PROVE  LET y == Put(x, b)
         IN Formed(y) /\ Holding(y) /\ y.state = x.state /\ y.out = x.out /\ SameParams(x, y)
            /\ y.data = (IF Len(x.data) < DataSize THEN Append(x.data, b) ELSE x.data)
            /\ y.cmd = IF x.state = "OscString" /\ b = 59 /\ x.cmd = MissingCommand
                       THEN StringNumber(x.data) ELSE x.cmd
<1> DEFINE q == IF x.state = "OscString" /\ b = 59 THEN ParseStringCmd(x) ELSE x
<1>1. Formed(q) /\ KeepsRest(x, q) /\ SameParams(x, q)
      /\ q.cmd = IF x.state = "OscString" /\ b = 59 /\ x.cmd = MissingCommand
                 THEN StringNumber(x.data) ELSE x.cmd
  BY ParseStringCmdDoes DEF KeepsRest, SameParams
<1>2. Put(x, b) = PutByte(q, b) BY DEF Put
<1> HIDE DEF q
<1>3. Holding(q) BY <1>1 DEF Holding, KeepsRest
<1> QED BY <1>1, <1>2, <1>3, PutByteDoes DEF KeepsRest, SameParams

\* The event a dispatch ends with.
Event(x, b) ==
  CASE x.state \in CsiStates -> <<"csi", OrByte(x.cmd, b), Params(LastParam(x))>>
    [] x.state \in {"Escape", "EscapeIntermediate"} -> <<"esc", OrByte(x.cmd, b)>>
    [] x.state \in DcsStates -> <<"dcs", x.cmd, Params(LastParam(x)), x.data>>
    [] x.state = "OscString" -> <<"osc", ParseStringCmd(x).cmd, x.data>>
    [] OTHER -> <<x.state, x.data>>

\* A dispatch emits that event and leaves the state to its caller.
LEMMA DispatchDoes ==
  ASSUME NEW x, Formed(x), Holding(x), NEW b \in Byte
  PROVE  LET y == Dispatch(x, b)
         IN Formed(y) /\ Holding(y) /\ y.state = x.state /\ y.n = LastParam(x).n
            /\ y.out = Append(x.out, Event(x, b))
<1> DEFINE q == LastParam(x)
           r == [q EXCEPT !.cmd = OrByte(q.cmd, b)]
           s == ParseStringCmd(q)
<1>1. Formed(q) /\ KeepsRest(x, q) /\ q.cmd = x.cmd /\ q.params = x.params BY LastParamDoes
<1>2. Holding(q) BY <1>1 DEF Holding, KeepsRest
<1> HIDE DEF q
<1>3. Formed(r) /\ KeepsRest(q, r) /\ SameParams(q, r) /\ r.cmd = OrByte(x.cmd, b)
  <2>1. OrByte(q.cmd, b) \in Nat BY <1>1, OrByteType DEF Formed
  <2> QED BY <1>1, <2>1, SetCmdDoes DEF SameParams
<1>4. Formed(s) /\ KeepsRest(q, s) /\ SameParams(q, s) /\ s.cmd = ParseStringCmd(x).cmd
  BY <1>1, <1>2, ParseStringCmdDoes DEF KeepsRest
<1>5. Params(r) = Params(q) BY <1>3 DEF Params, SameParams
<1>6. ASSUME NEW z, Formed(z), KeepsRest(q, z), SameParams(q, z), NEW e, Dispatch(x, b) = Emit(z, e)
      PROVE  LET y == Dispatch(x, b)
             IN Formed(y) /\ Holding(y) /\ y.state = x.state /\ y.n = q.n /\ y.out = Append(x.out, e)
  BY <1>1, <1>2, <1>6, EmitDoes DEF KeepsRest, SameParams, Holding
<1>7. CASE x.state \in CsiStates
  <2>1. Dispatch(x, b) = Emit(r, <<"csi", r.cmd, Params(r)>>)
    BY <1>7 DEF Dispatch, q, CsiStates, DcsStates
  <2>2. Event(x, b) = <<"csi", r.cmd, Params(r)>>
    BY <1>3, <1>5, <1>7 DEF Event, q, CsiStates, DcsStates
  <2> HIDE DEF r
  <2> QED BY <1>3, <1>6, <2>1, <2>2 DEF q
<1>8. CASE x.state \in {"Escape", "EscapeIntermediate"}
  <2>1. Dispatch(x, b) = Emit(r, <<"esc", r.cmd>>) BY <1>8 DEF Dispatch, q, CsiStates, DcsStates
  <2>2. Event(x, b) = <<"esc", r.cmd>> BY <1>3, <1>8 DEF Event, CsiStates, DcsStates
  <2> HIDE DEF r
  <2> QED BY <1>3, <1>6, <2>1, <2>2 DEF q
<1>9. CASE x.state \in DcsStates
  <2>1. Dispatch(x, b) = Emit(q, <<"dcs", q.cmd, Params(q), q.data>>)
    BY <1>9 DEF Dispatch, q, CsiStates, DcsStates
  <2>2. Event(x, b) = <<"dcs", q.cmd, Params(q), q.data>>
    BY <1>1, <1>9 DEF Event, CsiStates, DcsStates, KeepsRest, q
  <2>3. KeepsRest(q, q) /\ SameParams(q, q) BY DEF KeepsRest, SameParams
  <2> QED BY <1>1, <1>6, <2>1, <2>2, <2>3 DEF q
<1>10. CASE x.state = "OscString"
  <2>1. Dispatch(x, b) = Emit(s, <<"osc", s.cmd, s.data>>)
    BY <1>10 DEF Dispatch, q, CsiStates, DcsStates
  <2>2. Event(x, b) = <<"osc", s.cmd, s.data>>
    BY <1>1, <1>4, <1>10 DEF Event, CsiStates, DcsStates, KeepsRest
  <2> HIDE DEF s
  <2> QED BY <1>4, <1>6, <2>1, <2>2 DEF q
<1>11. CASE x.state \notin CsiStates \cup DcsStates \cup {"Escape", "EscapeIntermediate",
               "OscString"}
  <2>1. Dispatch(x, b) = Emit(q, <<x.state, q.data>>) BY <1>11 DEF Dispatch, q
  <2>2. Event(x, b) = <<x.state, q.data>> BY <1>1, <1>11 DEF Event, KeepsRest
  <2>3. KeepsRest(q, q) /\ SameParams(q, q) BY DEF KeepsRest, SameParams
  <2> QED BY <1>1, <1>6, <2>1, <2>2, <2>3 DEF q
<1> QED BY <1>7, <1>8, <1>9, <1>10, <1>11

----------------------------------------------------------------------------
\* Two parsers that are alike, and what the actions make of them.

\* The parameters counted so far, and the one at hand, are the same.
ParamsAlike(x, y) ==
  x.n = y.n /\ \A i \in 1..ParamsSize: i <= x.n + 1 => x.params[i] = y.params[i]
\* The states whose actions look at parameters, command and data.
HasParams(s) == s \in Headers \cup {"DcsString"}
HasCmd(s) == s \in Headers \cup {"DcsString", "OscString", "EscapeIntermediate"}
HasData(s) == s \in ControlStrings \cup {"DcsString"}
\* Two parsers are alike in all that a state looks at.
Alike(s, x, y) ==
  /\ HasParams(s) => ParamsAlike(x, y)
  /\ HasCmd(s) => x.cmd = y.cmd
  /\ HasData(s) => x.data = y.data
  /\ s = "Utf8" => x.n = y.n /\ ByteAt(x.cmd, 0) = ByteAt(y.cmd, 0)

\* No buffer is overrun: of runes the parser keeps up to four bytes.
Bounded(s, x) == IF s = "Utf8" THEN x.n \in 1..4 ELSE x.n <= ParamsSize

\* Two parsers of a state, before a byte's action.
Twins(v, w) ==
  /\ Formed(v) /\ Holding(v) /\ Bounded("Ground", v)
  /\ Formed(w) /\ Holding(w) /\ Bounded("Ground", w)
  /\ v.state = w.state /\ v.out = w.out
\* The two after it, on their way to the next state.
Become(next, v, w) ==
  /\ Formed(v) /\ Holding(v) /\ Bounded(next, v)
  /\ Formed(w) /\ Holding(w) /\ Bounded(next, w)
  /\ v.out = w.out /\ Alike(next, v, w)

\* Twins to whom nothing is done stay twins.
LEMMA NoneTwins ==
  ASSUME NEW v, NEW w, Twins(v, w), NEW b, NEW next \in {v.state, "Ground"}, v.state # "Utf8",
         next = "Ground" \/ Alike(v.state, v, w)
  PROVE  Become(next, Perform(v, "None", next, b), Perform(w, "None", next, b))
<1>1. Perform(v, "None", next, b) = v /\ Perform(w, "None", next, b) = w BY DEF Perform
<1>2. Alike("Ground", v, w)
  BY DEF Alike, HasParams, HasCmd, HasData, Headers, ControlStrings, CsiStates
<1> QED BY <1>1, <1>2 DEF Twins, Become, Bounded

\* Twins that print or execute a character.
LEMMA EmitTwins ==
  ASSUME NEW v, NEW w, Twins(v, w), NEW b \in Byte, NEW act \in {"Print", "Execute"},
         NEW next \in {v.state, "Ground"}, v.state # "Utf8",
         next \in {"Ground", "Escape"} \/ Alike(v.state, v, w)
  PROVE  Become(next, Perform(v, act, next, b), Perform(w, act, next, b))
<1> DEFINE C(x) == [x EXCEPT !.cmd = b]
           E(x) == Emit(C(x), <<act, b>>)
<1>1. ASSUME NEW x, Formed(x)
      PROVE  LET y == E(x)
             IN Formed(y) /\ y.n = x.n /\ y.cmd = b /\ y.params = x.params
                /\ y.data = x.data /\ y.out = Append(x.out, <<act, b>>)
  <2>1. b \in Nat BY DEF Byte
  <2>2. Formed(C(x)) /\ KeepsRest(x, C(x)) /\ C(x).n = x.n /\ C(x).cmd = b /\ C(x).params = x.params
    BY <1>1, <2>1, SetCmdDoes
  <2> HIDE DEF C
  <2> QED BY <2>2, EmitDoes DEF KeepsRest
<1>2. Perform(v, act, next, b) = E(v) /\ Perform(w, act, next, b) = E(w)
  <2>1. CASE act = "Print" BY <2>1 DEF Perform
  <2>2. CASE act = "Execute" BY <2>2 DEF Perform
  <2> QED BY <2>1, <2>2
<1> HIDE DEF E
<1>3. Alike(next, E(v), E(w))
  <2>1. CASE next \in {"Ground", "Escape"}
    BY <2>1 DEF Alike, HasParams, HasCmd, HasData, Headers, ControlStrings, CsiStates
  <2>2. CASE next = v.state /\ Alike(v.state, v, w)
    BY <1>1, <2>2 DEF Alike, Twins, ParamsAlike
  <2> QED BY <2>1, <2>2
<1> QED BY <1>1, <1>2, <1>3 DEF Twins, Become, Bounded, Holding

\* Twins at the start of a sequence: what they held is forgotten.
LEMMA ClearTwins ==
  ASSUME NEW v, NEW w, Twins(v, w), NEW b, NEW next \in {"Escape", "CsiEntry", "DcsEntry"}
  PROVE  Become(next, Perform(v, "Clear", next, b), Perform(w, "Clear", next, b))
<1>1. Perform(v, "Clear", next, b) = Clear(v) /\ Perform(w, "Clear", next, b) = Clear(w)
  BY DEF Perform
<1>2. /\ Formed(Clear(v)) /\ KeepsRest(v, Clear(v)) /\ Clear(v).n = 0 /\ Clear(v).cmd = 0
      /\ Clear(v).params[1] = Missing
      /\ Formed(Clear(w)) /\ KeepsRest(w, Clear(w)) /\ Clear(w).n = 0 /\ Clear(w).cmd = 0
      /\ Clear(w).params[1] = Missing
  BY ClearDoes DEF Twins
<1>3. ParamsAlike(Clear(v), Clear(w)) BY <1>2 DEF ParamsAlike
<1>4. Alike(next, Clear(v), Clear(w))
  BY <1>2, <1>3 DEF Alike, HasData, ControlStrings
<1>5. 0 <= ParamsSize BY SizesAssumption DEF SizesAssumption
<1> QED BY <1>1, <1>2, <1>4, <1>5 DEF Twins, Become, Bounded, Holding, KeepsRest

\* Twins that get a prefix byte.
LEMMA PrefixTwins ==
  ASSUME NEW v, NEW w, Twins(v, w), NEW b \in Byte, v.state \in Headers, NEW next \in Headers,
         Alike(v.state, v, w)
  PROVE  Become(next, Perform(v, "Prefix", next, b), Perform(w, "Prefix", next, b))
<1> DEFINE c == WithByte(v.cmd, 1, b)
<1>1. ParamsAlike(v, w) /\ v.cmd = w.cmd BY DEF Alike, HasParams, HasCmd
<1>2. Perform(v, "Prefix", next, b) = [v EXCEPT !.cmd = c] /\ Perform(w, "Prefix", next,
         b) = [w EXCEPT !.cmd = c]
  BY <1>1 DEF Perform
<1>3. c \in Nat BY WithByteType DEF Twins, Formed
<1> DEFINE x == [v EXCEPT !.cmd = c]
           y == [w EXCEPT !.cmd = c]
<1>4. /\ Formed(x) /\ KeepsRest(v, x) /\ x.n = v.n /\ x.cmd = c /\ x.params = v.params
      /\ Formed(y) /\ KeepsRest(w, y) /\ y.n = w.n /\ y.cmd = c /\ y.params = w.params
  <2> HIDE DEF c
  <2> QED BY <1>3, SetCmdDoes DEF Twins
<1> HIDE DEF x, y, c
<1>5. ParamsAlike(x, y) BY <1>1, <1>4 DEF ParamsAlike
<1>6. Alike(next, x, y) BY <1>4, <1>5 DEF Alike, HasData, ControlStrings, Headers, CsiStates
<1> QED BY <1>2, <1>4, <1>6 DEF Twins, Become, Bounded, Holding, KeepsRest, x, y, Headers, CsiStates

\* Parameters that are alike take the same digit.
LEMMA AddDigitTwins ==
  ASSUME NEW v, NEW w, Formed(v), Formed(w), ParamsAlike(v, w), v.n < ParamsSize, NEW b \in Byte
  PROVE  ParamsAlike(AddDigit(v, b), AddDigit(w, b))
<1> DEFINE i == v.n + 1
<1>1. i \in 1..ParamsSize /\ w.n = v.n BY SizesAssumption DEF Formed, SizesAssumption, ParamsAlike
<1>2. v.params[i] = w.params[i] BY <1>1 DEF ParamsAlike
<1>3. PICK x \in Int:
        /\ x = 10 * (IF v.params[i].v = -1 THEN 0 ELSE v.params[i].v) + (b - 48)
        /\ AddDigit(v, b).params = [v.params EXCEPT ![i] = [v |-> x, more |-> v.params[i].more]]
  BY AddDigitDoes
<1>4. PICK y \in Int:
        /\ y = 10 * (IF w.params[i].v = -1 THEN 0 ELSE w.params[i].v) + (b - 48)
        /\ AddDigit(w, b).params = [w.params EXCEPT ![i] = [v |-> y, more |-> w.params[i].more]]
  BY <1>1, AddDigitDoes
<1>5. x = y BY <1>2, <1>3, <1>4
<1>6. AddDigit(v, b).n = v.n /\ AddDigit(w, b).n = v.n BY <1>1, AddDigitDoes
<1> DEFINE r == [v |-> x, more |-> v.params[i].more]
<1>7. /\ AddDigit(v, b).params = [v.params EXCEPT ![i] = r]
      /\ AddDigit(w, b).params = [w.params EXCEPT ![i] = r]
  BY <1>2, <1>3, <1>4, <1>5
<1> HIDE DEF r, i
<1> QED BY <1>1, <1>6, <1>7 DEF ParamsAlike, Formed

\* Parameters that are alike are closed alike.
LEMMA CloseParamTwins ==
  ASSUME NEW v, NEW w, Formed(v), Formed(w), ParamsAlike(v, w), v.n < ParamsSize, NEW b \in Byte
  PROVE  ParamsAlike(CloseParam(v, b), CloseParam(w, b))
<1> DEFINE i == v.n + 1
           r(x) == [v |-> x.params[i].v, more |-> x.params[i].more \/ b = 58]
           q(x) == [x.params EXCEPT ![i] = r(x)]
<1>1. i \in 1..ParamsSize /\ w.n = v.n BY SizesAssumption DEF Formed, SizesAssumption, ParamsAlike
<1>2. r(v) = r(w) BY <1>1 DEF ParamsAlike
<1>3. /\ CloseParam(v, b).n = v.n + 1
      /\ CloseParam(v,
            b).params = IF v.n + 1 < ParamsSize THEN [q(v) EXCEPT ![v.n + 2] = Missing] ELSE q(v)
      /\ CloseParam(w, b).n = v.n + 1
      /\ CloseParam(w,
            b).params = IF v.n + 1 < ParamsSize THEN [q(w) EXCEPT ![v.n + 2] = Missing] ELSE q(w)
  BY <1>1, CloseParamDoes
<1> HIDE DEF r
<1>4. \A j \in 1..ParamsSize: j <= v.n + 1 => q(v)[j] = q(w)[j]
  BY <1>1, <1>2 DEF ParamsAlike, Formed
<1>5. q(v) \in [1..ParamsSize -> {q(v)[j]: j \in 1..ParamsSize}]
      /\ DOMAIN q(v) = 1..ParamsSize /\ DOMAIN q(w) = 1..ParamsSize
  BY DEF Formed
<1> HIDE DEF q, i
<1>6. CASE v.n + 1 < ParamsSize
  <2>1. v.n + 2 \in 1..ParamsSize BY <1>6, SizesAssumption DEF Formed, SizesAssumption
  <2>2. \A j \in 1..ParamsSize: j <= v.n + 2 =>
          [q(v) EXCEPT ![v.n + 2] = Missing][j] = [q(w) EXCEPT ![v.n + 2] = Missing][j]
    BY <1>4, <1>5, <2>1 DEF Formed
  <2> QED BY <1>3, <1>6, <2>2 DEF ParamsAlike, Formed
<1>7. CASE ~(v.n + 1 < ParamsSize)
  <2>1. v.n + 1 = ParamsSize BY <1>7, SizesAssumption DEF Formed, SizesAssumption
  <2>2. \A j \in 1..ParamsSize: q(v)[j] = q(w)[j] BY <1>4, <2>1
  <2>3. CloseParam(v, b).params = q(v) /\ CloseParam(w, b).params = q(w) BY <1>3, <1>7
  <2> QED BY <1>3, <2>2, <2>3 DEF ParamsAlike
<1> QED BY <1>6, <1>7

\* Twins that get a digit or a separator.
LEMMA ParamTwins ==
  ASSUME NEW v, NEW w, Twins(v, w), NEW b \in Byte, v.state \in Headers, NEW next \in Headers,
         Alike(v.state, v, w)
  PROVE  Become(next, Perform(v, "Param", next, b), Perform(w, "Param", next, b))
<1> DEFINE x == AddParam(v, b)
           y == AddParam(w, b)
<1>1. ParamsAlike(v, w) /\ v.cmd = w.cmd BY DEF Alike, HasParams, HasCmd
<1>2. Perform(v, "Param", next, b) = x /\ Perform(w, "Param", next, b) = y BY DEF Perform
<1>3. Formed(v) /\ Formed(w) /\ v.n = w.n /\ v.n \in Nat BY <1>1 DEF Twins, Formed, ParamsAlike
<1>4. /\ Formed(x) /\ KeepsRest(v, x) /\ x.cmd = v.cmd /\ x.n <= ParamsSize
      /\ Formed(y) /\ KeepsRest(w, y) /\ y.cmd = w.cmd /\ y.n <= ParamsSize
      /\ ParamsAlike(x, y)
  <2>1. CASE v.n >= ParamsSize
    <3>1. x = v /\ y = w
      <4>1. ParamsSize \in Nat BY SizesAssumption DEF SizesAssumption
      <4>2. v.n >= ParamsSize /\ w.n >= ParamsSize /\ ~(v.n < ParamsSize) /\ ~(w.n < ParamsSize)
        BY <1>3, <2>1, <4>1
      <4> QED BY <4>2 DEF AddParam
    <3> QED BY <1>1, <3>1 DEF Twins, KeepsRest, Bounded
  <2>2. CASE v.n < ParamsSize /\ b \in 48..57
    <3>1. ~(v.n >= ParamsSize) BY <1>3, <2>2, SizesAssumption DEF SizesAssumption
    <3>2. x = AddDigit(v, b) /\ y = AddDigit(w, b) BY <1>3, <2>2, <3>1 DEF AddParam
    <3>3. ParamsAlike(x, y) BY <1>1, <1>3, <2>2, <3>2, AddDigitTwins
    <3>4. /\ Formed(x) /\ KeepsRest(v, x) /\ x.cmd = v.cmd /\ x.n = v.n
          /\ Formed(y) /\ KeepsRest(w, y) /\ y.cmd = w.cmd /\ y.n = w.n
      <4> HIDE DEF x, y
      <4> QED BY <1>3, <2>2, <3>2, AddDigitDoes
    <3> HIDE DEF x, y
    <3> QED BY <1>3, <2>2, <3>3, <3>4, SizesAssumption DEF SizesAssumption
  <2>3. CASE v.n < ParamsSize /\ b \notin 48..57
    <3>1. ~(v.n >= ParamsSize) BY <1>3, <2>3, SizesAssumption DEF SizesAssumption
    <3>2. x = CloseParam(v, b) /\ y = CloseParam(w, b) BY <1>3, <2>3, <3>1 DEF AddParam
    <3>3. ParamsAlike(x, y) BY <1>1, <1>3, <2>3, <3>2, CloseParamTwins
    <3>4. /\ Formed(x) /\ KeepsRest(v, x) /\ x.cmd = v.cmd /\ x.n = v.n + 1
          /\ Formed(y) /\ KeepsRest(w, y) /\ y.cmd = w.cmd /\ y.n = w.n + 1
      <4> HIDE DEF x, y
      <4> QED BY <1>3, <2>3, <3>2, CloseParamDoes
    <3> HIDE DEF x, y
    <3> QED BY <1>3, <2>3, <3>3, <3>4, SizesAssumption DEF SizesAssumption
  <2> QED BY <1>3, <2>1, <2>2, <2>3, SizesAssumption DEF SizesAssumption
<1> HIDE DEF x, y
<1>5. Alike(next, x, y) BY <1>1, <1>4 DEF Alike, HasData, ControlStrings, Headers, CsiStates
<1> QED BY <1>2, <1>4, <1>5 DEF Twins, Become, Bounded, Holding, KeepsRest, Headers, CsiStates

\* Twins at a rune's first byte.
LEMMA CollectRuneTwins ==
  ASSUME NEW v, NEW w, Twins(v, w), NEW b \in Byte
  PROVE  Become("Utf8", Perform(v, "Collect", "Utf8", b), Perform(w, "Collect", "Utf8", b))
<1> DEFINE Z(x) == [x EXCEPT !.n = 0]
           D(x) == WithByte(x.cmd, 0, b)
           V(x) == [Z(x) EXCEPT !.cmd = D(x)]
           Y(x) == [V(x) EXCEPT !.n = 1]
<1>1. ASSUME NEW x, Formed(x), Holding(x)
      PROVE  /\ Perform(x, "Collect", "Utf8", b) = Y(x)
             /\ Formed(Y(x)) /\ Holding(Y(x)) /\ Y(x).out = x.out /\ Y(x).n = 1 /\ Y(x).cmd = D(x)
             /\ ByteAt(D(x), 0) = b
  <2>1. Formed(Z(x)) /\ KeepsRest(x, Z(x)) /\ Z(x).n = 0 /\ Z(x).cmd = x.cmd BY <1>1, SetCountDoes
  <2>2. D(x) \in Nat /\ ByteAt(D(x), 0) = b BY <1>1, WithByteType, LowByte0 DEF Formed
  <2>3. Perform(x, "Collect", "Utf8", b) = CollectRune(Z(x), b) BY DEF Perform, Collect
  <2>4. CollectRune(Z(x), b) = [[Z(x) EXCEPT !.cmd = WithByte(Z(x).cmd, Z(x).n, b)] EXCEPT !.n = 1]
    <3> HIDE DEF Z
    <3> QED BY <2>1 DEF CollectRune
  <2>5. CollectRune(Z(x), b) = Y(x)
    <3>1. WithByte(Z(x).cmd, Z(x).n, b) = D(x) BY <2>1
    <3> HIDE DEF Z, D
    <3> QED BY <2>4, <3>1
  <2>6. Formed(V(x)) /\ KeepsRest(Z(x), V(x)) /\ V(x).n = 0 /\ V(x).cmd = D(x)
    <3> HIDE DEF Z, D
    <3> QED BY <2>1, <2>2, SetCmdDoes
  <2>7. Formed(Y(x)) /\ KeepsRest(V(x), Y(x)) /\ Y(x).n = 1 /\ Y(x).cmd = D(x)
    <3> HIDE DEF V
    <3> QED BY <2>6, SetCountDoes
  <2> HIDE DEF V, Y, Z, D
  <2> QED BY <1>1, <2>1, <2>2, <2>3, <2>5, <2>6, <2>7 DEF KeepsRest, Holding
<1> HIDE DEF Y, D
<1>2. Alike("Utf8", Y(v), Y(w))
  BY <1>1 DEF Alike, HasParams, HasCmd, HasData, Headers, ControlStrings, CsiStates, Twins
<1> QED BY <1>1, <1>2 DEF Twins, Become, Bounded

\* Twins that get an intermediate byte.
LEMMA CollectTwins ==
  ASSUME NEW v, NEW w, Twins(v, w), NEW b \in Byte, v.cmd = w.cmd, NEW next,
         \/ next = "EscapeIntermediate"
         \/ next \in Headers /\ ParamsAlike(v, w)
  PROVE  Become(next, Perform(v, "Collect", next, b), Perform(w, "Collect", next, b))
<1> DEFINE c == WithByte(v.cmd, 2, b)
           x == [v EXCEPT !.cmd = c]
           y == [w EXCEPT !.cmd = c]
<1>1. next # "Utf8" BY DEF Headers, CsiStates
<1>2. Perform(v, "Collect", next, b) = x /\ Perform(w, "Collect", next, b) = y
  BY <1>1 DEF Perform, Collect
<1>3. c \in Nat BY WithByteType DEF Twins, Formed
<1>4. /\ Formed(x) /\ KeepsRest(v, x) /\ x.n = v.n /\ x.cmd = c /\ x.params = v.params
      /\ Formed(y) /\ KeepsRest(w, y) /\ y.n = w.n /\ y.cmd = c /\ y.params = w.params
  <2> HIDE DEF c
  <2> QED BY <1>3, SetCmdDoes DEF Twins
<1> HIDE DEF x, y, c
<1>5. next \in Headers => ParamsAlike(x, y) BY <1>4 DEF ParamsAlike, Headers, CsiStates
<1>6. Alike(next, x, y)
  BY <1>1, <1>4, <1>5 DEF Alike, HasData, HasParams, ControlStrings, Headers, CsiStates
<1> QED BY <1>1, <1>2, <1>4, <1>6 DEF Twins, Become, Bounded, Holding, KeepsRest

\* Twins at the start of a string.
LEMMA StartTwins ==
  ASSUME NEW v, NEW w, Twins(v, w), NEW b \in Byte, NEW next,
         v.state \in DcsStates => v.cmd = w.cmd,
         \/ next \in ControlStrings
         \/ next = "DcsString" /\ ParamsAlike(v, w)
  PROVE  Become(next, Perform(v, "Start", next, b), Perform(w, "Start", next, b))
<1> DEFINE x == Start(v, b)
           y == Start(w, b)
<1>1. Perform(v, "Start", next, b) = x /\ Perform(w, "Start", next, b) = y BY DEF Perform
<1>2. /\ Formed(x) /\ Holding(x) /\ x.out = v.out /\ SameParams(v, x) /\ x.data = <<>>
      /\ x.cmd = (IF v.state \in DcsStates THEN OrByte(v.cmd, b) ELSE MissingCommand)
      /\ Formed(y) /\ Holding(y) /\ y.out = w.out /\ SameParams(w, y) /\ y.data = <<>>
      /\ y.cmd = (IF v.state \in DcsStates THEN OrByte(w.cmd, b) ELSE MissingCommand)
  BY StartDoes DEF Twins
<1> HIDE DEF x, y
<1>3. x.cmd = y.cmd BY <1>2
<1>4. next = "DcsString" => ParamsAlike(x, y) BY <1>2 DEF ParamsAlike, SameParams, ControlStrings
<1>5. Alike(next, x, y)
  BY <1>2, <1>3, <1>4 DEF Alike, HasParams, HasData, ControlStrings, Headers, CsiStates
<1>6. next # "Utf8" BY DEF ControlStrings
<1> QED BY <1>1, <1>2, <1>5, <1>6 DEF Twins, Become, Bounded, SameParams

\* Twins that get a byte of a string.
LEMMA PutTwins ==
  ASSUME NEW v, NEW w, Twins(v, w), NEW b \in Byte,
         NEW next \in ControlStrings \cup {"DcsString"}, Alike(next, v, w)
  PROVE  Become(next, Perform(v, "Put", next, b), Perform(w, "Put", next, b))
<1> DEFINE x == Put(v, b)
           y == Put(w, b)
           C(z) == IF z.state = "OscString" /\ b = 59 /\ z.cmd = MissingCommand
                   THEN StringNumber(z.data) ELSE z.cmd
           D(z) == IF Len(z.data) < DataSize THEN Append(z.data, b) ELSE z.data
<1>1. Perform(v, "Put", next, b) = x /\ Perform(w, "Put", next, b) = y BY DEF Perform
<1>2. /\ Formed(x) /\ Holding(x) /\ x.out = v.out /\ SameParams(v,
            x) /\ x.data = D(v) /\ x.cmd = C(v)
      /\ Formed(y) /\ Holding(y) /\ y.out = w.out /\ SameParams(w,
            y) /\ y.data = D(w) /\ y.cmd = C(w)
  BY PutDoes DEF Twins
<1>3. v.data = w.data BY DEF Alike, HasData
<1>4. D(v) = D(w) BY <1>3
<1>5. HasCmd(next) => C(v) = C(w) BY <1>3 DEF Alike, Twins
<1> HIDE DEF x, y, C, D
<1>6. HasParams(next) => ParamsAlike(x, y) BY <1>2 DEF Alike, ParamsAlike, SameParams
<1>7. next # "Utf8" BY DEF ControlStrings
<1>8. Alike(next, x, y) BY <1>2, <1>4, <1>5, <1>6, <1>7 DEF Alike
<1> QED BY <1>1, <1>2, <1>7, <1>8 DEF Twins, Become, Bounded, SameParams

\* The parameters a handler is called with stay in the buffer, and are the same.
LEMMA LastParamTwins ==
  ASSUME NEW v, NEW w, Formed(v), Formed(w), v.n <= ParamsSize
  PROVE  /\ LastParam(v).n \in Nat /\ LastParam(v).n <= ParamsSize
         /\ ParamsAlike(v, w) => Params(LastParam(v)) = Params(LastParam(w))
<1> DEFINE x == LastParam(v)
           y == LastParam(w)
<1>1. /\ Formed(x) /\ x.params = v.params /\ x.n = IF Unclosed(v) THEN v.n + 1 ELSE v.n
      /\ Formed(y) /\ y.params = w.params /\ y.n = IF Unclosed(w) THEN w.n + 1 ELSE w.n
  BY LastParamDoes
<1> HIDE DEF x, y
<1>2. ParamsSize \in Nat \ {0} /\ v.n \in Nat BY SizesAssumption DEF SizesAssumption, Formed
<1>3. x.n \in Nat /\ x.n <= ParamsSize /\ x.n <= v.n + 1 BY <1>1, <1>2 DEF Unclosed
<1>4. ASSUME ParamsAlike(v, w) PROVE Params(x) = Params(y)
  <2>1. v.params[1] = w.params[1] /\ v.n = w.n BY <1>2, <1>4 DEF ParamsAlike
  <2>2. Unclosed(v) = Unclosed(w) BY <2>1 DEF Unclosed
  <2>3. x.n = y.n BY <1>1, <2>1, <2>2
  <2>4. \A i \in 1..x.n: x.params[i] = y.params[i] BY <1>1, <1>2, <1>3, <1>4 DEF ParamsAlike
  <2> QED BY <1>3, <2>3, <2>4 DEF Params
<1> QED BY <1>3, <1>4 DEF x, y

\* Twins dispatch the same event.
LEMMA EventTwins ==
  ASSUME NEW v, NEW w, Twins(v, w), NEW b \in Byte, 
         v.state \in States \ {"Ground", "Utf8", "DcsEntry", "DcsIntermediate", "DcsParam"},
         \/ v.state # "Escape" /\ Alike(v.state, v, w)
         \/ v.state = "Escape" /\ v.cmd = w.cmd
  PROVE  Event(v, b) = Event(w, b)
<1>1. v.state = w.state /\ v.n <= ParamsSize /\ Formed(v) /\ Formed(w)
  BY DEF Twins, Bounded
<1>2. CASE v.state \in CsiStates
  <2>1. ParamsAlike(v, w) /\ v.cmd = w.cmd BY <1>2 DEF Alike, HasParams, HasCmd, Headers, CsiStates
  <2>2. Params(LastParam(v)) = Params(LastParam(w)) BY <1>1, <2>1, LastParamTwins
  <2> QED BY <1>1, <1>2, <2>1, <2>2 DEF Event, CsiStates, DcsStates
<1>3. CASE v.state \in {"Escape", "EscapeIntermediate"}
  <2>1. v.cmd = w.cmd BY <1>3 DEF Alike, HasCmd
  <2> QED BY <1>1, <1>3, <2>1 DEF Event, CsiStates, DcsStates
<1>5. CASE v.state = "DcsString"
  <2>1. ParamsAlike(v, w) /\ v.cmd = w.cmd /\ v.data = w.data
    BY <1>5 DEF Alike, HasParams, HasCmd, HasData
  <2>2. Params(LastParam(v)) = Params(LastParam(w)) BY <1>1, <2>1, LastParamTwins
  <2> QED BY <1>1, <1>5, <2>1, <2>2 DEF Event, CsiStates, DcsStates
<1>6. CASE v.state = "OscString"
  <2>1. v.cmd = w.cmd /\ v.data = w.data BY <1>6 DEF Alike, HasCmd, HasData, ControlStrings
  <2>2. ParseStringCmd(v).cmd = ParseStringCmd(w).cmd BY <2>1, ParseStringCmdDoes DEF Twins
  <2> QED BY <1>1, <1>6, <2>1, <2>2 DEF Event, CsiStates, DcsStates
<1>7. CASE v.state \in {"SosString", "PmString", "ApcString"}
  <2>1. v.data = w.data BY <1>7 DEF Alike, HasData, ControlStrings
  <2> QED BY <1>1, <1>7, <2>1 DEF Event, CsiStates, DcsStates
<1> QED BY <1>2, <1>3, <1>5, <1>6, <1>7 DEF States, CsiStates, DcsStates

\* Twins that call a handler.
LEMMA DispatchTwins ==
  ASSUME NEW v, NEW w, Twins(v, w), NEW b \in Byte, NEW next \in {"Ground", "Escape"},
         v.state \in States \ {"Ground", "Utf8", "DcsEntry", "DcsIntermediate", "DcsParam"},
         \/ v.state # "Escape" /\ Alike(v.state, v, w)
         \/ v.state = "Escape" /\ v.cmd = w.cmd
  PROVE  Become(next, Perform(v, "Dispatch", next, b), Perform(w, "Dispatch", next, b))
<1>1. Perform(v, "Dispatch", next, b) = Dispatch(v, b) /\ Perform(w, "Dispatch", next,
         b) = Dispatch(w, b)
  BY DEF Perform
<1>2. Event(v, b) = Event(w, b) BY EventTwins
<1>3. /\ Formed(v) /\ Holding(v) /\ v.n <= ParamsSize
      /\ Formed(w) /\ Holding(w) /\ w.n <= ParamsSize /\ v.out = w.out
  BY DEF Twins, Bounded
<1>4. /\ Formed(Dispatch(v, b)) /\ Holding(Dispatch(v, b)) /\ Dispatch(v, b).n <= ParamsSize
      /\ Dispatch(v, b).out = Append(v.out, Event(v, b))
      /\ Formed(Dispatch(w, b)) /\ Holding(Dispatch(w, b)) /\ Dispatch(w, b).n <= ParamsSize
      /\ Dispatch(w, b).out = Append(w.out, Event(w, b))
  BY <1>3, DispatchDoes, LastParamTwins
<1>5. Alike(next, Dispatch(v, b), Dispatch(w, b))
  BY DEF Alike, HasParams, HasCmd, HasData, Headers, ControlStrings, CsiStates
<1> QED BY <1>1, <1>2, <1>3, <1>4, <1>5 DEF Become, Bounded

----------------------------------------------------------------------------
\* A whole byte.

\* What leaving a state does first: an escape sequence left is cleared,
Cleared(s, go) == s = "Escape" /\ go.next # "Escape"
\* a device control string that passes a sequence through is begun.
Opened(s, go) == s = "DcsEntry" /\ go.act = "Put" /\ go.next = "DcsString"
\* What twins are alike in after that.
Gone(s, go, v, w) ==
  /\ Cleared(s, go) => Alike("CsiEntry", v, w)
  /\ Opened(s, go) => Alike("DcsString", v, w)
  /\ ~Cleared(s, go) /\ ~Opened(s, go) => Alike(s, v, w)

\* Twins that leave a state.
LEMMA LeavingTwins ==
  ASSUME NEW v, NEW w, Twins(v, w), NEW go, Alike(v.state, v, w)
  PROVE  LET x == Leaving(v, go)
             y == Leaving(w, go)
         IN Twins(x, y) /\ x.state = v.state /\ Gone(v.state, go, x, y)
<1> DEFINE x == Leaving(v, go)
           y == Leaving(w, go)
<1>1. /\ Formed(v) /\ Holding(v) /\ v.n <= ParamsSize
      /\ Formed(w) /\ Holding(w) /\ w.n <= ParamsSize /\ v.state = w.state /\ v.out = w.out
  BY DEF Twins, Bounded
<1>2. 0 <= ParamsSize BY SizesAssumption DEF SizesAssumption
<1>4. CASE Cleared(v.state, go)
  <2>1. x = Clear(v) /\ y = Clear(w) BY <1>1, <1>4 DEF Leaving, Cleared
  <2>2. /\ Formed(x) /\ KeepsRest(v, x) /\ x.n = 0 /\ x.cmd = 0 /\ x.params[1] = Missing
        /\ Formed(y) /\ KeepsRest(w, y) /\ y.n = 0 /\ y.cmd = 0 /\ y.params[1] = Missing
    <3> HIDE DEF x, y
    <3> QED BY <1>1, <2>1, ClearDoes
  <2> HIDE DEF x, y
  <2>3. ParamsAlike(x, y) BY <2>2 DEF ParamsAlike
  <2>4. Alike("CsiEntry", x, y) BY <2>2, <2>3 DEF Alike, HasData, ControlStrings
  <2>5. Twins(x, y) BY <1>1, <1>2, <2>2 DEF Twins, Bounded, Holding, KeepsRest
  <2> QED BY <1>4, <2>2, <2>4, <2>5 DEF Gone, KeepsRest, Cleared, Opened, x, y
<1>5. CASE Opened(v.state, go)
  <2>1. x = Start(v, 0) /\ y = Start(w, 0) BY <1>1, <1>5 DEF Leaving, Opened
  <2>2. 0 \in Byte /\ v.state \in DcsStates BY <1>5 DEF Byte, DcsStates, Opened
  <2>3. /\ Formed(x) /\ Holding(x) /\ x.state = v.state /\ x.out = v.out /\ SameParams(v, x)
        /\ x.data = <<>> /\ x.cmd = OrByte(v.cmd, 0)
        /\ Formed(y) /\ Holding(y) /\ y.state = w.state /\ y.out = w.out /\ SameParams(w, y)
        /\ y.data = <<>> /\ y.cmd = OrByte(w.cmd, 0)
    <3> HIDE DEF x, y
    <3> QED BY <1>1, <2>1, <2>2, StartDoes
  <2> HIDE DEF x, y
  <2>4. v.cmd = w.cmd /\ ParamsAlike(v, w) BY <1>5 DEF Opened, Alike, HasCmd, HasParams, Headers
  <2>5. ParamsAlike(x, y) BY <2>3, <2>4 DEF ParamsAlike, SameParams
  <2>6. Alike("DcsString", x, y) BY <2>3, <2>4, <2>5 DEF Alike
  <2>7. Twins(x, y) BY <1>1, <2>3 DEF Twins, Bounded, SameParams
  <2> QED BY <1>5, <2>3, <2>6, <2>7 DEF Gone, Cleared, Opened, x, y
<1>6. CASE ~Cleared(v.state, go) /\ ~Opened(v.state, go)
  <2>1. x = v /\ y = w BY <1>1, <1>6 DEF Leaving, Cleared, Opened
  <2> QED BY <1>6, <2>1 DEF Gone
<1> QED BY <1>4, <1>5, <1>6

\* ESC begins an escape sequence in every state but two.
LEMMA EscEntry ==
  ASSUME NEW s \in States \ {"Utf8", "DcsEntry"}
  PROVE  Transition(s, Esc).next = "Escape"
<1>1. Anywhere(Esc) = Go("Clear", "Escape")
  BY DEF Anywhere, Esc, C1Csi, C1Dcs, C1Osc, C1Sos, C1Pm, C1Apc, C1St, Can, Sub
<1>2. Esc = 27 BY DEF Esc
<1>3. CASE s = "Ground" BY <1>1, <1>2, <1>3, SMT
              DEF Transition, Ground, Go, Controls, Del, CsiStates
<1>4. CASE s = "Escape"
  BY <1>1, <1>2, <1>4, SMT DEF Transition, Escape, Go, Controls, Del, Intermediates
<1>5. CASE s = "EscapeIntermediate"
  BY <1>1, <1>2, <1>5, SMT DEF Transition, EscapeIntermediate, Go, Controls, Del, Intermediates
<1>6. CASE s \in CsiStates
  <2>1. CsiHeader(s, Esc) = Go("Clear", "Escape")
    BY <1>1, <1>2, SMT DEF CsiHeader, Controls, Del, Intermediates, Finals
  <2> QED BY <1>2, <1>6, <2>1, SMT
     DEF Transition, CsiEntry, CsiParam, CsiIntermediate, Go, CsiStates,
        ParamBytes, PrefixBytes
<1>7. CASE s \in {"DcsIntermediate", "DcsParam"}
  <2>1. DcsHeader(s, Esc) = Go("Clear", "Escape")
    BY <1>1, <1>2, SMT DEF DcsHeader, Controls, Del, Intermediates, Finals
  <2> QED BY <1>2, <1>7, <2>1, SMT
     DEF Transition, DcsParam, DcsIntermediate, Go, ParamBytes, PrefixBytes
<1>8. CASE s = "DcsString" BY <1>2, <1>8, SMT DEF Transition, DcsString, Go, C1St, Can, Sub
<1>9. CASE s = "OscString"
  BY <1>2, <1>9, SMT DEF Transition, OscString, Go, C1St, Can, Sub, Bel, Controls
<1>10. CASE s \in {"SosString", "PmString", "ApcString"}
  BY <1>2, <1>10, SMT DEF Transition, SosPmApc, Go, C1St, Can, Sub, Controls
<1> QED BY <1>3, <1>4, <1>5, <1>6, <1>7, <1>8, <1>9, <1>10 DEF States, CsiStates

\* Whatever entry of the table it is, its action keeps twins alike.
LEMMA PerformTwins ==
  ASSUME NEW v, NEW w, Twins(v, w), NEW b \in Byte, NEW go,
         v.state \in States \ {"Utf8"},
         Entry(v.state, b, go.act, go.next), Gone(v.state, go, v, w),
         ~(b = Esc /\ v.state = "Escape")
  PROVE  Become(go.next, Perform(v, go.act, go.next, b), Perform(w, go.act, go.next, b))
<1> DEFINE s == v.state
           next == go.next
<1>a. Cleared(s, go) => Alike("CsiEntry", v, w) BY DEF Gone
<1>b. Opened(s, go) => Alike("DcsString", v, w) BY DEF Gone
<1>c. ~Cleared(s, go) /\ ~Opened(s, go) => Alike(s, v, w) BY DEF Gone
<1>1. CASE go.act = "None" /\ next \in {s, "Ground"}
  <2>1. next = "Ground" \/ Alike(s, v, w) BY <1>1, <1>c DEF Cleared, Opened
  <2> QED BY <1>1, <2>1, NoneTwins
<1>2. CASE go.act \in {"Print", "Execute"} /\ next \in {s, "Ground"}
  <2>1. next \in {"Ground", "Escape"} \/ Alike(s, v, w) BY <1>2, <1>c DEF Cleared, Opened
  <2> QED BY <1>2, <2>1, EmitTwins
<1>3. CASE go.act = "Clear" /\ next \in {"Escape", "CsiEntry", "DcsEntry"}
  BY <1>3, ClearTwins
<1>4. CASE go.act = "Prefix" /\ s \in {"CsiEntry", "DcsEntry"} /\ next \in Headers
  <2>1. s \in Headers /\ Alike(s, v, w) BY <1>4, <1>c DEF Cleared, Opened, Headers, CsiStates
  <2> QED BY <1>4, <2>1, PrefixTwins
<1>5. CASE go.act = "Param" /\ s \in Headers /\ next \in Headers
  <2>1. Alike(s, v, w) BY <1>5, <1>c DEF Cleared, Opened, Headers, CsiStates
  <2> QED BY <1>5, <2>1, ParamTwins
<1>6. CASE go.act = "Collect" /\ next = "Utf8"
  BY <1>6, CollectRuneTwins
<1>7. CASE go.act = "Collect" /\ s \in {"Escape",
              "EscapeIntermediate"} /\ next = "EscapeIntermediate"
  <2>1. v.cmd = w.cmd
    BY <1>7, <1>a, <1>c DEF Cleared, Opened, Alike, HasCmd, Headers, CsiStates
  <2> QED BY <1>7, <2>1, CollectTwins
<1>8. CASE go.act = "Collect" /\ s \in Headers /\ next \in Headers
  <2>1. v.cmd = w.cmd /\ ParamsAlike(v, w)
    BY <1>8, <1>c DEF Cleared, Opened, Alike, HasCmd, HasParams, Headers, CsiStates
  <2> QED BY <1>8, <2>1, CollectTwins
<1>9. CASE go.act = "Start" /\ next \in ControlStrings
  <2>1. s \in DcsStates => v.cmd = w.cmd
    BY <1>9, <1>c DEF Cleared, Opened, Alike, HasCmd, Headers, CsiStates, DcsStates
  <2> QED BY <1>9, <2>1, StartTwins
<1>10. CASE go.act = "Start" /\ s \in Headers /\ next = "DcsString"
  <2>1. v.cmd = w.cmd /\ ParamsAlike(v, w)
    BY <1>10, <1>c DEF Cleared, Opened, Alike, HasCmd, HasParams, Headers, CsiStates
  <2> QED BY <1>10, <2>1, StartTwins
<1>11. CASE go.act = "Put" /\ s \in ControlStrings \cup {"DcsString"} /\ next = s
  <2>1. Alike(next, v, w) BY <1>11, <1>c DEF Cleared, Opened, ControlStrings
  <2> QED BY <1>11, <2>1, PutTwins
<1>12. CASE go.act = "Put" /\ s = "DcsEntry" /\ next = "DcsString"
  <2>1. Alike(next, v, w) BY <1>12, <1>b DEF Opened
  <2> QED BY <1>12, <2>1, PutTwins
<1>13. CASE go.act = "Dispatch" /\ next = "Ground"
            /\ s \notin {"Ground", "Utf8", "DcsEntry", "DcsIntermediate", "DcsParam"}
  <2>1. s = "Escape" => v.cmd = w.cmd BY <1>13, <1>a DEF Cleared, Alike, HasCmd, Headers, CsiStates
  <2>2. s # "Escape" => Alike(s, v, w) BY <1>13, <1>c DEF Cleared, Opened
  <2> QED BY <1>13, <2>1, <2>2, DispatchTwins
<1>14. CASE go.act = "Dispatch" /\ s \in ControlStrings \cup {"DcsString"} /\ next = "Escape"
  <2>1. s # "Escape" /\ Alike(s, v, w) BY <1>14, <1>c DEF Cleared, Opened, ControlStrings
  <2>2. s \in States \ {"Ground", "Utf8", "DcsEntry", "DcsIntermediate", "DcsParam"}
    BY <1>14 DEF ControlStrings, States
  <2> QED BY <1>14, <2>1, <2>2, DispatchTwins
<1> QED BY <1>1, <1>2, <1>3, <1>4, <1>5, <1>6, <1>7, <1>8, <1>9, <1>10, <1>11, <1>12, <1>13,
     <1>14 DEF Entry

\* Two parsers that no byte tells apart.
Same(x, y) ==
  /\ x.state \in States /\ x.state = y.state /\ x.out = y.out
  /\ Formed(x) /\ Holding(x) /\ Bounded(x.state, x)
  /\ Formed(y) /\ Holding(y) /\ Bounded(y.state, y)
  /\ Alike(x.state, x, y)

\* One byte of the table keeps two such parsers alike.
LEMMA StepSame ==
  ASSUME NEW x, NEW y, Same(x, y), x.state # "Utf8", NEW b \in Byte
  PROVE  LET go == Transition(x.state, b)
         IN Same(Step(x, b, go), Step(y, b, go)) /\ Step(x, b, go).state = go.next
<1> DEFINE go == Transition(x.state, b)
           v == Leaving(x, go)
           w == Leaving(y, go)
           act == IF b = Esc /\ x.state = "Escape" THEN "Execute" ELSE go.act
           V == Perform(v, act, go.next, b)
           W == Perform(w, act, go.next, b)
<1>1. Entry(x.state, b, go.act, go.next) /\ go.next \in States BY TableEntry DEF Same, Found
<1>2. Twins(x, y) /\ Alike(x.state, x, y) BY DEF Same, Twins, Bounded
<1>3. Twins(v, w) /\ v.state = x.state /\ Gone(x.state, go, v, w)
  <2> HIDE DEF go
  <2> QED BY <1>2, LeavingTwins
<1>4. Become(go.next, V, W)
  <2>1. CASE b = Esc /\ x.state = "Escape"
    <3>1. go.next = "Escape" BY <2>1, EscEntry DEF States
    <3>2. act = "Execute" BY <2>1
    <3> HIDE DEF go, v, w, act
    <3> QED BY <1>3, <2>1, <3>1, <3>2, EmitTwins
  <2>2. CASE ~(b = Esc /\ x.state = "Escape")
    <3>1. act = go.act BY <2>2
    <3>2. x.state \in States BY DEF Same
    <3> HIDE DEF go, v, w, act
    <3> QED BY <1>1, <1>3, <2>2, <3>1, <3>2, PerformTwins
  <2> QED BY <2>1, <2>2
<1>5. Step(x, b, go) = [V EXCEPT !.state = go.next] /\ Step(y, b, go) = [W EXCEPT !.state = go.next]
  BY DEF Step, Same
<1> HIDE DEF V, W, go
<1>6. Formed(V) /\ Formed(W) BY <1>4 DEF Become
<1> DEFINE X == Step(x, b, go)
           Y == Step(y, b, go)
<1>7. /\ Formed(X) /\ X.state = go.next /\ X.n = V.n /\ X.cmd = V.cmd /\ X.params = V.params
      /\ X.data = V.data /\ X.out = V.out
      /\ Formed(Y) /\ Y.state = go.next /\ Y.n = W.n /\ Y.cmd = W.cmd /\ Y.params = W.params
      /\ Y.data = W.data /\ Y.out = W.out
  <2> HIDE DEF X, Y
  <2> QED BY <1>5, <1>6, SetStateDoes DEF X, Y
<1> HIDE DEF X, Y
<1>8. Holding(X) /\ Bounded(go.next, X) /\ Holding(Y) /\ Bounded(go.next, Y)
  BY <1>4, <1>7 DEF Become, Holding, Bounded
<1>9. Alike(go.next, X, Y) BY <1>4, <1>7 DEF Become, Alike, ParamsAlike
<1>10. X.out = Y.out BY <1>4, <1>7 DEF Become
<1> QED BY <1>1, <1>7, <1>8, <1>9, <1>10 DEF Same, X, Y, go

----------------------------------------------------------------------------
\* Runes.

\* A further byte of a rune leaves the first alone.
LEMMA CollectRuneDoes ==
  ASSUME NEW x, Formed(x), x.n \in 1..4, NEW b \in Byte
  PROVE  LET y == CollectRune(x, b)
         IN /\ Formed(y) /\ KeepsRest(x, y)
            /\ y.n = (IF x.n = 4 THEN 4 ELSE x.n + 1)
            /\ ByteAt(y.cmd, 0) = ByteAt(x.cmd, 0)
<1>1. CASE x.n = 4
  <2>1. CollectRune(x, b) = x BY <1>1 DEF CollectRune
  <2> QED BY <1>1, <2>1 DEF KeepsRest
<1>2. CASE x.n \in 1..3
  <2> DEFINE c == IF x.n = 3 THEN x.cmd ELSE WithByte(x.cmd, x.n, b)
             v == [x EXCEPT !.cmd = c]
             y == [v EXCEPT !.n = x.n + 1]
  <2>1. c \in Nat /\ ByteAt(c, 0) = ByteAt(x.cmd, 0)
    <3>1. CASE x.n = 1 BY <3>1, WithByteType, LowByte1 DEF Formed
    <3>2. CASE x.n = 2 BY <3>2, WithByteType, LowByte2 DEF Formed
    <3>3. CASE x.n = 3 BY <3>3 DEF Formed
    <3> QED BY <1>2, <3>1, <3>2, <3>3
  <2>2. x.n + 1 \in Nat BY <1>2
  <2>3. CollectRune(x, b) = y BY <1>2 DEF CollectRune
  <2>4. Formed(v) /\ KeepsRest(x, v) /\ v.n = x.n /\ v.cmd = c
    <3> HIDE DEF c
    <3> QED BY <2>1, SetCmdDoes
  <2>5. Formed(y) /\ KeepsRest(v, y) /\ y.n = x.n + 1 /\ y.cmd = v.cmd
    <3> HIDE DEF v
    <3> QED BY <2>2, <2>4, SetCountDoes
  <2> HIDE DEF c, v, y
  <2> QED BY <1>2, <2>1, <2>3, <2>4, <2>5 DEF KeepsRest
<1> QED BY <1>1, <1>2

\* One byte of a rune keeps two parsers alike, and prints the same rune.
LEMMA RuneSame ==
  ASSUME NEW x, NEW y, Same(x, y), x.state = "Utf8", NEW b \in Byte
  PROVE  Same(AdvanceUtf8(x, b), AdvanceUtf8(y, b))
<1> DEFINE v == CollectRune(x, b)
           w == CollectRune(y, b)
           lead == ByteAt(v.cmd, 0)
           e == <<"print", lead>>
           V == Emit(v, e)
           W == Emit(w, e)
           G(z) == [[z EXCEPT !.state = "Ground"] EXCEPT !.n = 0]
           waits == v.n < Utf8Len(lead)
<1>1. /\ Formed(x) /\ Holding(x) /\ x.n \in 1..4
      /\ Formed(y) /\ Holding(y) /\ y.n = x.n /\ y.state = "Utf8" /\ x.out = y.out
      /\ ByteAt(x.cmd, 0) = ByteAt(y.cmd, 0)
  BY DEF Same, Bounded, Alike
<1>2. /\ Formed(v) /\ KeepsRest(x, v) /\ v.n = (IF x.n = 4 THEN 4 ELSE x.n + 1)
      /\ ByteAt(v.cmd, 0) = ByteAt(x.cmd, 0)
      /\ Formed(w) /\ KeepsRest(y, w) /\ w.n = (IF x.n = 4 THEN 4 ELSE x.n + 1)
      /\ ByteAt(w.cmd, 0) = ByteAt(x.cmd, 0)
  BY <1>1, CollectRuneDoes
<1>3. v.n = w.n /\ ByteAt(w.cmd, 0) = lead BY <1>2
<1>4. Utf8Len(lead) \in 1..4 BY DEF Utf8Len
<1> HIDE DEF v, w, lead
<1>5. AdvanceUtf8(x, b) = (IF waits THEN v ELSE [V EXCEPT !.state = "Ground", !.n = 0])
  BY DEF AdvanceUtf8, v, lead
<1>6. AdvanceUtf8(y, b) = (IF waits THEN w ELSE [W EXCEPT !.state = "Ground", !.n = 0])
  BY <1>3 DEF AdvanceUtf8, w
<1>7. CASE waits
  <2>1. v.n \in 1..4 BY <1>1, <1>2
  <2> HIDE DEF waits
  <2> QED BY <1>1, <1>2, <1>3, <1>5, <1>6, <1>7, <2>1
        DEF Same, Bounded, Alike, KeepsRest, Holding, HasParams, HasCmd, HasData, Headers,
            ControlStrings, CsiStates, States
<1>8. CASE ~waits
  <2>1. AdvanceUtf8(x, b) = G(V) /\ AdvanceUtf8(y, b) = G(W)
    <3> HIDE DEF V, W, waits
    <3> QED BY <1>5, <1>6, <1>8
  <2>2. /\ Formed(V) /\ V.data = x.data /\ V.out = Append(x.out, e)
        /\ Formed(W) /\ W.data = y.data /\ W.out = Append(y.out, e)
    <3> HIDE DEF e
    <3> QED BY <1>2, EmitDoes DEF KeepsRest
  <2> HIDE DEF V, W, waits
  <2>3. ASSUME NEW z, Formed(z)
        PROVE  Formed(G(z)) /\ G(z).state = "Ground" /\ G(z).n = 0
               /\ G(z).data = z.data /\ G(z).out = z.out
    <3> DEFINE u == [z EXCEPT !.state = "Ground"]
    <3>1. Formed(u) /\ u.state = "Ground" /\ u.data = z.data /\ u.out = z.out BY <2>3, SetStateDoes
    <3> HIDE DEF u
    <3>2. LET q == [u EXCEPT !.n = 0] IN Formed(q) /\ KeepsRest(u, q) /\ q.n = 0
      BY <3>1, SetCountDoes
    <3> QED BY <3>1, <3>2 DEF KeepsRest, u
  <2> HIDE DEF G
  <2>4. 0 <= ParamsSize BY SizesAssumption DEF SizesAssumption
  <2> DEFINE X == AdvanceUtf8(x, b)
             Y == AdvanceUtf8(y, b)
  <2>5. /\ Formed(X) /\ X.state = "Ground" /\ X.n = 0 /\ X.data = x.data /\ X.out = Append(x.out, e)
        /\ Formed(Y) /\ Y.state = "Ground" /\ Y.n = 0 /\ Y.data = y.data /\ Y.out = Append(y.out, e)
    <3> HIDE DEF e
    <3> QED BY <2>1, <2>2, <2>3
  <2>6. Alike("Ground", X, Y)
    BY DEF Alike, HasParams, HasCmd, HasData, Headers, ControlStrings, CsiStates
  <2> HIDE DEF X, Y, e
  <2>7. Same(X, Y) BY <1>1, <2>4, <2>5, <2>6 DEF Same, Bounded, Holding, States
  <2> QED BY <2>7 DEF X, Y
<1> QED BY <1>7, <1>8

\* One byte keeps two parsers alike, and calls the same handlers in both.
LEMMA AdvanceSame ==
  ASSUME NEW x, NEW y, Same(x, y), NEW b \in Byte
  PROVE  Same(Advance(x, b), Advance(y, b))
<1>1. x.state = y.state BY DEF Same
<1>2. CASE x.state = "Utf8" BY <1>1, <1>2, RuneSame DEF Advance
<1>3. CASE x.state # "Utf8"
  <2>1. Same(Step(x, b, Transition(x.state, b)), Step(y, b, Transition(x.state, b)))
    BY <1>3, StepSame
  <2> QED BY <1>1, <1>3, <2>1 DEF Advance
<1> QED BY <1>2, <1>3

\* Taking their events keeps two parsers alike.
LEMMA SilentSame ==
  ASSUME NEW x, NEW y, Same(x, y)
  PROVE  Same(Silent(x), Silent(y)) /\ Silent(x).out = <<>>
<1>1. /\ Formed(Silent(x)) /\ Silent(x).state = x.state /\ Silent(x).n = x.n /\ Silent(x).cmd = x.cmd
      /\ Silent(x).params = x.params /\ Silent(x).data = x.data /\ Silent(x).out = <<>>
      /\ Formed(Silent(y)) /\ Silent(y).state = y.state /\ Silent(y).n = y.n /\ Silent(y).cmd = y.cmd
      /\ Silent(y).params = y.params /\ Silent(y).data = y.data /\ Silent(y).out = <<>>
  BY SilentDoes DEF Same
<1>2. Alike(x.state, Silent(x), Silent(y)) BY <1>1 DEF Same, Alike, ParamsAlike
<1> QED BY <1>1, <1>2 DEF Same, Holding, Bounded

\* A parser, alone.
Proper(x) == Same(x, x)

\* A new parser is one (NewParser).
LEMMA NewParserProper == Proper(NewParser) /\ NewParser.out = <<>> /\ NewParser.state = "Ground"
<1> DEFINE ps == [i \in 1..ParamsSize |-> [v |-> 0, more |-> FALSE]]
<1>1. ps \in [1..ParamsSize -> Parameter] BY DEF Parameter
<1> HIDE DEF ps
<1>2. NewParser = [state |-> "Ground", params |-> ps, n |-> 0, cmd |-> 0, data |-> <<>>,
         out |-> <<>>]
  BY DEF NewParser, ps
<1>3. Formed(NewParser) BY <1>1, <1>2 DEF Formed
<1>4. Holding(NewParser) BY <1>2, SizesAssumption DEF Holding, SizesAssumption
<1> QED BY <1>2, <1>3, <1>4, SizesAssumption
      DEF Proper, Same, Bounded, Alike, ParamsAlike, States, SizesAssumption

\* At an ESC, whatever was read before is forgotten.
LEMMA RestartSame ==
  ASSUME NEW x, Proper(x), x.state \notin {"Utf8", "DcsEntry"}
  PROVE  Same(Silent(Advance(x, Esc)), Silent(Advance(NewParser, Esc)))
<1>1. Esc \in Byte BY DEF Esc, Byte
<1>2. x.state \in States \ {"Utf8", "DcsEntry"} BY DEF Proper, Same
<1> DEFINE X == Advance(x, Esc)
           Y == Advance(NewParser, Esc)
<1>3. Proper(X) /\ X.state = "Escape"
  <2>1. X = Step(x, Esc, Transition(x.state, Esc)) BY <1>2 DEF Advance
  <2>2. x.state # "Utf8" BY <1>2
  <2> QED BY <1>1, <1>2, <2>1, <2>2, StepSame, EscEntry DEF Proper
<1>4. Proper(Y) /\ Y.state = "Escape"
  <2>1. NewParser.state # "Utf8" /\ NewParser.state \in States \ {"Utf8", "DcsEntry"}
    BY NewParserProper DEF States
  <2>2. Y = Step(NewParser, Esc, Transition(NewParser.state, Esc)) BY <2>1 DEF Advance
  <2> QED BY <1>1, <2>1, <2>2, NewParserProper, StepSame, EscEntry DEF Proper
<1> HIDE DEF X, Y
<1>5. /\ Formed(Silent(X)) /\ Silent(X).state = "Escape" /\ Silent(X).n = X.n /\ Silent(X).data = X.data
      /\ Silent(X).out = <<>>
      /\ Formed(Silent(Y)) /\ Silent(Y).state = "Escape" /\ Silent(Y).n = Y.n /\ Silent(Y).data = Y.data
      /\ Silent(Y).out = <<>>
  BY <1>3, <1>4, SilentDoes DEF Proper, Same
<1>6. Alike("Escape", Silent(X), Silent(Y))
  BY DEF Alike, HasParams, HasCmd, HasData, Headers, ControlStrings, CsiStates
<1> QED BY <1>3, <1>4, <1>5, <1>6 DEF Proper, Same, Bounded, Holding, States, X, Y

----------------------------------------------------------------------------
\* The parser DecodeSequence fills.

\* A parser DecodeSequence fills: it has counted at most k parameters.
Filled(x, k) ==
  Formed(x) /\ Holding(x) /\ x.state \in States /\ x.out = <<>> /\ x.n <= k

\* The parameters that fit the buffer are counted in k.
Room(k) == k \in Nat /\ ParamsSize <= k

\* No data fits.
LEMMA EmptyData == <<>> \in Seq(Byte) /\ Len(<<>>) <= DataSize
BY SizesAssumption DEF SizesAssumption

\* At most k is at most more.
LEMMA FilledWider ==
  ASSUME NEW x, NEW k \in Nat, NEW m \in Nat, k <= m, Filled(x, k)
  PROVE  Filled(x, m)
BY DEF Filled, Formed

\* Another command.
LEMMA SetCmdFilled ==
  ASSUME NEW x, NEW k, Filled(x, k), NEW c \in Nat
  PROVE  Filled([x EXCEPT !.cmd = c], k)
<1> DEFINE y == [x EXCEPT !.cmd = c]
<1>1. Formed(y) /\ KeepsRest(x, y) /\ y.n = x.n BY SetCmdDoes DEF Filled
<1> HIDE DEF y
<1> QED BY <1>1 DEF Filled, KeepsRest, Holding, y

\* A byte of the command.
LEMMA WithByteFilled ==
  ASSUME NEW x, NEW k, Filled(x, k), NEW i \in 0..2, NEW b \in Byte
  PROVE  Filled([x EXCEPT !.cmd = WithByte(@, i, b)], k)
<1>1. WithByte(x.cmd, i, b) \in Nat BY WithByteType DEF Filled, Formed
<1> DEFINE c == WithByte(x.cmd, i, b)
<1>2. Filled([x EXCEPT !.cmd = c], k)
  <2> HIDE DEF c
  <2> QED BY <1>1, SetCmdFilled DEF c
<1> QED BY <1>2

\* Another count.
LEMMA SetCountFilled ==
  ASSUME NEW x, NEW k \in Nat, Filled(x, k), NEW n \in Nat, NEW m \in Nat, n <= m
  PROVE  Filled([x EXCEPT !.n = n], m)
<1> DEFINE y == [x EXCEPT !.n = n]
<1>1. Formed(y) /\ KeepsRest(x, y) /\ y.n = n BY SetCountDoes DEF Filled
<1> HIDE DEF y
<1> QED BY <1>1 DEF Filled, KeepsRest, Holding, y

\* A string's data emptied.
LEMMA EmptyFilled ==
  ASSUME NEW x, NEW k, Filled(x, k)
  PROVE  Filled([x EXCEPT !.data = <<>>], k)
<1> DEFINE e == <<>>
           y == [x EXCEPT !.data = e]
<1>1. e \in Seq(Byte) /\ Len(e) <= DataSize BY EmptyData
<1> HIDE DEF e
<1>2. Formed(y) /\ y.state = x.state /\ y.out = x.out /\ SameParams(x, y) /\ y.data = e
  BY SetDataDoes DEF Filled
<1> HIDE DEF y
<1>3. Filled(y, k) BY <1>1, <1>2 DEF Filled, SameParams, Holding
<1> QED BY <1>3 DEF y, e

\* The first parameter missing.
LEMMA MissingFilled ==
  ASSUME NEW x, NEW k, Filled(x, k)
  PROVE  Filled([x EXCEPT !.params[1] = Missing], k)
<1> DEFINE ps == [x.params EXCEPT ![1] = Missing]
           y == [x EXCEPT !.params = ps]
<1>1. ps \in [1..ParamsSize -> Parameter]
  BY SizesAssumption DEF SizesAssumption, Filled, Formed, Missing, Parameter
<1>2. [x EXCEPT !.params[1] = Missing] = y BY DEF Filled, Formed
<1> HIDE DEF ps
<1>3. Formed(y) /\ KeepsRest(x, y) /\ y.n = x.n BY <1>1, SetParamsDoes DEF Filled
<1> HIDE DEF y
<1> QED BY <1>2, <1>3 DEF Filled, KeepsRest, Holding

\* The reset at a sequence's start.
LEMMA ResetFilled ==
  ASSUME NEW x, NEW k \in Nat, Filled(x, k)
  PROVE  Filled(Reset(x), k)
<1> DEFINE u == [x EXCEPT !.params[1] = Missing]
           v == [u EXCEPT !.cmd = 0]
           w == [v EXCEPT !.n = 0]
<1>1. Filled(u, k) BY MissingFilled
<1> HIDE DEF u
<1>2. Filled(v, k) BY <1>1, SetCmdFilled
<1> HIDE DEF v
<1>3. Filled(w, k) BY <1>2, SetCountFilled
<1> HIDE DEF w
<1>4. Filled([w EXCEPT !.data = <<>>], k) BY <1>3, EmptyFilled
<1>5. Reset(x) = [w EXCEPT !.data = <<>>] BY DEF Reset, u, v, w
<1> QED BY <1>4, <1>5

\* The reset at plain text.
LEMMA PlainFilled ==
  ASSUME NEW x, NEW k \in Nat, Filled(x, k)
  PROVE  Filled([x EXCEPT !.data = <<>>, !.n = 0, !.cmd = 0], k)
<1> DEFINE u == [x EXCEPT !.data = <<>>]
           v == [u EXCEPT !.n = 0]
           w == [v EXCEPT !.cmd = 0]
<1>1. Filled(u, k) BY EmptyFilled
<1> HIDE DEF u
<1>2. Filled(v, k) BY <1>1, SetCountFilled
<1> HIDE DEF v
<1>3. Filled(w, k) BY <1>2, SetCmdFilled
<1>4. [x EXCEPT !.data = <<>>, !.n = 0, !.cmd = 0] = w BY DEF u, v
<1> HIDE DEF w
<1> QED BY <1>3, <1>4

\* The reset after ESC [ and ESC P.
LEMMA AgainFilled ==
  ASSUME NEW x, NEW k \in Nat, Filled(x, k)
  PROVE  Filled([x EXCEPT !.params[1] = Missing, !.n = 0, !.cmd = 0], k)
<1> DEFINE u == [x EXCEPT !.params[1] = Missing]
           v == [u EXCEPT !.n = 0]
           w == [v EXCEPT !.cmd = 0]
<1>1. Filled(u, k) BY MissingFilled
<1> HIDE DEF u
<1>2. Filled(v, k) BY <1>1, SetCountFilled
<1> HIDE DEF v
<1>3. Filled(w, k) BY <1>2, SetCmdFilled
<1>4. [x EXCEPT !.params[1] = Missing, !.n = 0, !.cmd = 0] = w BY DEF u, v
<1> HIDE DEF w
<1> QED BY <1>3, <1>4

\* The start of a string.
LEMMA StartStringFilled ==
  ASSUME NEW x, NEW k, Filled(x, k)
  PROVE  Filled(StartString(x), k)
<1> DEFINE u == [x EXCEPT !.cmd = MissingCommand]
           w == [u EXCEPT !.data = <<>>]
<1>1. MissingCommand \in Nat BY DEF MissingCommand
<1>2. Filled(u, k) BY <1>1, SetCmdFilled
<1>3. StartString(x) = w BY DEF StartString
<1> HIDE DEF u
<1>4. Filled(w, k) BY <1>2, EmptyFilled
<1> HIDE DEF w
<1> QED BY <1>3, <1>4

\* The last parameter counted: only where there is room.
LEMMA LastParamFilled ==
  ASSUME NEW x, NEW k, Room(k), Filled(x, k)
  PROVE  Filled(LastParam(x), k)
<1>1. ParamsSize \in Nat \ {0} BY SizesAssumption DEF SizesAssumption
<1>2. Formed(LastParam(x)) /\ KeepsRest(x, LastParam(x))
      /\ LastParam(x).n = IF Unclosed(x) THEN x.n + 1 ELSE x.n
  BY LastParamDoes DEF Filled
<1>3. LastParam(x).n <= k BY <1>1, <1>2 DEF Filled, Formed, Room, Unclosed
<1> QED BY <1>2, <1>3 DEF Filled, KeepsRest, Holding

\* A digit.
LEMMA AddDigitFilled ==
  ASSUME NEW x, NEW k, Filled(x, k), x.n < ParamsSize, NEW b \in Byte
  PROVE  Filled(AddDigit(x, b), k)
<1>1. Formed(AddDigit(x, b)) /\ KeepsRest(x, AddDigit(x, b)) /\ AddDigit(x, b).n = x.n
  BY AddDigitDoes DEF Filled
<1> QED BY <1>1 DEF Filled, KeepsRest, Holding

\* A separator with room for a parameter.
LEMMA CloseParamFilled ==
  ASSUME NEW x, NEW k, Room(k), Filled(x, k), x.n < ParamsSize, NEW b \in Byte
  PROVE  Filled(CloseParam(x, b), k)
<1>1. Formed(CloseParam(x, b)) /\ KeepsRest(x, CloseParam(x, b)) /\ CloseParam(x, b).n = x.n + 1
  BY CloseParamDoes DEF Filled
<1>2. x.n + 1 <= k BY SizesAssumption DEF SizesAssumption, Filled, Formed, Room
<1> QED BY <1>1, <1>2 DEF Filled, KeepsRest, Holding

\* A byte of a string.
LEMMA PutByteFilled ==
  ASSUME NEW x, NEW k, Filled(x, k), NEW b \in Byte
  PROVE  Filled(PutByte(x, b), k)
<1>1. LET y == PutByte(x, b)
      IN Formed(y) /\ Holding(y) /\ y.state = x.state /\ y.out = x.out /\ SameParams(x, y)
  BY PutByteDoes DEF Filled
<1> QED BY <1>1 DEF Filled, SameParams

\* The command of an OSC.
LEMMA OscCmdFilled ==
  ASSUME NEW x, NEW k, Filled(x, k), NEW b
  PROVE  Filled(OscCmd(b, x), k)
<1>1. Formed(ParseStringCmd(x)) /\ KeepsRest(x, ParseStringCmd(x)) /\ SameParams(x,
         ParseStringCmd(x))
  BY ParseStringCmdDoes DEF Filled
<1>2. Filled(ParseStringCmd(x), k) BY <1>1 DEF Filled, KeepsRest, SameParams, Holding
<1> QED BY <1>2 DEF OscCmd

----------------------------------------------------------------------------
\* A byte of DecodeSequence.

\* What a byte of a text may do to a call of DecodeSequence: end it, with the
\* bytes up to this one taken or this one left, or go on inside a sequence.
Goes(d, b, i, st, k) ==
  /\ d.over \in BOOLEAN
  /\ d.over =>
       /\ Filled(d.p, k)
       /\ \/ d.state = "Panic" /\ d.n = 0
          \/ d.state = "Normal" /\ d.n \in i - 1..Len(b) /\ (st = "Normal" => d.n >= 1)
  /\ ~d.over => Filled(d.p, k + 1) /\ d.state \in DecodeStates \ {"Normal"}

\* The i-th byte of b is next, and the parser has counted at most k parameters.
AtByte(b, i, x, k) ==
  b \in Seq(Byte) /\ i \in 1..Len(b) /\ Room(k) /\ Filled(x, k)

\* A byte that goes on counts nothing,
LEMMA ContinueGoes ==
  ASSUME NEW x, NEW k \in Nat, Filled(x, k), NEW b, NEW i, NEW st,
            NEW t \in DecodeStates \ {"Normal"}
  PROVE  Goes(Continue(t, x), b, i, st, k)
<1>1. Filled(x, k + 1) BY FilledWider
<1> QED BY <1>1 DEF Goes, Continue

\* or one more.
LEMMA WiderGoes ==
  ASSUME NEW x, NEW k, Filled(x, k + 1), NEW b, NEW i, NEW st, NEW t \in DecodeStates \ {"Normal"}
  PROVE  Goes(Continue(t, x), b, i, st, k)
BY DEF Goes, Continue

\* A byte that ends the sequence.
LEMMA OverGoes ==
  ASSUME NEW x, NEW k, Filled(x, k), NEW b, NEW i, NEW st, NEW n \in i - 1..Len(b),
         st = "Normal" => n >= 1
  PROVE  Goes(Over(n, x), b, i, st, k)
BY DEF Goes, Over

\* A byte that indexes past the parameters.
LEMMA PanicGoes ==
  ASSUME NEW x, NEW k, Filled(x, k), NEW b, NEW i, NEW st
  PROVE  Goes(Panic(x), b, i, st, k)
BY DEF Goes, Panic

\* Text takes a byte at least, and no more than there are.
LEMMA ClusterType ==
  ASSUME NEW b \in Seq(Byte), Len(b) >= 1
  PROVE  Cluster(b) \in 1..Len(b)
<1>1. Utf8Len(b[1]) \in 1..4 BY DEF Utf8Len
<1> QED BY <1>1 DEF Cluster

\* Outside a sequence.
LEMMA NormalGoes ==
  ASSUME NEW b, NEW x, NEW k, AtByte(b, 1, x, k)
  PROVE  Goes(Normal(b, b[1], x), b, 1, "Normal", k)
<1> DEFINE c == b[1]
<1>1. k \in Nat /\ Filled(x, k) /\ c \in Byte /\ Len(b) \in Nat /\ Len(b) >= 1 BY DEF AtByte, Room
<1>2. CASE c = Esc
  <2>1. Normal(b, c, x) = Continue("EscapeSeq", Reset(x))
    BY <1>2 DEF Normal, Esc, C1Csi, C1Dcs, C1Osc, C1Apc, C1Sos, C1Pm
  <2>2. Filled(Reset(x), k) BY <1>1, ResetFilled
  <2> QED BY <1>1, <2>1, <2>2, ContinueGoes DEF DecodeStates
<1>3. CASE c \in {C1Csi, C1Dcs}
  <2>1. Normal(b, c, x) = Continue("Prefix", Reset(x))
    BY <1>3 DEF Normal, Esc, C1Csi, C1Dcs, C1Osc, C1Apc, C1Sos, C1Pm
  <2>2. Filled(Reset(x), k) BY <1>1, ResetFilled
  <2> QED BY <1>1, <2>1, <2>2, ContinueGoes DEF DecodeStates
<1>4. CASE c \in {C1Osc, C1Apc, C1Sos, C1Pm}
  <2>1. Normal(b, c, x) = Continue("String", StartString(x))
    BY <1>4 DEF Normal, Esc, C1Csi, C1Dcs, C1Osc, C1Apc, C1Sos, C1Pm
  <2>2. Filled(StartString(x), k) BY <1>1, StartStringFilled
  <2> QED BY <1>1, <2>1, <2>2, ContinueGoes DEF DecodeStates
<1>5. CASE c \notin {Esc, C1Csi, C1Dcs, C1Osc, C1Apc, C1Sos, C1Pm}
  <2> DEFINE y == [x EXCEPT !.data = <<>>, !.n = 0, !.cmd = 0]
             n == IF c < 192 THEN 1 ELSE Cluster(b)
  <2>1. Normal(b, c, x) = Over(n, y) BY <1>5 DEF Normal
  <2>2. Filled(y, k) BY <1>1, PlainFilled
  <2>3. n \in 1..Len(b) BY <1>1, ClusterType DEF AtByte
  <2>4. n \in 1 - 1..Len(b) /\ n >= 1 BY <2>3, <1>1
  <2> HIDE DEF y, n
  <2> QED BY <2>1, <2>2, <2>4, OverGoes
<1> QED BY <1>2, <1>3, <1>4, <1>5

\* After a sequence's parameters: the final byte, or one that is none.
LEMMA FinalGoes ==
  ASSUME NEW b, NEW i, NEW x, NEW k, AtByte(b, i, x, k), NEW st \in DecodeStates \ {"Normal"}
  PROVE  Goes(Final(b, i, x), b, i, st, k)
<1> DEFINE q == LastParam(x)
           r == [q EXCEPT !.cmd = WithByte(@, 0, b[i])]
<1>1. k \in Nat /\ b[i] \in Byte /\ Len(b) \in Nat /\ i \in 1..Len(b) BY DEF AtByte, Room
<1>2. Filled(q, k) BY LastParamFilled DEF AtByte
<1>3. i - 1 \in i - 1..Len(b) /\ i \in i - 1..Len(b) BY <1>1
<1>4. Final(b, i, x) = CASE b[i] \notin Finals -> Over(i - 1, q)
       [] b[i] \in Finals /\ HasDcsPrefix(b) -> Continue("String", [r EXCEPT !.data = <<>>])
       [] OTHER -> Over(i, r)
  BY DEF Final
<1> HIDE DEF q
<1>5. Filled(r, k) BY <1>1, <1>2, WithByteFilled
<1> HIDE DEF r
<1>6. CASE b[i] \notin Finals
  <2>1. Final(b, i, x) = Over(i - 1, q) BY <1>4, <1>6
  <2> QED BY <2>1, <1>2, <1>3, OverGoes
<1>7. CASE b[i] \in Finals /\ HasDcsPrefix(b)
  <2> DEFINE e == [r EXCEPT !.data = <<>>]
  <2>1. Final(b, i, x) = Continue("String", e) BY <1>4, <1>7
  <2>2. Filled(e, k) BY <1>5, EmptyFilled
  <2> HIDE DEF e
  <2> QED BY <2>1, <2>2, <1>1, ContinueGoes DEF DecodeStates
<1>8. CASE b[i] \in Finals /\ ~HasDcsPrefix(b)
  <2>1. Final(b, i, x) = Over(i, r) BY <1>4, <1>8
  <2> QED BY <2>1, <1>5, <1>3, OverGoes
<1> QED BY <1>6, <1>7, <1>8

\* Intermediate bytes.
LEMMA IntermedGoes ==
  ASSUME NEW b, NEW i, NEW x, NEW k, AtByte(b, i, x, k), NEW st \in DecodeStates \ {"Normal"}
  PROVE  Goes(Intermed(b, i, x), b, i, st, k)
<1> DEFINE y == [x EXCEPT !.cmd = WithByte(@, 2, b[i])]
<1>1. k \in Nat /\ b[i] \in Byte BY DEF AtByte, Room
<1>2. Filled(y, k) BY <1>1, WithByteFilled DEF AtByte
<1>3. Intermed(b, i, x) = IF b[i] \in Intermediates THEN Continue("Intermed", y) ELSE Final(b, i, x)
  BY DEF Intermed
<1> HIDE DEF y
<1>4. Goes(Continue("Intermed", y), b, i, st, k) BY <1>1, <1>2, ContinueGoes DEF DecodeStates
<1>5. Goes(Final(b, i, x), b, i, st, k) BY FinalGoes
<1> QED BY <1>3, <1>4, <1>5

\* A separator: past the buffer a semicolon is counted, a colon panics.
LEMMA SeparatorGoes ==
  ASSUME NEW b, NEW i, NEW x, NEW k, AtByte(b, i, x, k), NEW st, NEW c \in {58, 59}
  PROVE  Goes(Separator(x, c), b, i, st, k)
<1>1. k \in Nat /\ c \in Byte /\ Room(k) /\ Filled(x, k) BY DEF AtByte, Room, Byte
<1>2. x.n \in Nat /\ ParamsSize \in Nat /\ x.n <= k
  BY <1>1, SizesAssumption DEF SizesAssumption, Filled, Formed
<1>3. CASE x.n < ParamsSize
  <2>1. Separator(x, c) = Continue("Params", CloseParam(x, c)) BY <1>2, <1>3 DEF Separator
  <2>2. Filled(CloseParam(x, c), k) BY <1>1, <1>3, CloseParamFilled
  <2> QED BY <2>1, <2>2, <1>1, ContinueGoes DEF DecodeStates
<1>4. CASE x.n >= ParamsSize /\ c = 59
  <2> DEFINE m == x.n + 1
             y == [x EXCEPT !.n = m]
  <2>1. Separator(x, c) = Continue("Params", y) BY <1>2, <1>4 DEF Separator
  <2>2. m \in Nat /\ m <= k + 1 /\ k + 1 \in Nat BY <1>1, <1>2
  <2> HIDE DEF m
  <2>3. Filled(y, k + 1) BY <1>1, <2>2, SetCountFilled
  <2> HIDE DEF y
  <2> QED BY <2>1, <2>3, WiderGoes DEF DecodeStates
<1>5. CASE x.n >= ParamsSize /\ c # 59
  <2>1. Separator(x, c) = Panic(x) BY <1>2, <1>5 DEF Separator
  <2> QED BY <2>1, <1>1, PanicGoes
<1> QED BY <1>2, <1>3, <1>4, <1>5

\* Parameter bytes.
LEMMA ParamsOfGoes ==
  ASSUME NEW b, NEW i, NEW x, NEW k, AtByte(b, i, x, k), NEW st \in DecodeStates \ {"Normal"}
  PROVE  Goes(ParamsOf(b, i, x), b, i, st, k)
<1>1. k \in Nat /\ b[i] \in Byte /\ Filled(x, k) BY DEF AtByte, Room
<1>2. CASE b[i] \in 48..57 /\ x.n < ParamsSize
  <2>1. ParamsOf(b, i, x) = Continue("Params", AddDigit(x, b[i])) BY <1>2 DEF ParamsOf
  <2>2. Filled(AddDigit(x, b[i]), k) BY <1>1, <1>2, AddDigitFilled
  <2> QED BY <2>1, <2>2, <1>1, ContinueGoes DEF DecodeStates
<1>3. CASE b[i] \in 48..57 /\ ~(x.n < ParamsSize)
  <2>1. ParamsOf(b, i, x) = Panic(x) BY <1>3 DEF ParamsOf
  <2> QED BY <2>1, <1>1, PanicGoes
<1>4. CASE b[i] \in {58, 59}
  <2>1. ParamsOf(b, i, x) = Separator(x, b[i]) BY <1>4 DEF ParamsOf
  <2> QED BY <2>1, <1>4, SeparatorGoes
<1>5. CASE b[i] \notin 48..57 /\ b[i] \notin {58, 59}
  <2>1. ParamsOf(b, i, x) = Intermed(b, i, x) BY <1>5 DEF ParamsOf
  <2> QED BY <2>1, IntermedGoes
<1> QED BY <1>2, <1>3, <1>4, <1>5

\* Prefix bytes.
LEMMA PrefixOfGoes ==
  ASSUME NEW b, NEW i, NEW x, NEW k, AtByte(b, i, x, k), NEW st \in DecodeStates \ {"Normal"}
  PROVE  Goes(PrefixOf(b, i, x), b, i, st, k)
<1> DEFINE y == [x EXCEPT !.cmd = WithByte(@, 1, b[i])]
<1>1. k \in Nat /\ b[i] \in Byte BY DEF AtByte, Room
<1>2. Filled(y, k) BY <1>1, WithByteFilled DEF AtByte
<1>3. PrefixOf(b, i, x) = IF b[i] \in 60..63 THEN Continue("Prefix", y) ELSE ParamsOf(b, i, x)
  BY DEF PrefixOf
<1> HIDE DEF y
<1>4. Goes(Continue("Prefix", y), b, i, st, k) BY <1>1, <1>2, ContinueGoes DEF DecodeStates
<1>5. Goes(ParamsOf(b, i, x), b, i, st, k) BY ParamsOfGoes
<1> QED BY <1>3, <1>4, <1>5

\* After an ESC.
LEMMA EscapeSeqGoes ==
  ASSUME NEW b, NEW i, NEW x, NEW k, AtByte(b, i, x, k)
  PROVE  Goes(EscapeSeq(b, i, x), b, i, "EscapeSeq", k)
<1>1. k \in Nat /\ b[i] \in Byte /\ Filled(x, k) /\ Len(b) \in Nat /\ i \in 1..Len(b)
  BY DEF AtByte, Room
<1>2. i - 1 \in i - 1..Len(b) /\ i \in i - 1..Len(b) BY <1>1
<1> DEFINE again == [x EXCEPT !.params[1] = Missing, !.n = 0, !.cmd = 0]
           inter == [x EXCEPT !.cmd = WithByte(@, 2, b[i])]
           final == [x EXCEPT !.cmd = WithByte(@, 0, b[i])]
<1>3. Filled(again, k) BY <1>1, AgainFilled
<1>4. Filled(inter, k) BY <1>1, WithByteFilled
<1>5. Filled(final, k) BY <1>1, WithByteFilled
<1>6. Filled(StartString(x), k) BY <1>1, StartStringFilled
<1>7. EscapeSeq(b, i, x) =
      CASE b[i] \in {91, 80} -> Continue("Prefix", again)
        [] b[i] \in {93, 88, 94, 95} -> Continue("String", StartString(x))
        [] b[i] \in Intermediates -> Continue("EscapeSeq", inter)
        [] b[i] \in (48..126) \ {91, 80, 93, 88, 94, 95} -> Over(i, final)
        [] OTHER -> Over(i - 1, x)
  BY DEF EscapeSeq
<1> HIDE DEF again, inter, final
<1>8. EscapeSeq(b, i, x) \in {Continue("Prefix", again), Continue("String", StartString(x)),
                              Continue("EscapeSeq", inter), Over(i, final), Over(i - 1, x)}
  BY <1>7 DEF Intermediates
<1>a. Goes(Continue("Prefix", again), b, i, "EscapeSeq", k)
  BY <1>1, <1>3, ContinueGoes DEF DecodeStates
<1>b. Goes(Continue("String", StartString(x)), b, i, "EscapeSeq", k)
  BY <1>1, <1>6, ContinueGoes DEF DecodeStates
<1>c. Goes(Continue("EscapeSeq", inter), b, i, "EscapeSeq", k)
  BY <1>1, <1>4, ContinueGoes DEF DecodeStates
<1>d. Goes(Over(i, final), b, i, "EscapeSeq", k) BY <1>2, <1>5, OverGoes
<1>e. Goes(Over(i - 1, x), b, i, "EscapeSeq", k) BY <1>2, <1>1, OverGoes
<1> QED BY <1>8, <1>a, <1>b, <1>c, <1>d, <1>e

\* A byte of a string, the separator of an OSC included.
LEMMA StringByteFilled ==
  ASSUME NEW x, NEW k, Filled(x, k), NEW b, NEW c \in Byte
  PROVE  Filled(StringByte(b, x, c), k)
<1>1. Filled(PutByte(x, c), k) BY PutByteFilled
<1>2. Filled(OscCmd(b, PutByte(x, c)), k) BY <1>1, OscCmdFilled
<1> QED BY <1>1, <1>2 DEF StringByte

\* Inside a string.
LEMMA StringOfGoes ==
  ASSUME NEW b, NEW i, NEW x, NEW k, AtByte(b, i, x, k)
  PROVE  Goes(StringOf(b, i, x), b, i, "String", k)
<1>1. k \in Nat /\ b[i] \in Byte /\ Filled(x, k) /\ Len(b) \in Nat /\ i \in 1..Len(b)
  BY DEF AtByte, Room
<1>2. i - 1 \in i - 1..Len(b) /\ i \in i - 1..Len(b) BY <1>1
<1> DEFINE osc == OscCmd(b, x)
           more == StringByte(b, x, b[i])
<1>3. Filled(osc, k) BY <1>1, OscCmdFilled
<1>4. Filled(more, k) BY <1>1, StringByteFilled
<1>5. StringOf(b, i, x) =
      CASE b[i] = Bel /\ HasOscPrefix(b) -> Over(i, osc)
        [] b[i] \in {Can, Sub} -> Over(i - 1, osc)
        [] b[i] = C1St -> Over(i, osc)
        [] b[i] = Esc /\ HasStPrefix(b, i) -> Over(i + 1, osc)
        [] b[i] = Esc /\ ~HasStPrefix(b, i) -> Over(i - 1, x)
        [] OTHER -> Continue("String", more)
  BY DEF StringOf
<1> HIDE DEF osc, more
<1>6. b[i] = Esc /\ HasStPrefix(b, i) => i + 1 \in i - 1..Len(b)
  BY <1>1 DEF HasStPrefix, Esc, C1St
<1>7. \/ StringOf(b, i, x) \in {Over(i, osc), Over(i - 1, osc), Over(i - 1, x),
            Continue("String", more)}
      \/ b[i] = Esc /\ HasStPrefix(b, i) /\ StringOf(b, i, x) = Over(i + 1, osc)
  BY <1>5 DEF Bel, Can, Sub, C1St, Esc
<1>a. Goes(Over(i, osc), b, i, "String", k) BY <1>2, <1>3, OverGoes
<1>b. Goes(Over(i - 1, osc), b, i, "String", k) BY <1>2, <1>3, OverGoes
<1>c. Goes(Over(i - 1, x), b, i, "String", k) BY <1>2, <1>1, OverGoes
<1>d. Goes(Continue("String", more), b, i, "String", k) BY <1>1, <1>4, ContinueGoes DEF DecodeStates
<1>e. i + 1 \in i - 1..Len(b) => Goes(Over(i + 1, osc), b, i, "String", k) BY <1>3, OverGoes
<1> QED BY <1>6, <1>7, <1>a, <1>b, <1>c, <1>d, <1>e

\* One byte, in any state.
LEMMA OneByteGoes ==
  ASSUME NEW b, NEW i, NEW x, NEW k, AtByte(b, i, x, k), NEW st \in DecodeStates,
         st = "Normal" => i = 1
  PROVE  Goes(OneByte(b, i, st, x), b, i, st, k)
<1>1. CASE st = "Normal"
  <2>1. OneByte(b, i, st, x) = Normal(b, b[i], x) BY <1>1 DEF OneByte
  <2> QED BY <1>1, <2>1, NormalGoes
<1>2. CASE st = "Prefix"
  <2>1. OneByte(b, i, st, x) = PrefixOf(b, i, x) BY <1>2 DEF OneByte
  <2> QED BY <1>2, <2>1, PrefixOfGoes
<1>3. CASE st = "Params"
  <2>1. OneByte(b, i, st, x) = ParamsOf(b, i, x) BY <1>3 DEF OneByte
  <2> QED BY <1>3, <2>1, ParamsOfGoes
<1>4. CASE st = "Intermed"
  <2>1. OneByte(b, i, st, x) = Intermed(b, i, x) BY <1>4 DEF OneByte
  <2> QED BY <1>4, <2>1, IntermedGoes
<1>5. CASE st = "EscapeSeq"
  <2>1. OneByte(b, i, st, x) = EscapeSeq(b, i, x) BY <1>5 DEF OneByte
  <2> QED BY <1>5, <2>1, EscapeSeqGoes
<1>6. CASE st = "String"
  <2>1. OneByte(b, i, st, x) = StringOf(b, i, x) BY <1>6 DEF OneByte
  <2> QED BY <1>6, <2>1, StringOfGoes
<1> QED BY <1>1, <1>2, <1>3, <1>4, <1>5, <1>6 DEF DecodeStates

----------------------------------------------------------------------------
\* A call of DecodeSequence.

\* What a call of DecodeSequence comes to: it takes some of the text, and no
\* more parameters than bytes, and takes a byte unless it leaves a sequence.
Ends(d, b, st, k) ==
  /\ d.n \in 0..Len(b)
  /\ d.state \in DecodeStates \cup {"Panic"}
  /\ \/ d.n > 0
     \/ st # "Normal" /\ d.state = "Normal"
     \/ d.state = "Panic"
  /\ Filled(d.p, k + (IF d.state = "Panic" THEN Len(b) ELSE d.n))

\* A whole call, by induction over the bytes it runs over.
LEMMA DecodeEnds ==
  ASSUME NEW b \in Seq(Byte), Len(b) > 0, NEW x, NEW k, Room(k), Filled(x, k),
            NEW st \in DecodeStates
  PROVE  Ends(DecodeSequence(b, st, x), b, st, k)
<1> DEFINE start == Continue(st, x)
           After(i, r) == IF r.over THEN r ELSE OneByte(b, i, r.state, r.p)
           Good(i, r) ==
             /\ r.over \in BOOLEAN
             /\ ~r.over => /\ Filled(r.p, k + i)
                           /\ r.state \in DecodeStates
                           /\ r.state = "Normal" => i = 0
                           /\ i = 0 => r.state = st
             /\ r.over => \/ r.state = "Panic" /\ r.n = 0 /\ Filled(r.p, k + Len(b))
                          \/ /\ r.state = "Normal" /\ r.n \in 0..Len(b)
                             /\ st = "Normal" => r.n >= 1
                             /\ Filled(r.p, k + r.n)
<1>1. k \in Nat /\ ParamsSize <= k /\ Len(b) \in Nat /\ ParamsSize \in Nat
  BY SizesAssumption DEF Room, SizesAssumption
<1>2. Good(0, start) BY <1>1 DEF Continue
<1>3. ASSUME NEW i \in 1..Len(b), NEW r, Good(i - 1, r)
      PROVE  Good(i, After(i, r))
  <2>1. CASE r.over
    <3>1. After(i, r) = r BY <2>1
    <3> QED BY <1>3, <2>1, <3>1
  <2>2. CASE ~r.over
    <3> DEFINE m == k + (i - 1)
               d == OneByte(b, i, r.state, r.p)
    <3>1. Filled(r.p, m) /\ r.state \in DecodeStates /\ (r.state = "Normal" => i = 1)
          /\ (i = 1 => r.state = st)
      BY <1>3, <2>2
    <3>2. m \in Nat /\ ParamsSize <= m /\ m + 1 = k + i /\ m <= k + Len(b) BY <1>1
    <3> HIDE DEF m
    <3>3. AtByte(b, i, r.p, m) BY <3>1, <3>2 DEF AtByte, Room
    <3>4. Goes(d, b, i, r.state, m) BY <3>1, <3>3, OneByteGoes
    <3>5. After(i, r) = d BY <2>2
    <3> HIDE DEF d
    <3>6. CASE ~d.over
      <4>1. Filled(d.p, m + 1) /\ d.state \in DecodeStates \ {"Normal"} /\ d.over \in BOOLEAN
        BY <3>4, <3>6 DEF Goes
      <4> HIDE DEF After
      <4> QED BY <3>2, <3>5, <3>6, <4>1
    <3>7. CASE d.over /\ d.state = "Panic"
      <4>1. d.over \in BOOLEAN /\ d.n = 0 /\ Filled(d.p, m) BY <3>4, <3>7 DEF Goes
      <4>2. k + Len(b) \in Nat BY <1>1
      <4>3. Filled(d.p, k + Len(b)) BY <3>2, <4>1, <4>2, FilledWider
      <4> HIDE DEF After
      <4> QED BY <3>5, <3>7, <4>1, <4>3
    <3>8. CASE d.over /\ d.state = "Normal"
      <4>1. d.over \in BOOLEAN /\ Filled(d.p,
               m) /\ d.n \in i - 1..Len(b) /\ (r.state = "Normal" => d.n >= 1)
        BY <3>4, <3>8 DEF Goes
      <4>2. d.n \in 0..Len(b) /\ (st = "Normal" => d.n >= 1) /\ m <= k + d.n /\ k + d.n \in Nat
        BY <1>1, <3>1, <4>1 DEF m
      <4>3. Filled(d.p, k + d.n) BY <3>2, <4>1, <4>2, FilledWider
      <4> HIDE DEF After
      <4> QED BY <3>5, <3>8, <4>1, <4>2, <4>3
    <3> QED BY <3>4, <3>6, <3>7, <3>8 DEF Goes
  <2> QED BY <1>3, <2>1, <2>2
<1> HIDE DEF Good, start, After
<1> DEFINE Counts(f, n) == f = [i \in 0..n |-> IF i = 0 THEN start ELSE After(i, f[i - 1])]
           S == {n \in Nat: \E f: Counts(f, n)}
<1>4. 0 \in S
  <2>1. Counts([i \in 0..0 |-> start], 0) OBVIOUS
  <2> QED BY <2>1
<1>5. ASSUME NEW n \in Nat, n \in S PROVE n + 1 \in S
  <2>1. PICK f: Counts(f, n)
    <3> HIDE DEF Counts
    <3> QED BY <1>5
  <2> DEFINE g == [i \in 0..n + 1 |-> IF i <= n THEN f[i] ELSE After(n + 1, f[n])]
  <2>2. Counts(g, n + 1)
    <3>1. \A i \in 0..n: f[i] = IF i = 0 THEN start ELSE After(i, f[i - 1]) BY <2>1, Zenon
    <3>2. \A i \in 0..n: g[i] = f[i] BY SMT
    <3>3. g[n + 1] = After(n + 1, f[n]) BY SMT
    <3>4. g = [i \in 0..n + 1 |-> g[i]] BY Zenon
    <3> HIDE DEF g
    <3>5. ASSUME NEW i \in 0..n + 1
          PROVE  g[i] = IF i = 0 THEN start ELSE After(i, g[i - 1])
      <4>1. CASE i = 0 BY <3>1, <3>2, <4>1
      <4>2. CASE i \in 1..n
        <5>1. i \in 0..n /\ i - 1 \in 0..n /\ i # 0 BY <4>2
        <5> QED BY <3>1, <3>2, <5>1
      <4>3. CASE i = n + 1
        <5>1. i - 1 = n /\ n \in 0..n /\ i # 0 BY <4>3
        <5> QED BY <3>2, <3>3, <4>3, <5>1
      <4> QED BY <4>1, <4>2, <4>3
    <3> QED BY <3>4, <3>5, Zenon
  <2>3. n + 1 \in Nat OBVIOUS
  <2> HIDE DEF g
  <2>4. \E h: Counts(h, n + 1)
    <3> HIDE DEF Counts
    <3> QED BY <2>2
  <2> HIDE DEF Counts
  <2> QED BY <2>3, <2>4
<1>6. \A n \in Nat: n \in S
  <2> HIDE DEF S
  <2> QED BY <1>4, <1>5, NatSetInduction
<1> DEFINE F(f) == [i \in 0..Len(b) |-> IF i = 0 THEN start ELSE After(i, f[i - 1])]
           after == CHOOSE f: f = F(f)
<1>7. PICK f: f = F(f)
  <2> HIDE DEF Counts
  <2>1. \E f: Counts(f, Len(b)) BY <1>1, <1>6
  <2> QED BY <2>1 DEF Counts
<1>8. after = F(after)
  <2> HIDE DEF F
  <2> QED BY <1>7
<1> DEFINE U == {n \in Nat: n <= Len(b) => Good(n, after[n])}
<1>9. \A n \in Nat: n \in U
  <2> HIDE DEF after
  <2>1. 0 \in U BY <1>1, <1>2, <1>8
  <2>2. ASSUME NEW n \in Nat, n \in U PROVE n + 1 \in U
    <3> SUFFICES ASSUME n + 1 <= Len(b) PROVE Good(n + 1, after[n + 1]) OBVIOUS
    <3>1. after[n + 1] = After(n + 1, after[n]) BY <1>1, <1>8
    <3>2. Good(n, after[n]) BY <1>1, <2>2
    <3>3. n + 1 \in 1..Len(b) /\ (n + 1) - 1 = n BY <1>1
    <3> QED BY <1>3, <3>1, <3>2, <3>3
  <2> HIDE DEF U
  <2> QED BY <2>1, <2>2, NatSetInduction
<1> DEFINE end == after[Len(b)]
<1>10. Good(Len(b), end)
  <2> HIDE DEF after
  <2> QED BY <1>1, <1>9
<1>11. DecodeSequence(b, st, x) =
         IF end.over THEN end ELSE [over |-> TRUE, n |-> Len(b), state |-> end.state, p |-> end.p]
  BY DEF DecodeSequence, After, start
<1> HIDE DEF end
<1>12. CASE end.over
  <2> QED BY <1>1, <1>10, <1>11, <1>12 DEF Ends, Good, DecodeStates
<1>13. CASE ~end.over
  <2> DEFINE d == [over |-> TRUE, n |-> Len(b), state |-> end.state, p |-> end.p]
  <2>1. DecodeSequence(b, st, x) = d BY <1>11, <1>13
  <2>2. Filled(end.p, k + Len(b)) /\ end.state \in DecodeStates BY <1>10, <1>13 DEF Good
  <2>3. end.state # "Panic" BY <2>2 DEF DecodeStates
  <2> QED BY <1>1, <2>1, <2>2, <2>3 DEF Ends
<1> QED BY <1>12, <1>13

----------------------------------------------------------------------------
\* The readers.

\* The parameters DecodeSequence's parser may have counted: as many as the
\* buffer holds and one more for each byte that was taken.
Counted == ParamsSize + came - (IF ds = "Panic" THEN 0 ELSE Len(text))

\* The inductive invariant.
ReadersInv ==
  /\ reading \in {"stream", "decode"}
  /\ alphabet \in SUBSET Byte
  /\ text \in Seq(Byte) /\ came \in Nat /\ came <= MaxBytes /\ Len(text) <= came
  /\ ds \in DecodeStates \cup {"Panic"}
  /\ reading = "stream" => Same(p, fresh) /\ p.out = <<>>
  /\ reading = "decode" => Filled(p, Counted)

\* Each of two parsers that are alike is proper.
LEMMA SameProper ==
  ASSUME NEW x, NEW y, Same(x, y)
  PROVE  Proper(x)
BY DEF Same, Proper, Alike, ParamsAlike

\* The invariant holds of new parsers and no text.
LEMMA ReadersInvInit == ReadersInit => ReadersInv
<1> SUFFICES ASSUME ReadersInit PROVE ReadersInv OBVIOUS
<1>1. ParamsSize \in Nat BY SizesAssumption DEF SizesAssumption
<1>2. /\ reading \in {"stream", "decode"} /\ alphabet \in SUBSET Byte
      /\ p = NewParser /\ fresh = NewParser /\ came = 0 /\ ds = "Normal"
      /\ text = <<>> /\ text \in Seq(Byte) /\ Len(text) = 0
  BY ReadersAssumption DEF ReadersInit, ReadersAssumption, Byte
<1>3. Same(p, fresh) /\ p.out = <<>> BY <1>2, NewParserProper DEF Proper
<1>4. 0 <= MaxBytes BY ReadersAssumption DEF ReadersAssumption
<1>5. Counted = ParamsSize BY <1>1, <1>2 DEF Counted
<1>6. Filled(p, ParamsSize)
  <2>1. p.state = "Ground" BY <1>2, NewParserProper
  <2> QED BY <1>3, <2>1 DEF Same, Filled, Bounded
<1> QED BY <1>2, <1>3, <1>4, <1>5, <1>6 DEF ReadersInv, DecodeStates

\* Parser.Advance keeps it: the two parsers stay alike, or are alike from an ESC on.
LEMMA ReceiveInv ==
  ASSUME ReadersInv, NEW b \in alphabet, Receive(b)
  PROVE  ReadersInv'
<1> DEFINE f == IF Restarts(b) THEN NewParser ELSE fresh
<1>1. /\ b \in Byte /\ reading = "stream" /\ Same(p, fresh) /\ Proper(p)
      /\ p' = Silent(Advance(p, b)) /\ fresh' = Silent(Advance(f, b))
      /\ UNCHANGED <<reading, alphabet, text, came, ds>>
  BY SameProper DEF ReadersInv, Receive
<1>2. Same(p', fresh')
  <2>1. CASE Restarts(b)
    <3>1. b = Esc /\ p.state \notin {"Utf8", "DcsEntry"} /\ f = NewParser BY <2>1 DEF Restarts
    <3> QED BY <1>1, <3>1, RestartSame
  <2>2. CASE ~Restarts(b)
    <3>1. Same(Advance(p, b), Advance(fresh, b)) BY <1>1, AdvanceSame
    <3>2. f = fresh BY <2>2
    <3> QED BY <1>1, <3>1, <3>2, SilentSame
  <2> QED BY <2>1, <2>2
<1>3. p'.out = <<>>
  <2>1. Same(Advance(p, b), Advance(p, b)) BY <1>1, AdvanceSame DEF Proper
  <2> QED BY <1>1, <2>1, SilentSame
<1> QED BY <1>1, <1>2, <1>3 DEF ReadersInv

\* So does a byte that arrives.
LEMMA ArriveInv ==
  ASSUME ReadersInv, NEW b \in alphabet, Arrive(b)
  PROVE  ReadersInv'
<1>1. /\ b \in Byte /\ reading = "decode" /\ came < MaxBytes
      /\ came' = came + 1 /\ text' = Append(text, b)
      /\ UNCHANGED <<reading, alphabet, p, fresh, ds>>
  BY DEF ReadersInv, Arrive
<1>2. /\ text \in Seq(Byte) /\ came \in Nat /\ Len(text) <= came /\ Len(text) \in Nat
      /\ ParamsSize \in Nat /\ MaxBytes \in Nat /\ Filled(p, Counted)
  BY <1>1, SizesAssumption, ReadersAssumption DEF ReadersInv, SizesAssumption, ReadersAssumption
<1>3. text' \in Seq(Byte) /\ Len(text') = Len(text) + 1 BY <1>1, <1>2
<1>4. Counted \in Nat /\ Counted' \in Nat /\ Counted <= Counted'
  <2>1. CASE ds = "Panic"
    <3>1. Counted = ParamsSize + came /\ Counted' = ParamsSize + (came + 1)
      BY <1>1, <1>2, <2>1 DEF Counted
    <3> QED BY <1>2, <3>1
  <2>2. CASE ds # "Panic"
    <3>1. Counted = ParamsSize + came - Len(text) /\ Counted' = ParamsSize + (came + 1) - (Len(text) + 1)
      BY <1>1, <1>2, <1>3, <2>2 DEF Counted
    <3> QED BY <1>2, <3>1
  <2> QED BY <2>1, <2>2
<1>5. Filled(p', Counted')
  <2> DEFINE k == Counted
             m == Counted'
  <2>1. k \in Nat /\ m \in Nat /\ k <= m /\ Filled(p, k) BY <1>2, <1>4
  <2> HIDE DEF k, m
  <2>2. Filled(p, m) BY <2>1, FilledWider
  <2> QED BY <1>1, <2>2 DEF m
<1>6. came' \in Nat /\ came' <= MaxBytes /\ Len(text') <= came' BY <1>1, <1>2, <1>3
<1> QED BY <1>1, <1>3, <1>5, <1>6 DEF ReadersInv

\* What the call a program makes in such a state comes to.
LEMMA CallEnds ==
  ASSUME ReadersInv, reading = "decode", text # <<>>, ds # "Panic"
  PROVE  /\ Room(Counted) /\ Len(text) \in Nat
         /\ Ends(DecodeSequence(text, ds, p), text, ds, Counted)
<1>1. /\ text \in Seq(Byte) /\ came \in Nat /\ Len(text) <= came /\ Len(text) \in Nat /\ Len(text) > 0
      /\ ParamsSize \in Nat /\ Filled(p, Counted) /\ ds \in DecodeStates
  BY SizesAssumption DEF ReadersInv, SizesAssumption
<1>2. Room(Counted) BY <1>1 DEF Room, Counted
<1> QED BY <1>1, <1>2, DecodeEnds

\* So does a call of DecodeSequence.
LEMMA DecodeInv ==
  ASSUME ReadersInv, Decode
  PROVE  ReadersInv'
<1> DEFINE d == DecodeSequence(text, ds, p)
<1>1. /\ reading = "decode" /\ text # <<>> /\ ds # "Panic"
      /\ text' = SubSeq(text, d.n + 1, Len(text)) /\ ds' = d.state /\ p' = d.p
      /\ UNCHANGED <<reading, alphabet, fresh, came>>
  BY DEF Decode
<1>2. Room(Counted) /\ Len(text) \in Nat /\ Ends(d, text, ds, Counted) BY <1>1, CallEnds
<1>3. text \in Seq(Byte) /\ came \in Nat /\ Len(text) <= came /\ ParamsSize \in Nat
  BY SizesAssumption DEF ReadersInv, SizesAssumption
<1> HIDE DEF d
<1>4. d.n \in 0..Len(text) /\ d.state \in DecodeStates \cup {"Panic"} BY <1>2 DEF Ends
<1>5. text' \in Seq(Byte) /\ Len(text') = Len(text) - d.n BY <1>1, <1>2, <1>3, <1>4
<1>6. Counted' = Counted + (IF d.state = "Panic" THEN Len(text) ELSE d.n)
  BY <1>1, <1>2, <1>3, <1>4, <1>5 DEF Counted
<1>7. Filled(p', Counted') BY <1>1, <1>2, <1>6 DEF Ends
<1>8. Len(text') <= came' BY <1>1, <1>2, <1>3, <1>4, <1>5
<1> QED BY <1>1, <1>4, <1>5, <1>7, <1>8 DEF ReadersInv

\* The inductive invariant holds in every state.
THEOREM ReadersAlways == ReadersSpec => []ReadersInv
<1>1. ReadersInit => ReadersInv BY ReadersInvInit
<1>2. ReadersInv /\ [ReadersNext]_readerVars => ReadersInv'
  <2> SUFFICES ASSUME ReadersInv, [ReadersNext]_readerVars PROVE ReadersInv' OBVIOUS
  <2>1. ASSUME NEW b \in alphabet, Receive(b) PROVE ReadersInv' BY <2>1, ReceiveInv
  <2>2. ASSUME NEW b \in alphabet, Arrive(b) PROVE ReadersInv' BY <2>2, ArriveInv
  <2>3. CASE Decode BY <2>3, DecodeInv
  <2>4. CASE UNCHANGED readerVars BY <2>4 DEF readerVars, ReadersInv, Counted
  <2> QED BY <2>1, <2>2, <2>3, <2>4 DEF ReadersNext
<1> QED BY <1>1, <1>2, PTL DEF ReadersSpec

\* It bounds the buffers,
LEMMA InvTypeOK == ReadersInv => ReadersTypeOK
<1> SUFFICES ASSUME ReadersInv PROVE ReadersTypeOK OBVIOUS
<1>1. ParamsSize \in Nat /\ MaxBytes \in Nat
  BY SizesAssumption, ReadersAssumption DEF SizesAssumption, ReadersAssumption
<1>2. CASE reading = "stream"
  <2>1. Formed(p) /\ Holding(p) /\ p.state \in States /\ Bounded(p.state, p)
    BY <1>2 DEF ReadersInv, Same
  <2>2. p.n \in Nat /\ p.cmd \in Nat BY <2>1 DEF Formed
  <2>3. p.n <= IF p.state = "Utf8" THEN 4 ELSE ParamsSize BY <1>1, <2>1, <2>2 DEF Bounded
  <2>4. ds \in DecodeStates \cup {"Panic"} BY DEF ReadersInv
  <2> QED BY <1>2, <2>1, <2>2, <2>3, <2>4 DEF ReadersTypeOK, Holding
<1>3. CASE reading = "decode"
  <2>1. Filled(p,
           Counted) /\ came \in Nat /\ came <= MaxBytes /\ Len(text) \in Nat /\ Len(text) <= came
        /\ ds \in DecodeStates \cup {"Panic"}
    BY <1>3 DEF ReadersInv
  <2>2. Counted \in Nat /\ Counted <= ParamsSize + MaxBytes
    <3>1. CASE ds = "Panic"
      <4>1. Counted = ParamsSize + came BY <1>1, <2>1, <3>1 DEF Counted
      <4> QED BY <1>1, <2>1, <4>1
    <3>2. CASE ds # "Panic"
      <4>1. Counted = ParamsSize + came - Len(text) BY <3>2 DEF Counted
      <4> QED BY <1>1, <2>1, <4>1
    <3> QED BY <3>1, <3>2
  <2>3. p.n \in Nat /\ p.cmd \in Nat /\ p.n <= Counted /\ p.state \in States /\ Len(p.data) <= DataSize
    BY <2>1 DEF Filled, Formed, Holding
  <2>4. p.n <= ParamsSize + MaxBytes BY <1>1, <2>2, <2>3
  <2> QED BY <1>3, <2>1, <2>3, <2>4 DEF ReadersTypeOK
<1> QED BY <1>2, <1>3 DEF ReadersInv

\* makes what follows an ESC independent of what came before it,
LEMMA InvReadsAfresh == ReadersInv => ReadsAfresh
<1> SUFFICES ASSUME ReadersInv, reading = "stream", NEW b \in alphabet
             PROVE  Advance(p, b).out = Advance(fresh, b).out /\ Advance(p,
                       b).state = Advance(fresh, b).state
  BY DEF ReadsAfresh
<1>1. Same(p, fresh) /\ b \in Byte BY DEF ReadersInv
<1>2. Same(Advance(p, b), Advance(fresh, b)) BY <1>1, AdvanceSame
<1> QED BY <1>2 DEF Same

\* and every call of DecodeSequence take a byte or leave a sequence.
LEMMA InvDecodeProgresses == ReadersInv => DecodeProgresses
<1> SUFFICES ASSUME ReadersInv, reading = "decode", ds # "Panic", text # <<>>
             PROVE  LET d == DecodeSequence(text, ds, p)
                    IN d.n > 0 \/ (ds # "Normal" /\ d.state = "Normal") \/ d.state = "Panic"
  BY DEF DecodeProgresses
<1> DEFINE d == DecodeSequence(text, ds, p)
<1>1. Ends(d, text, ds, Counted) /\ Len(text) \in Nat BY CallEnds
<1> HIDE DEF d
<1>2. d.n > 0 \/ (ds # "Normal" /\ d.state = "Normal") \/ d.state = "Panic" BY <1>1 DEF Ends
<1> QED BY <1>2 DEF d

\* The buffers of both readers are never overrun (ansi/parser.go, parser_decode.go).
THEOREM ReadersTypesAreRight == ReadersSpec => []ReadersTypeOK
BY ReadersAlways, InvTypeOK, PTL

\* What follows an ESC is read as a new parser reads it (Parser.Advance).
THEOREM SequencesAreReadAfresh == ReadersSpec => []ReadsAfresh
BY ReadersAlways, InvReadsAfresh, PTL

\* A program that loops over DecodeSequence gets to the end of its text.
THEOREM DecodingEnds == ReadersSpec => []DecodeProgresses
BY ReadersAlways, InvDecodeProgresses, PTL

\* All three: the readers take every sequence for what it is.
THEOREM ReadersAreRight == ReadersSpec => []SequencesAreRead
<1>1. ReadersInv => SequencesAreRead
  BY InvTypeOK, InvReadsAfresh, InvDecodeProgresses DEF SequencesAreRead
<1> QED BY <1>1, ReadersAlways, PTL
=============================================================================
