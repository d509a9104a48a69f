----------------------------- MODULE AnsiParser -----------------------------
(***************************************************************************)
(* The two readers of escape sequences of the ansi package: Parser         *)
(* (ansi/parser.go), which takes one byte at a time and calls a handler,   *)
(* and DecodeSequence (ansi/parser_decode.go), which takes the rest of a   *)
(* text, returns its first sequence and leaves the sequence's command,     *)
(* parameters and data in a Parser it is given.  A byte is its number; the *)
(* packed command keeps the code's layout: final byte, prefix,             *)
(* intermediate, from the lowest byte up.  Handlers are the events in out. *)
(***************************************************************************)
EXTENDS Integers, Sequences, SequencesExt

-----------------------------------------------------------------------------
(***************************************************************************)
(* The transition table of the escape sequence parser                      *)
(* (ansi/parser/transition_table.go): for a state and a byte, what the     *)
(* parser does and the state it enters.  The code fills an array in        *)
(* several passes, a later one overwriting an earlier one; here each       *)
(* state's own entries come first and the entries of every state last.     *)
(***************************************************************************)

States == {"Ground", "CsiEntry", "CsiIntermediate", "CsiParam", "DcsEntry",
           "DcsIntermediate", "DcsParam", "DcsString", "Escape",
           "EscapeIntermediate", "OscString", "SosString", "PmString",
           "ApcString", "Utf8"}

CsiStates == {"CsiEntry", "CsiParam", "CsiIntermediate"}
DcsStates == {"DcsEntry", "DcsIntermediate", "DcsParam", "DcsString"}

Bel == 7
Can == 24
Sub == 26
Esc == 27
Del == 127
C1Dcs == 144
C1Sos == 152
C1Csi == 155
C1St == 156
C1Osc == 157
C1Pm == 158
C1Apc == 159

\* The control characters no state treats apart: all but CAN, SUB and ESC.
Controls == (0..23) \cup {25} \cup (28..31)
Intermediates == 32..47
ParamBytes == 48..59
PrefixBytes == 60..63
Finals == 64..126

Go(act, next) == [act |-> act, next |-> next]

\* What a byte does in a state that says nothing of it.
Anywhere(b) ==
  CASE b = Esc -> Go("Clear", "Escape")
    [] b = C1Csi -> Go("Clear", "CsiEntry")
    [] b = C1Dcs -> Go("Clear", "DcsEntry")
    [] b = C1Osc -> Go("Start", "OscString")
    [] b = C1Sos -> Go("Start", "SosString")
    [] b = C1Pm -> Go("Start", "PmString")
    [] b = C1Apc -> Go("Start", "ApcString")
    [] b \in {Can, Sub, 153, 154, C1St} \cup (128..151) -> Go("Execute", "Ground")
    [] b \in 194..244 -> Go("Collect", "Utf8")
    [] OTHER -> Go("None", "Ground")

Ground(b) ==
  CASE b \in Controls \cup {Del} -> Go("Execute", "Ground")
    [] b \in 32..126 -> Go("Print", "Ground")
    [] OTHER -> Anywhere(b)

EscapeIntermediate(b) ==
  CASE b \in Controls -> Go("Execute", "EscapeIntermediate")
    [] b \in Intermediates -> Go("Collect", "EscapeIntermediate")
    [] b = Del -> Go("None", "EscapeIntermediate")
    [] b \in 48..126 -> Go("Dispatch", "Ground")
    [] OTHER -> Anywhere(b)

StringOpened(b) ==
  CASE b = 88 -> "SosString" [] b = 93 -> "OscString" [] b = 94 -> "PmString" [] b = 95 -> "ApcString"

Escape(b) ==
  CASE b \in Controls -> Go("Execute", "Escape")
    [] b = Del -> Go("None", "Escape")
    [] b \in Intermediates -> Go("Collect", "EscapeIntermediate")
    [] b \in {88, 93, 94, 95} -> Go("Start", StringOpened(b))
    [] b = 80 -> Go("Clear", "DcsEntry")
    [] b = 91 -> Go("Clear", "CsiEntry")
    [] b \in (48..126) \ {80, 88, 91, 93, 94, 95} -> Go("Dispatch", "Ground")
    [] OTHER -> Anywhere(b)

SosPmApc(state, b) ==
  CASE b \in Controls \cup (32..127) -> Go("Put", state)
    [] b = Esc -> Go("Dispatch", "Escape")
    [] b = C1St -> Go("Dispatch", "Ground")
    [] b \in {Can, Sub} -> Go("None", "Ground")
    [] OTHER -> Anywhere(b)

\* The entries the three states before a DCS's final byte share.
DcsHeader(state, b) ==
  CASE b \in Controls \cup {Del} -> Go("None", state)
    [] b \in Intermediates -> Go("Collect", "DcsIntermediate")
    [] b \in Finals -> Go("Start", "DcsString")
    [] OTHER -> Anywhere(b)

DcsEntry(b) ==
  CASE b \in ParamBytes -> Go("Param", "DcsParam")
    [] b \in PrefixBytes -> Go("Prefix", "DcsParam")
    [] b \in (8..13) \cup {Esc} -> Go("Put", "DcsString")
    [] OTHER -> DcsHeader("DcsEntry", b)

DcsIntermediate(b) ==
  IF b \in ParamBytes \cup PrefixBytes THEN Go("Start", "DcsString")
                                    ELSE DcsHeader("DcsIntermediate", b)

DcsParam(b) ==
  CASE b \in ParamBytes -> Go("Param", "DcsParam")
    [] b \in PrefixBytes -> Go("None", "DcsParam")
    [] OTHER -> DcsHeader("DcsParam", b)

DcsString(b) ==
  CASE b = Esc -> Go("Dispatch", "Escape")
    [] b = C1St -> Go("Dispatch", "Ground")
    [] b \in {Can, Sub} -> Go("None", "Ground")
    [] OTHER -> Go("Put", "DcsString")

\* The entries the three states of a CSI share.
CsiHeader(state, b) ==
  CASE b \in Controls -> Go("Execute", state)
    [] b = Del -> Go("None", state)
    [] b \in Intermediates -> Go("Collect", "CsiIntermediate")
    [] b \in Finals -> Go("Dispatch", "Ground")
    [] OTHER -> Anywhere(b)

CsiParam(b) ==
  CASE b \in ParamBytes -> Go("Param", "CsiParam")
    [] b \in PrefixBytes -> Go("None", "CsiParam")
    [] OTHER -> CsiHeader("CsiParam", b)

CsiIntermediate(b) ==
  IF b \in ParamBytes \cup PrefixBytes THEN Go("None", "Ground")
                                    ELSE CsiHeader("CsiIntermediate", b)

CsiEntry(b) ==
  CASE b \in ParamBytes -> Go("Param", "CsiParam")
    [] b \in PrefixBytes -> Go("Prefix", "CsiParam")
    [] OTHER -> CsiHeader("CsiEntry", b)

OscString(b) ==
  CASE b = Esc -> Go("Dispatch", "Escape")
    [] b \in {Bel, C1St} -> Go("Dispatch", "Ground")
    [] b \in {Can, Sub} -> Go("None", "Ground")
    [] b \in Controls \ {Bel} -> Go("None", "OscString")
    [] OTHER -> Go("Put", "OscString")

Transition(state, b) ==
  CASE state = "Ground" -> Ground(b)
    [] state = "CsiEntry" -> CsiEntry(b)
    [] state = "CsiIntermediate" -> CsiIntermediate(b)
    [] state = "CsiParam" -> CsiParam(b)
    [] state = "DcsEntry" -> DcsEntry(b)
    [] state = "DcsIntermediate" -> DcsIntermediate(b)
    [] state = "DcsParam" -> DcsParam(b)
    [] state = "DcsString" -> DcsString(b)
    [] state = "Escape" -> Escape(b)
    [] state = "EscapeIntermediate" -> EscapeIntermediate(b)
    [] state = "OscString" -> OscString(b)
    [] state \in {"SosString", "PmString", "ApcString"} -> SosPmApc(state, b)
    [] OTHER -> Anywhere(b)

-----------------------------------------------------------------------------
CONSTANTS ParamsSize,     \* the parameters the buffer holds
          DataSize        \* the bytes of string data the buffer holds

ASSUME SizesAssumption == /\ ParamsSize \in Nat \ {0}
                          /\ DataSize \in Nat

MissingCommand == 2147483647
Missing == [v |-> -1, more |-> FALSE]     \* the raw value MissingParam

\* make([]int, size) leaves zeros, not missing parameters.
NewParser ==
  [state |-> "Ground", params |-> [i \in 1..ParamsSize |-> [v |-> 0, more |-> FALSE]],
   n |-> 0, cmd |-> 0, data |-> <<>>, out |-> <<>>]

Params(p) == [i \in 1..p.n |-> p.params[i]]

\* Byte i of a packed command, and the command with b there.
Weight(i) == CASE i = 0 -> 1 [] i = 1 -> 256 [] i = 2 -> 65536
ByteAt(cmd, i) == (cmd \div Weight(i)) % 256
WithByte(cmd, i, b) == cmd + (b - ByteAt(cmd, i)) * Weight(i)

\* cmd |= b, bit by bit.
OrBit(x, y, w) == IF (x \div w) % 2 = 1 \/ (y \div w) % 2 = 1 THEN w ELSE 0
Or(x, y) == OrBit(x, y, 1) + OrBit(x, y, 2) + OrBit(x, y, 4) + OrBit(x, y, 8)
            + OrBit(x, y, 16) + OrBit(x, y, 32) + OrBit(x, y, 64) + OrBit(x, y, 128)
OrByte(cmd, b) == WithByte(cmd, 0, Or(ByteAt(cmd, 0), b))

Emit(p, event) == [p EXCEPT !.out = Append(@, event)]

ForgetNothing(p) == [p EXCEPT !.n = 0, !.params[1] = Missing]       \* A slip: the last command stays.
Clear(p) == [p EXCEPT !.params[1] = Missing, !.n = 0, !.cmd = 0]

Utf8Len(b) == CASE b <= 127 -> 1 [] b \in 192..223 -> 2 [] b \in 224..239 -> 3 [] OTHER -> 4

\* The fourth byte of a rune lands above the bytes of a command, where no
\* reader of the command looks.
CollectRune(p, b) ==
  IF p.n >= 4 THEN p
  ELSE [p EXCEPT !.cmd = IF p.n = 3 THEN @ ELSE WithByte(@, p.n, b), !.n = @ + 1]

\* Whatever follows the first byte of a rune is collected, up to its length.
AdvanceUtf8(p, b) ==
  LET q == CollectRune(p, b)
      lead == ByteAt(q.cmd, 0)
  IN IF q.n < Utf8Len(lead) THEN q
     ELSE [Emit(q, <<"print", lead>>) EXCEPT !.state = "Ground", !.n = 0]

\* The number a string starts with, if it starts with one.
StringNumber(s) ==
  LET number[i \in 0..Len(s)] ==
        IF i = 0 THEN MissingCommand
        ELSE LET num == number[i - 1]
             IN IF \A j \in 1..i: s[j] \in 48..57
                THEN 10 * (IF num = MissingCommand THEN 0 ELSE num) + (s[i] - 48)
                ELSE num
  IN number[Len(s)]

ParseStringCmd(p) ==
  IF p.cmd = MissingCommand THEN [p EXCEPT !.cmd = StringNumber(p.data)] ELSE p

PutAlways(p, b) == [p EXCEPT !.data = Append(@, b)]      \* A slip: the buffer has no end.
PutByte(p, b) ==
  IF Len(p.data) < DataSize THEN [p EXCEPT !.data = Append(@, b)] ELSE p

-----------------------------------------------------------------------------
\* What the actions of the table do.

Collect(p, next, b) ==
  IF next = "Utf8" THEN CollectRune([p EXCEPT !.n = 0], b)
                   ELSE [p EXCEPT !.cmd = WithByte(@, 2, b)]

\* The parameter at hand gets another digit.
AddDigit(p, b) ==
  LET v == p.params[p.n + 1].v
  IN [p EXCEPT !.params[p.n + 1].v = 10 * (IF v = -1 THEN 0 ELSE v) + (b - 48)]

\* A separator closes the parameter at hand; ':' says that it goes on.
CloseParam(p, b) ==
  LET q == [p EXCEPT !.params[p.n + 1].more = @ \/ b = 58, !.n = @ + 1]
  IN IF q.n < ParamsSize THEN [q EXCEPT !.params[q.n + 1] = Missing] ELSE q

AddParam(p, b) ==
  CASE p.n >= ParamsSize -> p
    [] p.n < ParamsSize /\ b \in 48..57 -> AddDigit(p, b)
    [] p.n < ParamsSize /\ b \notin 48..57 -> CloseParam(p, b)

Start(p, b) ==
  [p EXCEPT !.data = <<>>,
            !.cmd = IF p.state \in DcsStates THEN OrByte(@, b) ELSE MissingCommand]

Put(p, b) ==
  PutByte(IF p.state = "OscString" /\ b = 59 THEN ParseStringCmd(p) ELSE p, b)

\* The last parameter has no separator after it.
LastParam(p) ==
  IF \/ p.n > 0 /\ p.n < ParamsSize - 1
     \/ p.n = 0 /\ p.params[1] # Missing
  THEN [p EXCEPT !.n = @ + 1] ELSE p

Dispatch(p, b) ==
  LET q == LastParam(p)
  IN CASE p.state \in CsiStates ->
            LET r == [q EXCEPT !.cmd = OrByte(@, b)] IN Emit(r, <<"csi", r.cmd, Params(r)>>)
       [] p.state \in {"Escape", "EscapeIntermediate"} ->
            LET r == [q EXCEPT !.cmd = OrByte(@, b)] IN Emit(r, <<"esc", r.cmd>>)
       [] p.state \in DcsStates -> Emit(q, <<"dcs", q.cmd, Params(q), q.data>>)
       [] p.state = "OscString" ->
            LET r == ParseStringCmd(q) IN Emit(r, <<"osc", r.cmd, r.data>>)
       [] OTHER -> Emit(q, <<p.state, q.data>>)

Perform(p, act, next, b) ==
  CASE act = "None" -> p
    [] act = "Clear" -> Clear(p)
    [] act \in {"Print", "Execute"} -> Emit([p EXCEPT !.cmd = b], <<act, b>>)
    [] act = "Prefix" -> [p EXCEPT !.cmd = WithByte(@, 1, b)]
    [] act = "Collect" -> Collect(p, next, b)
    [] act = "Param" -> AddParam(p, b)
    [] act = "Start" -> Start(p, b)
    [] act = "Put" -> Put(p, b)
    [] act = "Dispatch" -> Dispatch(p, b)

\* What leaving a state does before the byte's own action.
Leaving(p, go) ==
  CASE p.state = "Escape" /\ go.next # "Escape" -> Clear(p)
    [] p.state = "DcsEntry" /\ go.act = "Put" /\ go.next = "DcsString" -> Start(p, 0)
    [] OTHER -> p

Step(p, b, go) ==
  [Perform(Leaving(p, go), IF b = Esc /\ p.state = "Escape" THEN "Execute" ELSE go.act, go.next, b)
     EXCEPT !.state = go.next]

Advance(p, b) == IF p.state = "Utf8" THEN AdvanceUtf8(p, b) ELSE Step(p, b, Transition(p.state, b))

\* The events of a text, in order.
Feed(p, text) == FoldLeft(Advance, [p EXCEPT !.out = <<>>], text)
=============================================================================
