----------------------------- MODULE InputCases ------------------------------
(***************************************************************************)
(* Inputs one by one: an entry of the table of keys, a key of a terminal   *)
(* that speaks the kitty protocol, any bytes, a sequence of the ansi       *)
(* package written to the emulator, characters in shifted sets.            *)
(***************************************************************************)
EXTENDS VtCommands, InputReader

CONSTANTS KittyKeys,     \* keys with their numbers in the protocol
          Alphabets,     \* sets of bytes
          MaxTyped,      \* bound: the bytes of an input
          MaxShifts      \* bound: the characters and shifts of a text

VARIABLES kind, given

caseVars == <<kind, given>>

\* The protocol, as its terminals write it: number, shifted key, modifiers, kind
\* of event (pressed, repeated, released) and text.
KittyBit == (ModShift :> 1) @@ (ModAlt :> 2) @@ (ModCtrl :> 4) @@ (ModSuper :> 8) @@ (ModHyper :> 16)
            @@ (ModMeta :> 32) @@ (ModCapsLock :> 64) @@ (ModNumLock :> 128)
KittyBytes(k, bits, kd, told) ==
  Ended(Itoa(k.n) \o (IF k.upper = 0 THEN <<>> ELSE <<58>> \o Itoa(k.upper))
        \o <<Semicolon>> \o Itoa(1 + SumSet({KittyBit[b]: b \in bits})) \o <<58>> \o Itoa(kd)
        \o (IF told = <<>> THEN <<>> ELSE <<Semicolon>> \o Itoa(told[1])), Ch.u)
\* What is typed with the key: not with other modifiers than those of the case.
TypedText(k, bits) == CASE ~IsPrint(k.code) \/ ~(bits \subseteq {ModShift, ModCapsLock}) -> <<>>
                        [] IsPrint(k.code) /\ bits = {} -> <<k.code>>
                        [] OTHER -> <<IF k.upper = 0 THEN k.code ELSE k.upper>>
KittyMeans(k, bits, kd) ==
  [type |-> IF kd = 3 THEN "KeyRelease" ELSE "KeyPress",
   key |-> [NoKey EXCEPT !.code = k.code, !.shifted = k.upper, !.mod = SumSet(bits),
                         !.text = TypedText(k, bits), !.repeat = (kd = 2)]]
KittyInputs == {<<k, bits, kd, told>> \in
                  KittyKeys \X {b \in SUBSET DOMAIN KittyBit: Cardinality(b) <= 2} \X (1..3) \X BOOLEAN:
                told => TypedText(k, bits) # <<>>}
KittyOf(i) == KittyBytes(i[1], i[2], i[3], IF i[4] THEN TypedText(i[1], i[2]) ELSE <<>>)

\* Functions of the ansi package and what the terminal is to do.
CountedCalls(n) ==
  {<<CursorUp(n), "CUU">>, <<CursorDown(n), "CUD">>, <<CursorForward(n), "CUF">>, <<CursorBackward(n), "CUB">>,
   <<CursorNextLine(n), "CNL">>, <<CursorPreviousLine(n), "CPL">>, <<CursorHorizontalAbsolute(n), "CHA">>,
   <<CursorHorizontalForwardTab(n), "CHT">>, <<CursorBackwardTab(n), "CBT">>, <<VerticalPositionAbsolute(n), "VPA">>,
   <<VerticalPositionRelative(n), "VPR">>, <<HorizontalPositionAbsolute(n), "HPA">>, <<HorizontalPositionRelative(n), "HPR">>,
   <<EraseCharacter(n), "ECH">>, <<ScrollUp(n), "SU">>, <<ScrollDown(n), "SD">>, <<InsertLine(n), "IL">>,
   <<DeleteLine(n), "DL">>, <<InsertCharacter(n), "ICH">>, <<DeleteCharacter(n), "DCH">>,
   <<RepeatPreviousCharacter(n), "REP">>, <<EraseDisplay(n), "ED">>, <<EraseLine(n), "EL">>, <<TabClear(n), "TBC">>}
PairCalls(n, m) ==
  {<<CursorPositionSeq(m, n), "CUP">>, <<SetCursorPosition(m, n), "CUP">>, <<HorizontalVerticalPosition(m, n), "HVP">>,
   <<SetTopBottomMargins(n, m), "DECSTBM">>, <<SetScrollingRegion(n, m), "DECSTBM">>,
   <<SetLeftRightMargins(n, m), "DECSLRM or SCOSC">>}
PlainCalls ==
  {<<SaveCursor, "DECSC">>, <<RestoreCursor, "DECRC">>, <<ReverseIndex, "RI">>, <<Index, "IND">>,
   <<HorizontalTabSet, "HTS">>, <<SetTabEvery8Columns, "DECST8C">>, <<ResetInitialState, "RIS">>,
   <<KeypadApplicationMode, "DECKPAM">>, <<KeypadNumericMode, "DECKPNM">>, <<LS1R, "LS1R">>, <<LS2, "LS2">>,
   <<LS2R, "LS2R">>, <<LS3, "LS3">>, <<LS3R, "LS3R">>}
Call(bytes, ops) == [bytes |-> bytes, ops |-> ops]
SomeModes == <<ANSI(20), DEC(1), DEC(1049)>>
Calls ==
  UNION {{Call(c[1], <<Op(c[2], <<n>>)>>): c \in CountedCalls(n)}: n \in {1, 2, 10, 123}}
  \cup UNION {{Call(c[1], <<Op(c[2], <<n, m>>)>>): c \in PairCalls(n, m)}: n \in {1, 2, 24}, m \in {1, 3, 80}}
  \cup {Call(c[1], <<Op(c[2], <<>>)>>): c \in PlainCalls}
  \cup {Call(SetCursorStyle(n), <<Op("DECSCUSR", <<n>>)>>): n \in 1..6}
  \cup {Call(SelectCharacterSet(40 + g, CharSetIds[s]), <<Op("SCS", <<g, s>>)>>): g \in 0..3, s \in DOMAIN CharSetIds}
  \cup {Call(SetMode(SomeModes), <<Op("SM", <<SomeModes[1]>>), Op("SM", <<SomeModes[2], SomeModes[3]>>)>>),
        Call(ResetMode(<<DEC(1), ANSI(20)>>), <<Op("RM", <<ANSI(20)>>), Op("RM", <<DEC(1)>>)>>)}

\* Characters, and what changes their sets. Bytes beyond seven bits shift once.
Q == 113
SingleShifts == (142 :> 2) @@ (143 :> 3)
ShiftBytes == {<<Q>>, <<142>>, <<143>>, LS2, SelectCharacterSet(42, CharSetIds.Special), SelectCharacterSet(43, CharSetIds.UK)}
LastOf(ops, k, set) == IF \E i \in 1..k: ops[i] \in set THEN Max({i \in 1..k: ops[i] \in set}) ELSE 0
NamedSet(ops, k, g) ==
  CASE g = 2 /\ LastOf(ops, k, {SelectCharacterSet(42, CharSetIds.Special)}) > 0 -> "Special"
    [] g = 3 /\ LastOf(ops, k, {SelectCharacterSet(43, CharSetIds.UK)}) > 0 -> "UK"
    [] OTHER -> "ASCII"
\* A single shift is for the first character after it.
ShownIn(ops, k) ==
  LET single == LastOf(ops, k, {<<142>>, <<143>>})
  IN IF single > LastOf(ops, k - 1, {<<Q>>}) THEN NamedSet(ops, k, SingleShifts[ops[single][1]])
     ELSE IF LastOf(ops, k, {LS2}) > 0 THEN NamedSet(ops, k, 2) ELSE NamedSet(ops, k, 0)
ShownByRule(ops) == [k \in DOMAIN ops |-> IF ops[k] = <<Q>> THEN <<<<ShownIn(ops, k), Q>>>> ELSE <<>>]

-----------------------------------------------------------------------------
CaseInit == kind = "none" /\ given = <<>>
Take(k, inputs) == kind = "none" /\ kind' = k /\ \E i \in inputs: given' = i
TypeByte == /\ kind = "bytes" /\ Len(given.bytes) < MaxTyped
            /\ \E b \in given.alphabet: given' = [given EXCEPT !.bytes = Append(@, b)]
            /\ UNCHANGED kind
Shift == /\ kind = "shifts" /\ Len(given) < MaxShifts
         /\ \E s \in ShiftBytes: given' = Append(given, s)
         /\ UNCHANGED kind
CaseNext == \/ Take("entry", Table)
            \/ Take("kitty", KittyInputs)
            \/ Take("bytes", {[alphabet |-> a, bytes |-> <<>>]: a \in Alphabets})
            \/ Take("call", Calls)
            \/ Take("shifts", {<<>>})
            \/ TypeByte \/ Shift

-----------------------------------------------------------------------------
\* The parser knows every sequence of the table, alone and before other input,
\* and knows it as the same key: the table is only for what it does not know. Of
\* the modified F3, which looks like a report of the cursor, it gives both.
BothOfF3(key, n) == Read(n, [type |-> "Multi", events |->
                             <<Press(key), [type |-> "CursorPosition", y |-> 0, x |-> key.mod]>>])
TableAgrees ==
  kind = "entry" =>
    \/ ParseSequence(given[1]) = Read(Len(given[1]), Press(given[2]))
    \/ /\ given[2].code = F(3) /\ given[2].mod # 0
       /\ ParseSequence(given[1]) = BothOfF3(given[2], Len(given[1]))

\* A key of the kitty protocol is read as the key, the event and the text that
\* the terminal means, whether it tells the text or not.
KittyReadBack ==
  kind = "kitty" => ParseSequence(KittyOf(given)) = Read(Len(KittyOf(given)), KittyMeans(given[1], given[2], given[3]))

\* Whatever comes, one step of the reader takes at least a byte, and no more
\* than there are.
ReadProgresses ==
  kind = "bytes" /\ given.bytes # <<>> => ParseSequence(given.bytes).n \in DOMAIN given.bytes

\* What a function of the ansi package writes, the emulator takes for what the
\* function is named for, with its numbers.
SequencesMeanIt == kind = "call" => Commands(given.bytes) = given.ops

\* A single shift is for one character, whatever is designated and shifted
\* before it and after.
SingleShiftIsSingle ==
  kind = "shifts" => WriteTo(NewTerm(9, 9), FlattenSeq(given)).shown = FlattenSeq(ShownByRule(given))

\* Of the same bytes, the functions that write them, the emulator, the parser
\* of input and its table all say the same (ansi, vt/handlers.go, input).
MeaningsAgree ==
  /\ TableAgrees /\ KittyReadBack /\ ReadProgresses
  /\ SequencesMeanIt /\ SingleShiftIsSingle
=============================================================================
