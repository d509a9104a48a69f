----------------------------- MODULE Conversation ----------------------------
(***************************************************************************)
(* A program in the emulator and its user. The program writes sequences of *)
(* the ansi package, the user presses keys, moves the mouse, pastes, and   *)
(* all that the emulator sends is read with a Reader of the input package. *)
(* A read takes one write of the emulator or several of them; of a text    *)
(* that is pasted it may take a part. What the program is owed is what its *)
(* questions and its user's doings must be reported as.                    *)
(***************************************************************************)
EXTENDS VtCommands, InputReader

-----------------------------------------------------------------------------
(***************************************************************************)
(* What the emulator sends to the program for its user: the bytes of keys, *)
(* of mouse events, of pasted text, as the modes of the terminal ask.      *)
(***************************************************************************)

Utf8(c) == CASE c < 128 -> <<c>>
             [] c \in 128..2047 -> <<192 + (c \div 64), 128 + (c % 64)>>
             [] OTHER -> <<239, 191, 189>>     \* no character, or one the model has not

\* Keys, by the kind of bytes they have. Other modifiers than these have none.
CtrlByte(code) == CASE code = Named.Space -> 0
                    [] code \in Ch.a..Ch.z -> code - 96
                    [] code \in 91..95 \ {92} -> code - 64
                    [] code = 92 -> 28
CtrlCodes == {Named.Space} \cup Ch.a..Ch.z \cup 91..95
PlainBytes == [c \in {Named.Enter, Named.Tab, Named.Backspace, Named.Escape} |-> <<c>>]
              @@ (Named.Insert :> Ended(<<50>>, Tilde)) @@ (Named.Delete :> Ended(<<51>>, Tilde))
              @@ (Named.Home :> Ended(<<>>, Ch.H)) @@ (Named.End :> Ended(<<>>, Ch.F))
              @@ (Named.PgUp :> Ended(<<53>>, Tilde)) @@ (Named.PgDown :> Ended(<<54>>, Tilde))
              @@ [c \in F(1)..F(4) |-> <<Esc, Ch.O, Ch.P + c - F(1)>>]
HighFunctions == <<15, 17, 18, 19, 20, 21, 23, 24>>
FunctionBytes == [c \in F(5)..F(12) |-> Ended(Itoa(HighFunctions[c - F(4)]), Tilde)]
\* The byte of an arrow, and those of the keypad: in an application and alone.
Arrows == (Named.Up :> Ch.A) @@ (Named.Down :> Ch.B) @@ (Named.Right :> Ch.C) @@ (Named.Left :> Ch.D)
Keypad2 == [c \in Named.Kp0..Named.Kp9 |-> <<Ch.p + c - Named.Kp0, 48 + c - Named.Kp0>>]
           @@ (Named.KpEnter :> <<Ch.M, 13>>) @@ (Named.KpEqual :> <<Ch.X, 61>>)
           @@ (Named.KpMultiply :> <<Ch.j, 42>>) @@ (Named.KpPlus :> <<Ch.k, 43>>)
           @@ (Named.KpComma :> <<Ch.l, 44>>) @@ (Named.KpMinus :> <<Ch.m, 45>>)
           @@ (Named.KpDecimal :> <<Ch.n, 46>>)

PlainKey(t, code) ==
  CASE code \in DOMAIN PlainBytes -> PlainBytes[code]
    [] code \in DOMAIN FunctionBytes -> FunctionBytes[code]
    [] code \in DOMAIN Arrows ->
         IF IsModeSet(t, ModeCursorKeys) THEN <<Esc, Ch.O, Arrows[code]>> ELSE Ended(<<>>, Arrows[code])
    [] code \in DOMAIN Keypad2 ->
         IF IsModeSet(t, ModeNumericKeypad) THEN <<Esc, Ch.O, Keypad2[code][1]>> ELSE <<Keypad2[code][2]>>
    [] OTHER -> Utf8(code)

\* With Alt an ESC comes before the bytes; the eight of the keypad drops it. A
\* key that carries a text is looked up by nothing but its modifiers.
BareKey(t, k) ==
  CASE k.text # <<>> \/ k.repeat -> IF k.mod = 0 THEN Utf8(k.code) ELSE <<>>
    [] k.text = <<>> /\ ~k.repeat /\ k.mod = 0 -> PlainKey(t, k.code)
    [] k.text = <<>> /\ ~k.repeat /\ k.mod = ModCtrl /\ k.code \in CtrlCodes -> <<CtrlByte(k.code)>>
    [] k.text = <<>> /\ ~k.repeat /\ k.mod = ModShift /\ k.code = Named.Tab -> Ended(<<>>, Ch.Z)
    [] OTHER -> <<>>
LosesAlt(t, k) == k.code = Named.Kp8 /\ k.mod = ModAlt /\ k.text = <<>> /\ ~IsModeSet(t, ModeNumericKeypad)
KeyBytes(t, k) ==
  (IF Has(k.mod, ModAlt) /\ ~LosesAlt(t, k) THEN <<Esc>> ELSE <<>>)
  \o BareKey(t, [k EXCEPT !.mod = Without(@, ModAlt), !.base = 0, !.shifted = 0])
SendKey(t, k) == Write(t, KeyBytes(t, k))

-----------------------------------------------------------------------------
\* The mouse. m has a type, a place, a button and modifiers.
ButtonByte(btn) == CASE btn = MouseNone -> 3
                     [] btn \in MouseLeft..MouseRight -> btn - MouseLeft
                     [] btn \in MouseWheelUp..MouseWheelRight -> 64 + btn - MouseWheelUp
                     [] btn \in MouseBackward..MouseButton11 -> 128 + btn - MouseBackward
                     [] OTHER -> 255
EncodeMouseButton(btn, motion, mod) ==
  FoldLeft(LAMBDA b, bit: Add(b, bit), ButtonByte(btn),
           <<Bit(Has(mod, ModShift), 4), Bit(Has(mod, ModAlt), 8), Bit(Has(mod, ModCtrl), 16), Bit(motion, 32)>>)
X10Byte(v) == Utf8(v % 256)
MouseX10(b, x, y) ==
  Ended(<<>>, Ch.M) \o X10Byte(b + X10Offset) \o X10Byte(x + X10Offset + 1) \o X10Byte(y + X10Offset + 1)
Abs(n) == IF n < 0 THEN -n ELSE n
MouseSgr(b, x, y, release) ==
  Ended(<<60>> \o Numbers(<<b, Abs(x) + 1, Abs(y) + 1>>, Semicolon), IF release THEN Ch.m ELSE Ch.M)

MouseModes == {ModeMouseX10, ModeMouseNormal, ModeMouseHighlight, ModeMouseButtonEvent, ModeMouseAnyEvent}
MouseBytes(t, m, b) == IF IsModeSet(t, ModeMouseExtSgr) THEN MouseSgr(b, m.x, m.y, m.type = "MouseRelease")
                       ELSE MouseX10(b, m.x, m.y)
SendMouse(t, m) ==
  IF \E mode \in MouseModes: IsModeSet(t, mode)
  THEN Write(t, MouseBytes(t, m, EncodeMouseButton(m.button, m.type = "MouseMotion", m.mod))) ELSE t

-----------------------------------------------------------------------------
FocusTo(t, focus) ==
  IF IsModeSet(t, ModeFocusEvent) THEN Write(t, IF focus THEN FocusSeq ELSE BlurSeq) ELSE t
SendText(t, text) == Write(t, text)
Paste(t, text) ==
  IF IsModeSet(t, ModeBracketedPaste)
  THEN Write(Write(Write(t, BracketedPasteStart), text), BracketedPasteEnd) ELSE Write(t, text)
ResizeTo(t, w, h) ==
  LET u == [t EXCEPT !.w = w, !.h = h, !.x = Min({@, w - 1}), !.y = Min({@, h - 1})]
  IN IF IsModeSet(t, ModeInBandResize) THEN Write(u, SizeReport(u)) ELSE u

-----------------------------------------------------------------------------
CONSTANTS Topics,        \* of a conversation: the modes the program uses, the places of its
                         \* cursor, and the keys, mice, texts and sizes of its user
          MaxActs        \* bound: the doings of a conversation

VARIABLES topic, term,
          wanted,        \* the modes the program has set and reset, as it knows them
          paste,         \* the Reader's
          owed, odd,     \* what has not been reported; what was, though not owed
          acts

About == Topics[topic]

talkVars == <<topic, term, wanted, paste, owed, odd, acts>>

TalkInit ==
  /\ topic \in DOMAIN Topics
  /\ term = NewTerm(3, 2)
  /\ wanted = [m \in About.modes |-> Setting(term, m)]
  /\ paste = NoPaste
  /\ owed = <<>> /\ odd = <<>>
  /\ acts = 0

\* Something is done: the terminal is then t, and the program is owed evs.
Done(t, evs) ==
  /\ acts < MaxActs
  /\ acts' = acts + 1
  /\ term' = t
  /\ owed' = owed \o evs
  /\ UNCHANGED <<topic, paste, odd>>

-----------------------------------------------------------------------------
\* The program. Modes are set one by one or all at once.
SizeTold(w, h) == [type |-> "WindowOp", op |-> 48, args |-> <<h, w, 0, 0>>]
AsksSize(ms, on) == on /\ ModeInBandResize \in Range(ms)
Demand(ms, on) ==
  /\ Done(WriteTo(term, IF on THEN SetMode(ms) ELSE ResetMode(ms)),
          IF AsksSize(ms, on) THEN <<SizeTold(term.w, term.h)>> ELSE <<>>)
  /\ wanted' = [m \in About.modes |-> IF m \in Range(ms) THEN (IF on THEN ModeSet ELSE ModeReset) ELSE wanted[m]]
SetModes == \E on \in BOOLEAN: \/ \E m \in About.modes: Demand(<<m>>, on)
                               \/ Demand(SetToSeq(About.modes), on)

AskMode(m) ==
  /\ Done(WriteTo(term, RequestMode(m)),
          <<[type |-> "ModeReport", dec |-> m.dec, mode |-> m.n, value |-> wanted[m]]>>)
  /\ UNCHANGED wanted
AskPlace(x, y, request) ==
  /\ Done(WriteTo(WriteTo(term, CursorPositionSeq(x + 1, y + 1)), request),
          <<[type |-> "CursorPosition", x |-> x, y |-> y]>>)
  /\ UNCHANGED wanted
\* A plain report from the first row is what a modified F3 sends too: alone in a
\* read it is taken for that key only. The extended report is not.
AskPlaces(pos) == \/ pos.y # 0 /\ AskPlace(pos.x, pos.y, RequestCursorPosition)
                  \/ AskPlace(pos.x, pos.y, RequestExtendedCursorPosition)
AskAttributes ==
  /\ Done(WriteTo(term, PrimaryDeviceAttributes(<<>>)), <<[type |-> "DeviceAttributes", attrs |-> <<62, 1, 6, 22>>]>>)
  /\ UNCHANGED wanted
AskColor(c, spec) ==
  /\ Done(WriteTo(term, Osc(c, spec) \o Osc(c, <<Question>>)), <<[type |-> "Color", of |-> c, spec |-> spec]>>)
  /\ UNCHANGED wanted
Ask == \/ SetModes
       \/ \E m \in About.modes: AskMode(m)
       \/ \E pos \in About.places: AskPlaces(pos)
       \/ About.colors # {} /\ AskAttributes
       \/ \E c \in About.colors, spec \in ColorSpecs: AskColor(c, spec)

-----------------------------------------------------------------------------
\* The user. A key of the keypad is the digit on it until the program asks for
\* the key. Without SGR a button that comes up is written as one that goes down:
\* here the user keeps it down.
On(m) == m \in About.modes /\ wanted[m] = ModeSet
KeyTold(k) ==
  IF k.code \in DOMAIN Keypad2 /\ ~On(ModeNumericKeypad)
  THEN Press(TextKey(Keypad2[k.code][2], <<Keypad2[k.code][2]>>)) ELSE Press(k)
Told(m) == m.type # "MouseRelease" \/ On(ModeMouseExtSgr)
TextTold(text) == [k \in DOMAIN Decoded(text) |-> Press(TextKey(Decoded(text)[k], <<Decoded(text)[k]>>))]
PasteTold(text) ==
  IF On(ModeBracketedPaste) THEN <<Event("PasteStart"), PasteText(Decoded(text)), Event("PasteEnd")>>
  ELSE TextTold(text)

UserDoes(t, evs) == Done(t, evs) /\ UNCHANGED wanted
User ==
  \/ \E k \in About.keys: UserDoes(SendKey(term, k), <<KeyTold(k)>>)
  \/ \E m \in {m \in About.mice: Told(m)}:
       UserDoes(SendMouse(term, m), IF \E mode \in MouseModes: On(mode) THEN <<m>> ELSE <<>>)
  \/ \E focus \in BOOLEAN: UserDoes(FocusTo(term, focus),
       IF On(ModeFocusEvent) THEN <<Event(IF focus THEN "Focus" ELSE "Blur")>> ELSE <<>>)
  \/ \E text \in About.texts: UserDoes(Paste(term, text), PasteTold(text)) \/ UserDoes(SendText(term, text), TextTold(text))
  \/ \E s \in About.sizes: UserDoes(ResizeTo(term, s.w, s.h),
       IF On(ModeInBandResize) THEN <<SizeTold(s.w, s.h)>> ELSE <<>>)

-----------------------------------------------------------------------------
\* A read, of the first n writes, and of a text that is pasted n bytes.
Settle(s) ==
  /\ paste' = s.paste
  /\ owed' = IF IsPrefix(s.events, owed) THEN From(owed, Len(s.events)) ELSE owed
  /\ odd' = IF IsPrefix(s.events, owed) THEN odd ELSE odd \o s.events
  /\ UNCHANGED <<topic, wanted, acts>>
ReadWrites(n) ==
  /\ term' = [term EXCEPT !.wire = From(@, n)]
  /\ Settle(ReadEvents(paste, FlattenSeq(Between(term.wire, 0, n))))
ReadPart(n) ==
  /\ term' = [term EXCEPT !.wire[1] = From(@, n)]
  /\ Settle(ReadEvents(paste, Between(term.wire[1], 0, n)))
ReadSome == \/ \E n \in DOMAIN term.wire: ReadWrites(n)
         \/ /\ paste.on
            /\ term.wire # <<>> /\ term.wire[1] \in About.texts
            /\ \E n \in 1..(Len(term.wire[1]) - 1): ReadPart(n)

TalkNext == Ask \/ User \/ ReadSome

-----------------------------------------------------------------------------
\* Nothing is reported but what is owed, in its order, however the writes fall
\* into reads; and when all has been read, all has been reported.
ReadBack == odd = <<>> /\ (term.wire = <<>> => owed = <<>>)

\* The modes the program has set, and no others, are set in the terminal: lists
\* of modes, resets and questions leave both in step.
ModesAsAsked == \A m \in About.modes: IsSet(Setting(term, m)) <=> wanted[m] = ModeSet

\* The program and the terminal understand each other: what is owed is read,
\* and the modes that decide how it is written are those the program believes.
ProgramIsTold == ReadBack /\ ModesAsAsked
=============================================================================
