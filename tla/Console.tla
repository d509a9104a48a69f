------------------------------ MODULE Console -------------------------------
(***************************************************************************)
(* A console and its user. What the user does, and what is written to the  *)
(* program, comes as records; the mouse, the window and the focus may come *)
(* between the records of one sequence.                                    *)
(***************************************************************************)
EXTENDS InputSequences, TLC

-----------------------------------------------------------------------------
(***************************************************************************)
(* Input of a Windows console: records of keys, of the mouse, of sizes and *)
(* of the focus, which the Reader turns into the events it reads from a    *)
(* terminal. States of buttons and of modifiers are sets here, bits there. *)
(***************************************************************************)

\* What the Reader keeps from record to record.
NewConState == [seq |-> <<>>, half |-> 0, cks |-> {}, buttons |-> {}, size |-> <<0, 0>>]
Nil == Event("nil")
Got(con, ev) == [con |-> con, evs |-> IF ev = Nil THEN <<>> ELSE IF ev.type = "Multi" THEN ev.events ELSE <<ev>>]

\* States of the keys that modify others.
LeftCtrl == "LEFT_CTRL_PRESSED"
RightCtrl == "RIGHT_CTRL_PRESSED"
LeftAlt == "LEFT_ALT_PRESSED"
RightAlt == "RIGHT_ALT_PRESSED"
ShiftPressed == "SHIFT_PRESSED"
CapsOn == "CAPSLOCK_ON"
NumOn == "NUMLOCK_ON"
ScrollOn == "SCROLLLOCK_ON"
Enhanced == "ENHANCED_KEY"
AnyOf(cks, names) == cks \cap names # {}
HeldMods(cks) == Bit(AnyOf(cks, {LeftCtrl, RightCtrl}), ModCtrl) + Bit(AnyOf(cks, {LeftAlt, RightAlt}), ModAlt)
                 + Bit(ShiftPressed \in cks, ModShift)
TranslateControlKeyState(cks) ==
  HeldMods(cks) + Bit(CapsOn \in cks, ModCapsLock) + Bit(NumOn \in cks, ModNumLock) + Bit(ScrollOn \in cks, ModScrollLock)

-----------------------------------------------------------------------------
\* The mouse. A button is told by what has changed since the last record.
ButtonCode == ("FROM_LEFT_1ST" :> MouseLeft) @@ ("FROM_LEFT_2ND" :> MouseLeft + 1) @@ ("RIGHTMOST" :> MouseRight)
              @@ ("FROM_LEFT_3RD" :> MouseBackward) @@ ("FROM_LEFT_4TH" :> MouseBackward + 1)
Order == <<"FROM_LEFT_1ST", "FROM_LEFT_2ND", "RIGHTMOST", "FROM_LEFT_3RD", "FROM_LEFT_4TH">>
Changed(p, s) == (p \ s) \cup (s \ p)
FirstHeld(s) == IF s \cap DOMAIN ButtonCode = {} THEN MouseNone
                ELSE ButtonCode[SelectSeq(Order, LAMBDA b: b \in s)[1]]
OneChanged(btn) == IF \E b \in DOMAIN ButtonCode: btn = {b} THEN ButtonCode[CHOOSE b \in btn: TRUE] ELSE MouseNone
MouseEventButton(p, s) == IF p = s THEN FirstHeld(s) ELSE OneChanged(Changed(p, s))
IsRelease(p, s) == Changed(p, s) \cap s = {}
\* The wheel's direction is in the state of the buttons, which keeps it.
WheelUp == "up"
WheelButton(e) == IF e.flags = "MOUSE_WHEELED" THEN MouseWheelUp + (IF WheelUp \in e.buttons THEN 0 ELSE 1)
                  ELSE MouseWheelRight - (IF WheelUp \in e.buttons THEN 0 ELSE 1)
ConMouse(p, e) ==
  CASE e.flags \in {"MOUSE_WHEELED", "MOUSE_HWHEELED"} ->
         Mouse("MouseWheel", e.x, e.y, WheelButton(e), HeldMods(e.cks))
    [] e.flags = "MOUSE_MOVED" -> Mouse("MouseMotion", e.x, e.y, MouseEventButton(p, e.buttons), HeldMods(e.cks))
    [] OTHER -> Mouse(IF IsRelease(p, e.buttons) THEN "MouseRelease" ELSE "MouseClick",
                      e.x, e.y, MouseEventButton(p, e.buttons), HeldMods(e.cks))

-----------------------------------------------------------------------------
\* Keys, by their virtual codes. Those of both sides are told by the state.
VkShift == 16
VkControl == 17
VkMenu == 18
VkRange(first, n, code) == [vk \in first..(first + n - 1) |-> code + vk - first]
VkOf(vks, names) == [vk \in {vks[k]: k \in DOMAIN vks} |-> names[CHOOSE k \in DOMAIN vks: vks[k] = vk]]
VkNames ==
  VkOf(<<8, 9, 13, 19, 20, 27, 32, 33, 34, 35, 36, 37, 38, 39, 40, 41, 44, 45, 46, 91, 92, 93, 106, 107, 108,
         109, 110, 111, 144, 145, 160, 161, 162, 163, 164, 165, 173, 174, 175, 176, 177, 178, 179>>,
       <<"Backspace", "Tab", "Enter", "Pause", "CapsLock", "Escape", "Space", "PgUp", "PgDown", "End", "Home",
         "Left", "Up", "Right", "Down", "Select", "PrintScreen", "Insert", "Delete", "LeftSuper", "RightSuper",
         "Menu", "KpMultiply", "KpPlus", "KpComma", "KpMinus", "KpDecimal", "KpDivide", "NumLock", "ScrollLock",
         "LeftShift", "RightShift", "LeftCtrl", "RightCtrl", "LeftAlt", "RightAlt", "Mute", "LowerVol",
         "RaiseVol", "MediaNext", "MediaPrev", "MediaStop", "MediaPlayPause">>)
VkCodes ==
  VkRange(48, 10, 48) @@ VkRange(65, 26, 97) @@ VkRange(96, 10, Named.Kp0) @@ VkRange(112, 24, F(1))
  @@ VkOf(<<186, 187, 188, 189, 190, 191, 192, 219, 220, 221, 222>>, <<59, 43, 44, 45, 46, 47, 96, 91, 92, 93, 39>>)
  @@ [vk \in DOMAIN VkNames |-> Named[VkNames[vk]]]

ShiftSide(cks) == IF Enhanced \in cks THEN Named.RightShift ELSE Named.LeftShift
SideOf(cks, last, left, right) ==
  CASE left[1] \in cks -> left[2]
    [] left[1] \notin cks /\ right[1] \in cks -> right[2]
    [] ~AnyOf(cks, {left[1], right[1]}) /\ left[1] \in last -> left[2]
    [] ~AnyOf(cks, {left[1], right[1]}) /\ left[1] \notin last /\ right[1] \in last -> right[2]
    [] OTHER -> 0
BaseOf(vk, cks, last) ==
  CASE vk = VkShift -> IF ShiftPressed \in cks THEN ShiftSide(cks) ELSE IF ShiftPressed \in last THEN ShiftSide(last) ELSE 0
    [] vk = VkControl -> SideOf(cks, last, <<LeftCtrl, Named.LeftCtrl>>, <<RightCtrl, Named.RightCtrl>>)
    [] vk = VkMenu -> SideOf(cks, last, <<LeftAlt, Named.LeftAlt>>, <<RightAlt, Named.RightAlt>>)
    [] vk \in DOMAIN VkCodes -> VkCodes[vk]
    [] OTHER -> 0

IsControl(r) == r \in 0..31 \cup 127..159
IsSurrogate(r) == r \in 55296..57343
DecodeSurrogates(h, l) == IF h < 56320 /\ l \in 56320..57343 THEN (h - 55296) * 1024 + (l - 56320) + 65536 ELSE RuneError
EnsureKeyCase(k, cks) ==
  IF k.text = <<>> THEN k
  ELSE IF AnyOf(cks, {ShiftPressed, CapsOn})
       THEN IF IsLower(k.code) THEN [k EXCEPT !.shifted = ToUpper(k.code), !.text = <<ToUpper(k.code)>>] ELSE k
       ELSE IF IsUpper(k.code) THEN [k EXCEPT !.shifted = ToLower(k.code), !.text = <<ToLower(k.code)>>] ELSE k
UpOrDown(e, k) == IF e.down THEN Press(EnsureKeyCase(k, e.cks)) ELSE Release(EnsureKeyCase(k, e.cks))

\* A character has a text when nothing but shift or caps lock is down, or AltGr.
AltGr == {LeftCtrl, RightAlt}
Printable(r, cks) == IsPrint(r) /\ (cks \in {{}, {ShiftPressed}, {CapsOn}} \/ AltGr \subseteq cks)
CharKey(e, base) ==
  [NoKey EXCEPT !.code = IF IsControl(e.r) THEN base ELSE e.r, !.base = base, !.mod = TranslateControlKeyState(e.cks),
                !.text = IF ~IsControl(e.r) /\ Printable(e.r, e.cks) THEN <<e.r>> ELSE <<>>]
PlainEvent(con, e, base) ==
  IF IsSurrogate(e.r) THEN Got([con EXCEPT !.half = e.r], Nil) ELSE Got(con, UpOrDown(e, CharKey(e, base)))
SecondHalf(con, e) ==
  Got([con EXCEPT !.half = 0],
      UpOrDown(e, [NoKey EXCEPT !.code = DecodeSurrogates(con.half, e.r), !.mod = TranslateControlKeyState(e.cks),
                                !.text = <<DecodeSurrogates(con.half, e.r)>>]))

\* A record without a virtual code is a character, or a byte of a sequence, which
\* is read again with every byte from the third on until it is known.
Collected(con, ev) == IF ev.type = "Unknown" THEN Got(con, Nil) ELSE Got([con EXCEPT !.seq = <<>>], ev)
Collect(con, r) ==
  IF Len(con.seq) <= 2 \/ r = Esc THEN Got(con, Nil) ELSE Collected(con, ParseSequence(con.seq).ev)
KeyRecord(con, e) ==
  CASE con.half # 0 -> SecondHalf(con, e)
    [] con.half = 0 /\ e.vk = 0 /\ (con.seq # <<>> \/ e.r = Esc) -> Collect([con EXCEPT !.seq = Append(@, e.r)], e.r)
    [] OTHER -> PlainEvent(con, e, IF e.vk = 0 THEN e.r ELSE BaseOf(e.vk, e.cks, con.cks))
Repeated(got, n) == [got EXCEPT !.evs = IF n > 1 THEN FlattenSeq([k \in 1..n |-> @]) ELSE @]
\* A slip: the state of the modifiers is not kept.
ForgetState(con, e) == Repeated(KeyRecord(con, e), e.repeat)
ParseKey(con, e) == LET got == Repeated(KeyRecord(con, e), e.repeat) IN [got EXCEPT !.con.cks = e.cks]

ParseConInputEvent(con, e) ==
  CASE e.type = "key" -> ParseKey(con, e)
    [] e.type = "mouse" -> Got([con EXCEPT !.buttons = e.buttons], ConMouse(con.buttons, e))
    [] e.type = "size" -> IF e.size = con.size THEN Got(con, Nil)
                          ELSE Got([con EXCEPT !.size = e.size], [type |-> "WindowSize", size |-> e.size])
    [] e.type = "focus" -> Got(con, Event(IF e.set THEN "Focus" ELSE "Blur"))
    [] OTHER -> Got(con, Nil)

-----------------------------------------------------------------------------
CONSTANTS Buttons, Strokes, Strings, WindowSizes,
          MaxDoings            \* bound: the things that happen

VARIABLES con,                 \* what the Reader keeps
          held, down, window,  \* the buttons and the modifiers that are down, the window's size
          line, means,         \* records of a string still to come, and what it means
          amiss,               \* what was read for another thing
          doings

conVars == <<con, held, down, window, line, means, amiss, doings>>

ConInit == /\ con = NewConState
           /\ held = {} /\ down = {} /\ window = con.size
           /\ line = <<>> /\ means = <<>>
           /\ amiss = <<>>
           /\ doings = 0

\* The record e is read; it must be read as evs.
Settled(got, evs) ==
  /\ con' = got.con
  /\ amiss' = IF got.evs = evs THEN amiss ELSE <<got.evs, evs>>
Record(e, evs) == /\ doings < MaxDoings
                  /\ doings' = doings + 1
                  /\ Settled(ParseConInputEvent(con, e), evs)

\* The mouse is at the place where nothing depends on where it is. The wheel
\* turns with no button down, and is out of the state again with the next move.
MouseRecord(buttons, flags) ==
  [type |-> "mouse", x |-> 7, y |-> 4, buttons |-> buttons, flags |-> flags, cks |-> down]
MouseMeans(type, btn) == <<Mouse(type, 7, 4, btn, HeldMods(down))>>
Wheels == {WheelUp, "down"}
ButtonDown(b) == /\ b \notin held /\ con.buttons \cap Wheels = {}
                 /\ held' = held \cup {b}
                 /\ \E flags \in {"", "DOUBLE_CLICK"}:
                      Record(MouseRecord(held', flags), MouseMeans("MouseClick", ButtonCode[b]))
ButtonUp(b) == /\ b \in held
               /\ held' = held \ {b}
               /\ Record(MouseRecord(held', ""), MouseMeans("MouseRelease", ButtonCode[b]))
Move == /\ Record(MouseRecord(held, "MOUSE_MOVED"), MouseMeans("MouseMotion", FirstHeld(held)))
        /\ UNCHANGED held
Turn(way, flags, btn) == /\ held = {}
                         /\ Record(MouseRecord({way}, flags), MouseMeans("MouseWheel", btn))
                         /\ UNCHANGED held
UseMouse ==
  /\ \/ \E b \in Buttons: ButtonDown(b) \/ ButtonUp(b)
     \/ Move
     \/ Turn(WheelUp, "MOUSE_WHEELED", MouseWheelUp) \/ Turn("down", "MOUSE_WHEELED", MouseWheelUp + 1)
     \/ Turn("down", "MOUSE_HWHEELED", MouseWheelRight - 1) \/ Turn(WheelUp, "MOUSE_HWHEELED", MouseWheelRight)
  /\ UNCHANGED <<down, window, line, means>>

-----------------------------------------------------------------------------
\* Keys come with no string under way. Of a pair of modifiers one is down.
KeyRecordOf(vk, r, isDown, cks, n) ==
  [type |-> "key", vk |-> vk, r |-> r, down |-> isDown, cks |-> cks, repeat |-> n]
Pairs == {LeftCtrl, RightCtrl, LeftAlt, RightAlt, ShiftPressed}
Other(m) == CASE m = LeftCtrl -> RightCtrl [] m = RightCtrl -> LeftCtrl
              [] m = LeftAlt -> RightAlt [] m = RightAlt -> LeftAlt [] OTHER -> ""
VkOfMod(m) == CASE m = ShiftPressed -> VkShift [] m \in {LeftCtrl, RightCtrl} -> VkControl [] OTHER -> VkMenu
CodeOfMod == (LeftCtrl :> Named.LeftCtrl) @@ (RightCtrl :> Named.RightCtrl) @@ (LeftAlt :> Named.LeftAlt)
             @@ (RightAlt :> Named.RightAlt) @@ (ShiftPressed :> Named.LeftShift)
ModKey(m, cks) == [Key(CodeOfMod[m], HeldMods(cks)) EXCEPT !.base = CodeOfMod[m]]
HoldMod(m) == /\ down \cap {m, Other(m)} = {}
              /\ down' = down \cup {m}
              /\ Record(KeyRecordOf(VkOfMod(m), 0, TRUE, down', 1), <<Press(ModKey(m, down'))>>)
LetGo(m) == /\ m \in down
            /\ down' = down \ {m}
            /\ Record(KeyRecordOf(VkOfMod(m), 0, FALSE, down', 1), <<Release(ModKey(m, down'))>>)
\* A stroke: a key, and what it types with and without shift, and with AltGr. With
\* another modifier the console gives the character of the key alone.
Typed(s) == CASE ShiftPressed \in down /\ (down = {ShiftPressed} \/ AltGr \subseteq down) -> s.shifted
              [] ShiftPressed \notin down /\ AltGr \subseteq down -> s.altgr
              [] OTHER -> s.plain
Types(s) == IsPrint(Typed(s)) /\ (down \subseteq {ShiftPressed} \/ AltGr \subseteq down)
StrokeKey(s) == [Key(IF IsPrint(Typed(s)) THEN Typed(s) ELSE s.base, HeldMods(down)) EXCEPT
                   !.base = s.base, !.text = IF Types(s) THEN <<Typed(s)>> ELSE <<>>]
Stroke(s) == /\ \E n \in {1, 2}:
                  \/ Record(KeyRecordOf(s.vk, Typed(s), TRUE, down, n), [k \in 1..n |-> Press(StrokeKey(s))])
                  \/ n = 1 /\ Record(KeyRecordOf(s.vk, Typed(s), FALSE, down, n), <<Release(StrokeKey(s))>>)
             /\ UNCHANGED down
UseKeys == /\ line = <<>>
           /\ \/ \E m \in Pairs: HoldMod(m) \/ LetGo(m)
              \/ \E s \in Strokes: Stroke(s)
           /\ UNCHANGED <<held, window, line, means>>

\* A string, character by character, with no key of the user's down.
Unit(c) == KeyRecordOf(0, c, TRUE, {}, 1)
Begin(s) == /\ line = <<>> /\ down = {}
            /\ line' = Tail(s.units) /\ means' = s.means
            /\ Record(Unit(s.units[1]), IF Len(s.units) = 1 THEN s.means ELSE <<>>)
            /\ UNCHANGED <<held, down, window>>
GoOn == /\ line # <<>>
        /\ line' = Tail(line)
        /\ Settled(ParseConInputEvent(con, Unit(line[1])), IF Len(line) = 1 THEN means ELSE <<>>)
        /\ UNCHANGED <<held, down, window, means, doings>>

\* A size may be told again with nothing changed.
SizeRecord(s) == /\ window' = s
                 /\ Record([type |-> "size", size |-> s],
                           IF s = window THEN <<>> ELSE <<[type |-> "WindowSize", size |-> s]>>)
Focus(on) == Record([type |-> "focus", set |-> on], <<Event(IF on THEN "Focus" ELSE "Blur")>>)
Window == /\ \/ \E s \in WindowSizes: SizeRecord(s)
             \/ UNCHANGED window /\ \E on \in BOOLEAN: Focus(on)
             \/ UNCHANGED window /\ Record([type |-> "menu"], <<>>)
          /\ UNCHANGED <<held, down, line, means>>

ConNext == UseMouse \/ UseKeys \/ (\E s \in Strings: Begin(s)) \/ GoOn \/ Window

-----------------------------------------------------------------------------
\* Whatever comes between, every button, key and string of the console is read
\* for what it is, and once: what the Reader keeps of one kind of record is not
\* disturbed by another.
ConsoleIsRead == amiss = <<>>
=============================================================================
