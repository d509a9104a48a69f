------------------------------ MODULE KeyCodes ------------------------------
(***************************************************************************)
(* Keys as the programs name them: codes, modifiers and the events that    *)
(* carry them; and the bytes that stand for characters.                    *)
(***************************************************************************)
EXTENDS Integers, SequencesExt

\* The letters of ASCII, by name.
Ch == [A |-> 65, B |-> 66, C |-> 67, D |-> 68, E |-> 69, F |-> 70, G |-> 71, H |-> 72, I |-> 73,
       J |-> 74, K |-> 75, L |-> 76, M |-> 77, O |-> 79, P |-> 80, Q |-> 81, R |-> 82, S |-> 83,
       T |-> 84, W |-> 87, X |-> 88, Z |-> 90, a |-> 97, b |-> 98, c |-> 99, d |-> 100, e |-> 101,
       f |-> 102, g |-> 103, h |-> 104, j |-> 106, k |-> 107, l |-> 108, m |-> 109, n |-> 110, o |-> 111,
       p |-> 112, q |-> 113, r |-> 114, s |-> 115, t |-> 116, u |-> 117, w |-> 119, x |-> 120,
       y |-> 121, z |-> 122]
Colon == 58
Semicolon == 59
Dollar == 36
Question == 63
Tilde == 126
Esc == 27
Bel == 7
Csi == <<Esc, 91>>

Digits[n \in Nat] == IF n < 10 THEN <<48 + n>> ELSE Append(Digits[n \div 10], 48 + (n % 10))
Itoa(n) == Digits[n]

\* Modifiers are bits of a number. On the wire it comes plus one, as XTerm does.
ModShift == 1
ModAlt == 2
ModCtrl == 4
ModMeta == 8
ModHyper == 16
ModSuper == 32
ModCapsLock == 64
ModNumLock == 128
ModScrollLock == 256

Has(m, bit) == (m \div bit) % 2 = 1
Add(m, bit) == IF bit = 0 THEN m ELSE IF Has(m, bit) THEN m ELSE m + bit
Without(m, bit) == IF Has(m, bit) THEN m - bit ELSE m
Bit(b, bit) == IF b THEN bit ELSE 0

-----------------------------------------------------------------------------
\* Codes. A key that is no character has a code beyond the last of them.
MaxRune == 1114111
RuneError == 65533
KeyExtended == MaxRune + 1

Special == <<"Up", "Down", "Right", "Left", "Begin", "Find", "Insert", "Delete", "Select", "PgUp",
             "PgDown", "Home", "End", "KpEnter", "KpEqual", "KpMultiply", "KpPlus", "KpComma",
             "KpMinus", "KpDecimal", "KpDivide", "Kp0", "Kp1", "Kp2", "Kp3", "Kp4", "Kp5", "Kp6",
             "Kp7", "Kp8", "Kp9", "KpSep", "KpUp", "KpDown", "KpLeft", "KpRight", "KpPgUp",
             "KpPgDown", "KpHome", "KpEnd", "KpInsert", "KpDelete", "KpBegin">>
FunctionKeys == 63
Others == <<"CapsLock", "ScrollLock", "NumLock", "PrintScreen", "Pause", "Menu", "MediaPlay",
            "MediaPause", "MediaPlayPause", "MediaReverse", "MediaStop", "MediaFastForward",
            "MediaRewind", "MediaNext", "MediaPrev", "MediaRecord", "LowerVol", "RaiseVol", "Mute",
            "LeftShift", "LeftAlt", "LeftCtrl", "LeftSuper", "LeftHyper", "LeftMeta", "RightShift",
            "RightAlt", "RightCtrl", "RightSuper", "RightHyper", "RightMeta", "IsoLevel3Shift",
            "IsoLevel5Shift">>

Place(names, n) == CHOOSE i \in DOMAIN names: names[i] = n
F(n) == KeyExtended + Len(Special) + n
NamesIn(names) == {names[i]: i \in DOMAIN names}
Named == [n \in NamesIn(Special) |-> KeyExtended + Place(Special, n)]
         @@ [n \in NamesIn(Others) |-> F(FunctionKeys) + Place(Others, n)]
         @@ [Backspace |-> 127, Tab |-> 9, Enter |-> 13, Escape |-> 27, Space |-> 32]

-----------------------------------------------------------------------------
NoKey == [code |-> 0, mod |-> 0, text |-> <<>>, shifted |-> 0, base |-> 0, repeat |-> FALSE]
Key(code, mod) == [NoKey EXCEPT !.code = code, !.mod = mod]
TextKey(code, text) == [NoKey EXCEPT !.code = code, !.text = text]

Event(type) == [type |-> type]
Press(k) == [type |-> "KeyPress", key |-> k]
Release(k) == [type |-> "KeyRelease", key |-> k]
Unknown == Event("Unknown")

\* The cases of the characters the model has.
IsUpper(c) == c \in 65..90 \/ c = 201
IsLower(c) == c \in 97..122 \/ c = 233
ToLower(c) == IF IsUpper(c) THEN c + 32 ELSE c
ToUpper(c) == IF IsLower(c) THEN c - 32 ELSE c
IsPrint(c) == c \in 32..126 \/ c \in 161..55295
=============================================================================
