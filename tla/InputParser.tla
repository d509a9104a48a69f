---------------------------- MODULE InputParser -----------------------------
(***************************************************************************)
(* What the bytes a terminal sends mean: the parser of input/parse.go. A   *)
(* result is the number of bytes read and the event they stand for. Byte i *)
(* of a string counts from zero, as in the source, and is -1 past its end. *)
(***************************************************************************)
EXTENDS KeyCodes, FiniteSetsExt

CONSTANTS MaxParamsSize,   \* the parameters a sequence may have
          Flags            \* which of two names the ambiguous keys get

ASSUME MaxParamsAssumption == MaxParamsSize \in Nat \ {0}

Can == 24
Sub == 26
Del == 127
C1 == [Ss3 |-> 143, Dcs |-> 144, Sos |-> 152, Csi |-> 155, St |-> 156, Osc |-> 157, Pm |-> 158, Apc |-> 159]

At(b, i) == IF i < Len(b) THEN b[i + 1] ELSE -1
From(b, i) == SubSeq(b, i + 1, Len(b))
Between(b, i, j) == SubSeq(b, i + 1, j)
Read(n, ev) == [n |-> n, ev |-> ev]

\* The first byte from i on that is not in the set.
Past(b, i, set) == Min({j \in i..Len(b): At(b, j) \notin set})
Until(b, i, set) == Min({j \in i..Len(b): At(b, j) \in set \cup {-1}})

\* Where the sequence goes on after its introducer, of one byte or two.
AfterIntro(b, c1, seven) ==
  IF b[1] = Esc THEN (IF At(b, 1) = seven THEN 2 ELSE 1) ELSE IF b[1] = c1 THEN 1 ELSE 0
OnlyIntro(b) == Len(b) = 2 /\ b[1] = Esc

-----------------------------------------------------------------------------
\* Parameters. The first one starts as zero, the others as missing.
Missing == -1
Open(v) == [v |-> v, more |-> FALSE]
Digit(c, b) == [c EXCEPT !.v = (IF @ = Missing THEN 0 ELSE @) * 10 + (b - 48)]

RECURSIVE ScanParams(_, _, _, _, _)
ScanParams(b, i, done, open, any) ==
  CASE At(b, i) \notin 48..63 \/ Len(done) = MaxParamsSize ->
         [ps |-> IF any /\ Len(done) < MaxParamsSize THEN Append(done, open) ELSE done, i |-> i]
    [] At(b, i) \in 48..57 -> ScanParams(b, i + 1, done, Digit(open, b[i + 1]), TRUE)
    [] At(b, i) \in {Colon, Semicolon} ->
         ScanParams(b, i + 1, Append(done, [open EXCEPT !.more = b[i + 1] = Colon]), Open(Missing), TRUE)
    [] OTHER -> ScanParams(b, i + 1, done, open, TRUE)

Param(ps, i, def) == IF i >= Len(ps) \/ ps[i + 1].v = Missing THEN def ELSE ps[i + 1].v

\* Prefix, parameters, intermediates and final byte; i is where the final is.
HeaderOf(b, start, scan, last) ==
  [prefix |-> IF At(b, start) \in 60..63 THEN b[start + 1] ELSE 0, ps |-> scan.ps,
   inter |-> IF last > scan.i THEN b[last] ELSE 0, final |-> At(b, last), i |-> last]
HeaderFrom(b, start, scan) == HeaderOf(b, start, scan, Past(b, scan.i, 32..47))
Header(b, start) == HeaderFrom(b, start, ScanParams(b, start, <<>>, Open(0), FALSE))
IsFinal(c) == c \in 64..126

-----------------------------------------------------------------------------
\* Single keys.
CtrlName(b) == CASE b \in 1..26 -> b + 96 [] b \in 28..31 -> b + 64
ParseControl(b) ==
  CASE b = 0 -> Press(Key(IF "CtrlAt" \in Flags THEN 64 ELSE Named.Space, ModCtrl))
    [] b = 8 -> Press(Key(Ch.h, ModCtrl))
    [] b = 9 -> Press(IF "CtrlI" \in Flags THEN Key(105, ModCtrl) ELSE Key(Named.Tab, 0))
    [] b = 13 -> Press(IF "CtrlM" \in Flags THEN Key(Ch.m, ModCtrl) ELSE Key(Named.Enter, 0))
    [] b = Esc -> Press(IF "CtrlOpenBracket" \in Flags THEN Key(91, ModCtrl) ELSE Key(Named.Escape, 0))
    [] b = Del -> Press(Key(IF "Backspace" \in Flags THEN Named.Delete ELSE Named.Backspace, 0))
    [] b = 32 -> Press(TextKey(Named.Space, <<32>>))
    [] OTHER -> Press(Key(CtrlName(b), ModCtrl))

\* A rune is decoded from UTF-8, of two bytes in the model, and extended by the
\* accents that follow it: the cluster is of a library.
Continuation == 128..191
Rune(b, i) == IF At(b, i) \in 194..223 /\ At(b, i + 1) \in Continuation
              THEN (b[i + 1] - 192) * 64 + (b[i + 2] - 128) ELSE RuneError
Accents == {769}
RECURSIVE ClusterOf(_, _)
ClusterOf(b, i) == IF Rune(b, i) \in Accents THEN ClusterOf(b, i + 2) ELSE i
Runes(b, n) == [k \in 1..(n \div 2) |-> Rune(b, 2 * k - 2)]

UpperKey(c) == [Key(ToLower(c), ModShift) EXCEPT !.text = <<c>>, !.shifted = c]
ClusterKey(b, n) ==
  Read(n, Press(TextKey(IF n > 2 THEN KeyExtended ELSE Rune(b, 0), Runes(b, n))))
ParseUtf8(b) ==
  CASE b[1] \in 33..126 ->
         Read(1, Press(IF IsUpper(b[1]) THEN UpperKey(b[1]) ELSE TextKey(b[1], <<b[1]>>)))
    [] b[1] >= 128 /\ Rune(b, 0) = RuneError -> Read(1, Unknown)
    [] OTHER -> ClusterKey(b, ClusterOf(b, 2))

-----------------------------------------------------------------------------
(***************************************************************************)
(* What a control sequence in the input means: a key in one of four ways   *)
(* of writing them, a mouse event, or the terminal's answer to a question. *)
(***************************************************************************)

\* Keys of the kitty protocol, from 57344 on.
KittyFirst == 57344
KittyFunctionKeys == 35
KittyNames1 == <<"Escape", "Enter", "Tab", "Backspace", "Insert", "Delete", "Left", "Right", "Up",
                 "Down", "PgUp", "PgDown", "Home", "End", "CapsLock", "ScrollLock", "NumLock",
                 "PrintScreen", "Pause", "Menu">>
KittyNames2 == <<"Kp0", "Kp1", "Kp2", "Kp3", "Kp4", "Kp5", "Kp6", "Kp7", "Kp8", "Kp9", "KpDecimal",
                 "KpDivide", "KpMultiply", "KpMinus", "KpPlus", "KpEnter", "KpEqual", "KpSep",
                 "KpLeft", "KpRight", "KpUp", "KpDown", "KpPgUp", "KpPgDown", "KpHome", "KpEnd",
                 "KpInsert", "KpDelete", "KpBegin", "MediaPlay", "MediaPause", "MediaPlayPause",
                 "MediaReverse", "MediaStop", "MediaFastForward", "MediaRewind", "MediaNext",
                 "MediaPrev", "MediaRecord", "LowerVol", "RaiseVol", "Mute", "LeftShift", "LeftCtrl",
                 "LeftAlt", "LeftSuper", "LeftHyper", "LeftMeta", "RightShift", "RightCtrl",
                 "RightAlt", "RightSuper", "RightHyper", "RightMeta", "IsoLevel3Shift",
                 "IsoLevel5Shift">>
Kitty2 == KittyFirst + Len(KittyNames1) + KittyFunctionKeys
KittyLast == Kitty2 + Len(KittyNames2) - 1

KittyCode(n) ==
  CASE n \in {8, Del} -> Named.Backspace
    [] n \in {9, 13, Esc} -> n
    [] n \in KittyFirst..(KittyFirst + Len(KittyNames1) - 1) -> Named[KittyNames1[n - KittyFirst + 1]]
    [] n \in Kitty2..KittyLast -> Named[KittyNames2[n - Kitty2 + 1]]
    [] n \in (KittyFirst + Len(KittyNames1))..(Kitty2 - 1) -> F(n - KittyFirst - Len(KittyNames1) + 1)
    [] n > MaxRune \/ n \in 55296..57343 -> RuneError
    [] OTHER -> n
KittyKey(n) == IF n \in 0..31 \ {8, 9, 13, Esc}
               THEN Key(IF n = 0 THEN Named.Space ELSE CtrlName(n), ModCtrl) ELSE Key(KittyCode(n), 0)

\* A slip: the bits as XTerm has them.
SameMod(m) == m
\* The protocol's bits for super and meta are each other's.
FromKittyMod(m) ==
  LET has(bit) == Has(m, bit) IN
    Bit(has(1), ModShift) + Bit(has(2), ModAlt) + Bit(has(4), ModCtrl) + Bit(has(8), ModSuper)
    + Bit(has(16), ModHyper) + Bit(has(32), ModMeta) + Bit(has(64), ModCapsLock)
    + Bit(has(128), ModNumLock)

-----------------------------------------------------------------------------
\* Fields of a kitty key: groups between semicolons, parts between colons.
Ends(ps, k) == {j \in 1..(k - 1): ~ps[j].more}
GroupOf(ps, k) == Cardinality(Ends(ps, k))
PartOf(ps, k) == k - 1 - Max(Ends(ps, k) \cup {0})
Field(ps, g, s, def) ==
  LET at == {k \in DOMAIN ps: GroupOf(ps, k) = g /\ PartOf(ps, k) = s}
  IN IF at = {} THEN 0 ELSE IF ps[Max(at)].v = Missing THEN def ELSE ps[Max(at)].v
TextOf(ps) == SelectSeq([k \in DOMAIN ps |-> IF GroupOf(ps, k) = 2 THEN Param(ps, k - 1, 0) ELSE 0],
                        LAMBDA c: c # 0)

\* The base key, when there is one, is taken for the shifted one as well.
ShiftedOf(s, b) == IF IsPrint(b) THEN b ELSE IF IsPrint(s) THEN s ELSE 0
Alternates(k, s, b) ==
  [k EXCEPT !.base = IF IsPrint(b) THEN b ELSE 0, !.shifted = ShiftedOf(s, b)]
WithMod(k, m) == IF m > 1 THEN [k EXCEPT !.mod = FromKittyMod(m - 1)] ELSE k

\* The text of a key that came without: its own character, in the right case.
TextMods == {0, ModShift, ModCapsLock, ModShift + ModCapsLock}
WithText(k) ==
  IF k.text # <<>> \/ ~IsPrint(k.code) \/ k.mod \notin TextMods THEN k
  ELSE [k EXCEPT !.text = CASE k.mod = 0 -> <<k.code>>
                            [] k.mod # 0 /\ k.shifted # 0 -> <<k.shifted>>
                            [] OTHER -> <<ToUpper(k.code)>>]
KittyEvent(k, kind) == CASE kind = 2 -> Press([k EXCEPT !.repeat = TRUE])
                         [] kind = 3 -> Release(k)
                         [] OTHER -> Press(k)
ParseKittyKeyboard(ps) ==
  KittyEvent(WithText([WithMod(Alternates(KittyKey(Field(ps, 0, 0, 1)), Field(ps, 0, 1, 1), Field(ps, 0, 2, 1)),
                               Field(ps, 1, 0, 1)) EXCEPT !.text = TextOf(ps)]),
             Field(ps, 1, 1, 1))

\* Other keys may carry the kind of their event too.
KittyExt(ps, k) == IF Len(ps) > 2 /\ Param(ps, 0, 1) = 1 /\ ps[2].more
                   THEN KittyEvent(k, Param(ps, 2, 1)) ELSE Press(k)

ModifyOtherKeys(m, r) ==
  CASE r \in {8, Del} -> Key(Named.Backspace, m)
    [] r \in {9, 13, Esc} -> Key(r, m)
    [] OTHER -> [Key(r, m) EXCEPT !.text = IF m <= ModShift THEN <<r>> ELSE <<>>]

-----------------------------------------------------------------------------
\* Keys that end in a letter.
Letters == Ch.A..Ch.D \cup Ch.a..Ch.d \cup {Ch.E, Ch.F, Ch.H, Ch.P, Ch.Q, Ch.R, Ch.S, Ch.Z}
ArrowOf(l) == Named.Up + ((l - Ch.A) % 32)
LetterKey(l) ==
  CASE l \in Ch.a..Ch.d -> Key(ArrowOf(l), ModShift)
    [] l \in Ch.A..Ch.D -> Key(ArrowOf(l), 0)
    [] l = Ch.E -> Key(Named.Begin, 0)
    [] l = Ch.F -> Key(Named.End, 0)
    [] l = Ch.H -> Key(Named.Home, 0)
    [] l \in Ch.P..Ch.S -> Key(F(1 + l - Ch.P), 0)
    [] l = Ch.Z -> Key(Named.Tab, ModShift)
OrOne(n) == IF n = 0 THEN 1 ELSE n
LetterEvent(ps, k) ==
  KittyExt(ps, IF Len(ps) > 1 /\ OrOne(Param(ps, 0, 1)) = 1
               THEN [k EXCEPT !.mod = Add(OrOne(Param(ps, 1, 1)) - 1, @)] ELSE k)

\* Keys that are a number.
TildeKeys == 1..8 \cup 11..15 \cup 17..21 \cup 23..26 \cup {28, 29} \cup 31..34
TildeCode(n) ==
  CASE n = 1 -> IF "Find" \in Flags THEN Named.Find ELSE Named.Home
    [] n = 2 -> Named.Insert [] n = 3 -> Named.Delete
    [] n = 4 -> IF "Select" \in Flags THEN Named.Select ELSE Named.End
    [] n = 5 -> Named.PgUp [] n = 6 -> Named.PgDown [] n = 7 -> Named.Home [] n = 8 -> Named.End
    [] n \in 11..15 -> F(n - 10) [] n \in 17..21 -> F(n - 11) [] n \in 23..26 -> F(n - 12)
    [] n \in {28, 29} -> F(n - 13) [] n \in 31..34 -> F(n - 14)
TildeMod(ps, final) ==
  LET m == IF Len(ps) > 1 /\ ps[2].v # Missing THEN ps[2].v - 1 ELSE 0
  IN CASE final = Tilde -> m [] final = 94 -> Add(m, ModCtrl) [] final = 64 -> Add(Add(m, ModCtrl), ModShift)
NumberEvent(ps, final, n) ==
  CASE final = Tilde /\ n = 27 -> IF Len(ps) = 3 THEN Press(ModifyOtherKeys(Param(ps, 1, 1) - 1, Param(ps, 2, 1)))
                                  ELSE Unknown
    [] final = Tilde /\ n = 200 -> Event("PasteStart")
    [] final = Tilde /\ n = 201 -> Event("PasteEnd")
    [] n \in TildeKeys -> LET k == Key(TildeCode(n), TildeMod(ps, final))
                          IN IF final = Tilde THEN KittyExt(ps, k) ELSE Press(k)
    [] OTHER -> Unknown
TildeEvent(ps, final) == IF ps = <<>> THEN Unknown ELSE NumberEvent(ps, final, Param(ps, 0, 0))
=============================================================================
