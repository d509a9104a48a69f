--------------------------- MODULE InputSequences ---------------------------
(***************************************************************************)
(* The sequences of the input: mouse events, answers, the strings that an  *)
(* ST ends, and parseSequence, which tells one kind from the other.        *)
(***************************************************************************)
EXTENDS InputParser

\* Mouse buttons, and the byte that stands for one.
MouseNone == 0
MouseLeft == 1
MouseRight == 3
MouseWheelUp == 4
MouseWheelRight == 7
MouseBackward == 8
MouseButton11 == 11
IsWheel(btn) == btn \in MouseWheelUp..MouseWheelRight

Mouse(type, x, y, btn, mod) == [type |-> type, x |-> x, y |-> y, button |-> btn, mod |-> mod]

ButtonOf(b) == CASE Has(b, 128) -> MouseBackward + (b % 4)
                 [] ~Has(b, 128) /\ Has(b, 64) -> MouseWheelUp + (b % 4)
                 [] b % 4 = 3 /\ ~Has(b, 128) /\ ~Has(b, 64) -> MouseNone
                 [] OTHER -> MouseLeft + (b % 4)
ModOf(b) == Bit(Has(b, 4), ModShift) + Bit(Has(b, 8), ModAlt) + Bit(Has(b, 16), ModCtrl)
IsMotion(b) == Has(b, 32) /\ ~IsWheel(ButtonOf(b))
MouseEvent(b, x, y, release) ==
  Mouse(CASE IsWheel(ButtonOf(b)) -> "MouseWheel"
          [] IsMotion(b) -> "MouseMotion"
          [] release /\ ~IsWheel(ButtonOf(b)) /\ ~IsMotion(b) -> "MouseRelease"
          [] OTHER -> "MouseClick", x, y, ButtonOf(b), ModOf(b))

SgrMouse(h) == MouseEvent(Param(h.ps, 0, 0), Param(h.ps, 1, 1) - 1, Param(h.ps, 2, 1) - 1, h.final = Ch.m)

\* Three bytes after CSI M. The bytes are those from the fourth on, wherever the
\* sequence has its final byte.
X10Offset == 32
X10Button(c) == IF c >= X10Offset THEN c - X10Offset ELSE c
X10Mouse(b) == MouseEvent(X10Button(b[4]), b[5] - X10Offset - 1, b[6] - X10Offset - 1,
                          ButtonOf(X10Button(b[4])) = MouseNone)

-----------------------------------------------------------------------------
\* Answers.
Known(ps, i) == Param(ps, i, Missing) # Missing
ModeReport(dec, ps) ==
  IF Known(ps, 0) /\ Known(ps, 1)
  THEN [type |-> "ModeReport", dec |-> dec, mode |-> ps[1].v, value |-> ps[2].v] ELSE Unknown
DeviceAttributes(ps) ==
  [type |-> "DeviceAttributes", attrs |-> [k \in DOMAIN ps |-> IF ps[k].more THEN 0 ELSE Param(ps, k - 1, 0)]]
CursorPosition(ps) == [type |-> "CursorPosition", y |-> Param(ps, 0, 1) - 1, x |-> Param(ps, 1, 1) - 1]

\* A report from the first row may be a modified F3: it is taken for both.
F3Mods == 0..(ModMeta + ModCtrl + ModAlt + ModShift)
CprOrF3(ps) ==
  CASE Len(ps) = 2 /\ CursorPosition(ps).y = 0 /\ CursorPosition(ps).x \in F3Mods ->
         [type |-> "Multi", events |-> <<Press(Key(F(3), CursorPosition(ps).x)), CursorPosition(ps)>>]
    [] Len(ps) = 2 /\ ~(CursorPosition(ps).y = 0 /\ CursorPosition(ps).x \in F3Mods) -> CursorPosition(ps)
    [] ps = <<>> -> LetterEvent(ps, LetterKey(Ch.R))
    [] OTHER -> Unknown
WindowOp(ps) == [type |-> "WindowOp", op |-> Param(ps, 0, 0),
                 args |-> [k \in 1..(Len(ps) - 1) |-> Param(ps, k, 0)]]

CsiAnswer(h) ==
  CASE h.final = Ch.y /\ h.inter = Dollar -> ModeReport(h.prefix = 63, h.ps)
    [] h.final = Ch.c /\ h.inter = 0 -> DeviceAttributes(h.ps)
    [] h.final = Ch.u /\ h.inter = 0 /\ Known(h.ps, 0) -> [type |-> "KittyFlags", flags |-> h.ps[1].v]
    [] h.final = Ch.R /\ h.inter = 0 /\ Len(h.ps) > 1 -> CursorPosition(h.ps)
    [] OTHER -> Unknown
CsiPlain(h) ==
  CASE h.final = Ch.I -> Event("Focus")
    [] h.final = Ch.O -> Event("Blur")
    [] h.final = Ch.R -> CprOrF3(h.ps)
    [] h.final \in Letters \ {Ch.R} -> LetterEvent(h.ps, LetterKey(h.final))
    [] h.final = Ch.u -> IF h.ps = <<>> THEN Unknown ELSE ParseKittyKeyboard(h.ps)
    [] h.final \in {Tilde, 94, 64} -> TildeEvent(h.ps, h.final)
    [] h.final = Ch.t /\ h.ps # <<>> -> WindowOp(h.ps)
    [] OTHER -> Unknown
CsiEvent(h) ==
  CASE h.prefix = 63 -> CsiAnswer(h)
    [] h.prefix = 60 /\ h.final \in {Ch.m, Ch.M} /\ h.inter = 0 /\ Len(h.ps) = 3 -> SgrMouse(h)
    [] h.prefix = 62 /\ h.final = Ch.m /\ h.inter = 0 /\ Param(h.ps, 0, 0) = 4 /\ Known(h.ps, 1) ->
         [type |-> "ModifyOtherKeys", value |-> h.ps[2].v % 256]
    [] h.prefix = 0 /\ h.inter = Dollar /\ h.final = Ch.y -> ModeReport(FALSE, h.ps)
    [] h.prefix = 0 /\ h.inter = 0 -> CsiPlain(h)
    [] OTHER -> Unknown

IsX10(h) == h.final = Ch.M /\ h.prefix = 0 /\ h.inter = 0
X10(b, i) == IF i + 3 > Len(b) THEN Read(i, Unknown) ELSE Read(i + 3, X10Mouse(b))

\* URxvt ends the keys pressed with shift in a dollar, which ends no sequence.
Shifted(r, n) == IF r.ev.type = "KeyPress"
                 THEN Read(r.n, Press([r.ev.key EXCEPT !.mod = Add(@, ModShift)])) ELSE Read(n, Unknown)
CsiOf(b, h) ==
  CASE IsFinal(h.final) -> IF IsX10(h) THEN X10(b, h.i + 1) ELSE Read(h.i + 1, CsiEvent(h))
    [] ~IsFinal(h.final) /\ At(b, h.i - 1) = Dollar ->
         LET t == Between(b, 0, h.i - 1) \o <<Tilde>>
             th == Header(t, AfterIntro(t, C1.Csi, 91))
         IN Shifted(Read(th.i + 1, CsiEvent(th)), h.i)
    [] OTHER -> Read(h.i, Unknown)
ParseCsi(b) ==
  IF OnlyIntro(b) THEN Read(2, Press([Key(0, ModAlt) EXCEPT !.text = <<91>>]))
  ELSE CsiOf(b, Header(b, AfterIntro(b, C1.Csi, 91)))

-----------------------------------------------------------------------------
\* SS3: a letter, and before it the modifiers as a number.
RECURSIVE Number(_)
Number(ds) == IF ds = <<>> THEN 0 ELSE 10 * Number(Front(ds)) + (Last(ds) - 48)

Ss3Letters == Ch.A..Ch.F \cup Ch.a..Ch.d \cup {Ch.H, Ch.M, Ch.X} \cup Ch.P..Ch.S \cup Ch.j..Ch.y
Ss3Key(l) == CASE l \in Ch.a..Ch.d -> Key(ArrowOf(l), ModCtrl)
               [] l = Ch.M -> Key(Named.KpEnter, 0)
               [] l = Ch.X -> Key(Named.KpEqual, 0)
               [] l \in Ch.j..Ch.y -> Key(Named.KpMultiply + l - Ch.j, 0)
               [] OTHER -> LetterKey(l)
Ss3Mod(k, m) == IF m > 0 THEN [k EXCEPT !.mod = Add(m - 1, @)] ELSE k
Ss3Of(b, i, j) ==
  CASE At(b, j) \notin 33..126 -> Read(j, Unknown)
    [] At(b, j) \in Ss3Letters -> Read(j + 1, Press(Ss3Mod(Ss3Key(b[j + 1]), Number(Between(b, i, j)))))
    [] OTHER -> Read(j + 1, Unknown)
Ss3From(b, i) == Ss3Of(b, i, Past(b, i, 48..57))
ParseSs3(b) == IF OnlyIntro(b) THEN Read(2, Press(Key(b[2], ModAlt)))
               ELSE Ss3From(b, AfterIntro(b, C1.Ss3, Ch.O))

-----------------------------------------------------------------------------
\* Strings, up to an ST. When the ESC that ends one starts no ST it was
\* cancelled; when nothing was in it, it was a key pressed with Alt.
Stopped(b, end, stop, empty, altKey, ev) ==
  CASE end >= Len(b) -> Read(Len(b), Unknown)
    [] At(b, end) \in {Can, Sub} -> Read(end + 1, Unknown)
    [] At(b, end) = Esc /\ At(b, end + 1) # 92 -> IF empty THEN Read(2, Press(altKey)) ELSE Read(end + 1, Unknown)
    [] OTHER -> Read(IF At(b, end) = Esc THEN end + 2 ELSE end + 1, ev)

Semis(d) == {k \in DOMAIN d: d[k] = Semicolon}
Clipboard(d) ==
  IF Cardinality(Semis(d)) = 1 /\ Min(Semis(d)) > 1 /\ (Len(d) - Min(Semis(d))) % 4 = 0
  THEN [type |-> "Clipboard", selection |-> d[1], base64 |-> From(d, Min(Semis(d)))] ELSE Unknown
OscEvent(cmd, d) ==
  CASE d = <<>> -> Unknown
    [] cmd \in {10, 11, 12} /\ d # <<>> -> [type |-> "Color", of |-> cmd, spec |-> d]
    [] cmd = 52 /\ d # <<>> -> Clipboard(d)
    [] OTHER -> Unknown
OscOf(b, cmd, start, end) ==
  Stopped(b, end, Esc, cmd = -1 \/ (start = 0 /\ end = 2), Key(At(b, 1), ModAlt),
          OscEvent(cmd, IF end <= start THEN <<>> ELSE Between(b, start, end)))
OscData(b, i, j) ==
  LET semi == At(b, j) = Semicolon
  IN OscOf(b, IF j = i THEN -1 ELSE Number(Between(b, i, j)), IF semi THEN j + 1 ELSE 0,
           Until(b, IF semi THEN j + 1 ELSE j, {Bel, Esc, C1.St, Can, Sub}))
OscFrom(b, i) == OscData(b, i, Past(b, i, 48..57))
ParseOsc(b) == IF OnlyIntro(b) THEN Read(2, Press(Key(b[2], ModAlt)))
               ELSE OscFrom(b, AfterIntro(b, C1.Osc, 93))

StAltKey(b, c1) == IF c1 = C1.Sos THEN Key(Ch.x, ModShift + ModAlt) ELSE Key(At(b, 1), ModAlt)
ApcEvent(c1, d) == IF c1 = C1.Apc /\ d # <<>> /\ At(d, 0) = 71 THEN Event("KittyGraphics") ELSE Unknown
StOf(b, c1, start, end) ==
  Stopped(b, end, Esc, start = end, StAltKey(b, c1), ApcEvent(c1, Between(b, start, end)))
StFrom(b, c1, start) == StOf(b, c1, start, Until(b, start, {Esc, C1.St, Can, Sub}))
ParseSt(b, c1, seven) == IF OnlyIntro(b) THEN Read(2, Press(StAltKey(b, c1)))
                         ELSE StFrom(b, c1, AfterIntro(b, c1, seven))

\* A device control string ends at any ESC, whatever follows it.
DcsEvent(h, d) ==
  CASE h.final = Ch.r /\ h.inter = 43 /\ h.prefix = 0 /\ Param(h.ps, 0, 0) = 1 -> [type |-> "Capability", hex |-> d]
    [] h.final = 124 /\ h.inter = 0 /\ h.prefix = 62 -> [type |-> "TerminalVersion", name |-> d]
    [] OTHER -> Unknown
\* A slip: an ESC is taken for an ST that is all there.
WholeSt(b, end) == end + 2
DcsEnd(b, end) == CASE At(b, end) = Esc /\ At(b, end + 1) = 92 -> end + 2
                    [] OTHER -> end + 1
DcsOf(b, h, end) == IF end >= Len(b) THEN Read(Len(b), Unknown)
                    ELSE Read(DcsEnd(b, end), DcsEvent(h, Between(b, h.i + 1, end)))
DcsFrom(b, h) == IF IsFinal(h.final) THEN DcsOf(b, h, Until(b, h.i + 1, {C1.St, Esc})) ELSE Read(h.i, Unknown)
ParseDcs(b) == IF OnlyIntro(b) THEN Read(2, Press(Key(Ch.p, ModShift + ModAlt)))
               ELSE DcsFrom(b, Header(b, AfterIntro(b, C1.Dcs, Ch.P)))

-----------------------------------------------------------------------------
Introduces(b, c1, seven) == b[1] = c1 \/ (b[1] = Esc /\ At(b, 1) = seven)
WithAlt(r) ==
  IF r.ev.type = "KeyPress"
  THEN Read(r.n + 1, Press([r.ev.key EXCEPT !.text = <<>>, !.mod = Add(@, ModAlt)]))
  ELSE Read(1, Press(Key(Named.Escape, 0)))

\* The first sequence of the bytes, which are some.
RECURSIVE ParseSequence(_)
ParseSequence(b) ==
  CASE b = <<Esc>> -> Read(1, Press(Key(Named.Escape, 0)))
    [] Introduces(b, C1.Ss3, Ch.O) -> ParseSs3(b)
    [] Introduces(b, C1.Dcs, Ch.P) -> ParseDcs(b)
    [] Introduces(b, C1.Csi, 91) -> ParseCsi(b)
    [] Introduces(b, C1.Osc, 93) -> ParseOsc(b)
    [] Introduces(b, C1.Apc, 95) -> ParseSt(b, C1.Apc, 95)
    [] Introduces(b, C1.Pm, 94) -> ParseSt(b, C1.Pm, 94)
    [] Introduces(b, C1.Sos, Ch.X) -> ParseSt(b, C1.Sos, Ch.X)
    [] b[1] = Esc /\ At(b, 1) \notin {-1, Ch.O, Ch.P, 91, 93, 94, 95, Ch.X} -> WithAlt(ParseSequence(Tail(b)))
    [] b[1] \in 0..32 \cup {Del} /\ b[1] # Esc -> Read(1, ParseControl(b[1]))
    [] b[1] \in 128..159 \ (Range(C1) \ {C1.St}) -> Read(1, Press(Key(b[1] - 64, ModCtrl + ModAlt)))
    [] OTHER -> ParseUtf8(b)
=============================================================================
