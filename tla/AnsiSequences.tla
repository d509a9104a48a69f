---------------------------- MODULE AnsiSequences ----------------------------
(***************************************************************************)
(* The sequences the ansi package writes for a program, byte by byte. Each *)
(* is named after the function or the constant that gives it.              *)
(***************************************************************************)
EXTENDS KeyCodes

\* A number is left out when the terminal would take it for that anyway.
One(n) == IF n > 1 THEN Itoa(n) ELSE <<>>
Zero(n) == IF n > 0 THEN Itoa(n) ELSE <<>>
\* A slip: the number two is left out as well.
TwoLeftOut(n) == IF n > 2 THEN Itoa(n) ELSE <<>>
Number1(n) == One(n)

Ended(body, final) == Csi \o body \o <<final>>
Pair(a, b, final) == Ended(a \o <<Semicolon>> \o b, final)
Join(parts, sep) == IF parts = <<>> THEN <<>>
                    ELSE FoldLeft(LAMBDA all, p: all \o <<sep>> \o p, Head(parts), Tail(parts))
Numbers(ns, sep) == Join([k \in DOMAIN ns |-> Itoa(ns[k])], sep)

-----------------------------------------------------------------------------
\* The cursor.
SaveCursor == <<Esc, 55>>
RestoreCursor == <<Esc, 56>>
RequestCursorPosition == Ended(<<54>>, Ch.n)
RequestExtendedCursorPosition == Ended(<<Question, 54>>, Ch.n)
CursorUp(n) == Ended(Number1(n), Ch.A)
CursorDown(n) == Ended(Number1(n), Ch.B)
CursorForward(n) == Ended(Number1(n), Ch.C)
CursorBackward(n) == Ended(Number1(n), Ch.D)
CursorNextLine(n) == Ended(Number1(n), Ch.E)
CursorPreviousLine(n) == Ended(Number1(n), Ch.F)
CursorHorizontalAbsolute(col) == Ended(Zero(col), Ch.G)
CursorHomePosition == Ended(<<>>, Ch.H)
CursorPositionSeq(col, row) ==
  IF row <= 1 /\ col <= 1 THEN CursorHomePosition ELSE Pair(Zero(row), Zero(col), Ch.H)
SetCursorPosition(col, row) ==
  IF row <= 0 /\ col <= 0 THEN CursorHomePosition ELSE Pair(Zero(row), Zero(col), Ch.H)
CursorHorizontalForwardTab(n) == Ended(Number1(n), Ch.I)
CursorBackwardTab(n) == Ended(Number1(n), Ch.Z)
VerticalPositionAbsolute(row) == Ended(Zero(row), Ch.d)
VerticalPositionRelative(n) == Ended(Number1(n), Ch.e)
HorizontalVerticalPosition(col, row) == Pair(Zero(row), Zero(col), Ch.f)
HorizontalPositionAbsolute(col) == Ended(Zero(col), 96)
HorizontalPositionRelative(n) == Ended(Zero(n), Ch.a)
SaveCurrentCursorPosition == Ended(<<>>, Ch.s)
RestoreCurrentCursorPosition == Ended(<<>>, Ch.u)
SetCursorStyle(style) == Ended(Itoa(IF style < 0 THEN 0 ELSE style) \o <<32>>, Ch.q)
ReverseIndex == <<Esc, Ch.M>>
Index == <<Esc, Ch.D>>

-----------------------------------------------------------------------------
\* The screen.
EraseCharacter(n) == Ended(Number1(n), Ch.X)
EraseDisplay(n) == Ended(Zero(n), Ch.J)
EraseLine(n) == Ended(Zero(n), Ch.K)
ScrollUp(n) == Ended(Number1(n), Ch.S)
ScrollDown(n) == Ended(Number1(n), Ch.T)
InsertLine(n) == Ended(Number1(n), Ch.L)
DeleteLine(n) == Ended(Number1(n), Ch.M)
SetTopBottomMargins(top, bot) == Pair(Zero(top), Zero(bot), Ch.r)
SetLeftRightMargins(left, right) == Pair(Zero(left), Zero(right), Ch.s)
SetScrollingRegion(t, b) == Pair(Itoa(IF t < 0 THEN 0 ELSE t), Itoa(IF b < 0 THEN 0 ELSE b), Ch.r)
InsertCharacter(n) == Ended(Number1(n), 64)
DeleteCharacter(n) == Ended(Number1(n), Ch.P)
SetTabEvery8Columns == Ended(<<Question, 53>>, Ch.W)
HorizontalTabSet == <<Esc, Ch.H>>
TabClear(n) == Ended(Zero(n), Ch.g)
RepeatPreviousCharacter(n) == Ended(Number1(n), Ch.b)
ResetInitialState == <<Esc, Ch.c>>
KeypadApplicationMode == <<Esc, 61>>
KeypadNumericMode == <<Esc, 62>>
SelectCharacterSet(gset, charset) == <<Esc, gset, charset>>
LS1R == <<Esc, Tilde>>
LS2 == <<Esc, Ch.n>>
LS2R == <<Esc, 125>>
LS3 == <<Esc, Ch.o>>
LS3R == <<Esc, 124>>

-----------------------------------------------------------------------------
\* Modes. DEC's have a question mark; of a list, they come in a sequence of
\* their own, after the others.
DEC(n) == [dec |-> TRUE, n |-> n]
ANSI(n) == [dec |-> FALSE, n |-> n]
Private(dec) == IF dec THEN <<Question>> ELSE <<>>
ModesOf(modes, dec) == SelectSeq(modes, LAMBDA m: m.dec = dec)
ModeList(ms, dec, final) ==
  IF ms = <<>> THEN <<>> ELSE Ended(Private(dec) \o Numbers([k \in DOMAIN ms |-> ms[k].n], Semicolon), final)
\* A slip: all the modes in one sequence, of the kind the first has.
OneSequence(modes, final) == ModeList(modes, modes[1].dec, final)
ModeSequences(modes, final) ==
  ModeList(ModesOf(modes, FALSE), FALSE, final) \o ModeList(ModesOf(modes, TRUE), TRUE, final)
SetMode(modes) == ModeSequences(modes, Ch.h)
ResetMode(modes) == ModeSequences(modes, Ch.l)
RequestMode(m) == Ended(Private(m.dec) \o Itoa(m.n) \o <<Dollar>>, Ch.p)
ReportMode(m, value) ==
  Ended(Private(m.dec) \o Itoa(m.n) \o <<Semicolon>> \o Itoa(IF value > 4 THEN 0 ELSE value) \o <<Dollar>>, Ch.y)

-----------------------------------------------------------------------------
\* What a terminal reports, and what asks it to.
PrimaryDeviceAttributes(attrs) ==
  CASE attrs = <<>> -> Ended(<<>>, Ch.c)
    [] attrs = <<0>> -> Ended(<<48>>, Ch.c)
    [] OTHER -> Ended(<<Question>> \o Numbers(attrs, Semicolon), Ch.c)
SecondaryDeviceAttributes(attrs) == Ended(<<62>> \o Numbers(attrs, Semicolon), Ch.c)
DeviceStatusReport(dec, ns) == Ended(Private(dec) \o Numbers(ns, Semicolon), Ch.n)
Least1(n) == IF n < 1 THEN 1 ELSE n
CursorPositionReport(line, column) == Pair(Itoa(Least1(line)), Itoa(Least1(column)), Ch.R)
ExtendedCursorPositionReport(line, column, page) ==
  Ended(<<Question>> \o Numbers(<<Least1(line), Least1(column)>> \o (IF page < 1 THEN <<>> ELSE <<page>>),
                                Semicolon), Ch.R)
NotNegative(n) == IF n < 0 THEN 0 ELSE n
InBandResize(h, w, hpx, wpx) ==
  Ended(Numbers(<<48, NotNegative(h), NotNegative(w), NotNegative(hpx), NotNegative(wpx)>>, Semicolon), Ch.t)
WindowOpSeq(p, ps) ==
  IF p <= 0 THEN <<>> ELSE Ended(Numbers(<<p>> \o SelectSeq(ps, LAMBDA n: n >= 0), Semicolon), Ch.t)

FocusSeq == Ended(<<>>, Ch.I)
BlurSeq == Ended(<<>>, Ch.O)
BracketedPasteStart == Ended(<<50, 48, 48>>, Tilde)
BracketedPasteEnd == Ended(<<50, 48, 49>>, Tilde)

-----------------------------------------------------------------------------
\* Keyboards.
RequestKittyKeyboard == Ended(<<Question>>, Ch.u)
KittyKeyboard(flags, mode) == Ended(<<61>> \o Numbers(<<flags, mode>>, Semicolon), Ch.u)
PushKittyKeyboard(flags) == Ended(<<62>> \o Zero(flags), Ch.u)
PopKittyKeyboard(n) == Ended(<<60>> \o Zero(n), Ch.u)
KeyModifierOptions(p, vs) ==
  CASE vs = <<>> -> Ended(<<62>> \o Itoa(p), Ch.m)
    [] vs # <<>> /\ vs[1] > 0 -> Ended(<<62>> \o Zero(p) \o <<Semicolon>> \o Itoa(vs[1]), Ch.m)
    [] OTHER -> Ended(<<62>> \o Zero(p), Ch.m)
QueryKeyModifierOptions(pp) == Ended(<<Question>> \o Zero(pp), Ch.m)
ModifyOtherKeysSeq(mode) == Ended(<<62, 52, Semicolon>> \o Itoa(mode), Ch.m)

-----------------------------------------------------------------------------
\* Commands to the operating system, which a BEL ends.
Osc(n, data) == <<Esc, 93>> \o Itoa(n) \o <<Semicolon>> \o data \o <<Bel>>
OscAlone(n) == <<Esc, 93>> \o Itoa(n) \o <<Bel>>
SetIconNameWindowTitle(s) == Osc(0, s)
SetIconName(s) == Osc(1, s)
SetWindowTitle(s) == Osc(2, s)
DECSWT(name) == SetWindowTitle(<<49, Semicolon>> \o name)
NotifyWorkingDirectory(url) == Osc(7, url)
SetHyperlink(uri, params) == Osc(8, params \o <<Semicolon>> \o uri)
SetForegroundColor(s) == Osc(10, s)
SetBackgroundColor(s) == Osc(11, s)
SetCursorColor(s) == Osc(12, s)
ResetForegroundColor == OscAlone(110)
ResetBackgroundColor == OscAlone(111)
ResetCursorColor == OscAlone(112)
=============================================================================
