----------------------------- MODULE VtCommands ------------------------------
(***************************************************************************)
(* What the emulator makes of the bytes a program writes: the commands its *)
(* parser dispatches, read by the handlers registered for them, and what   *)
(* those do to the terminal's modes, titles, colours and character sets    *)
(* and write back to the program. What they do to the screen is VtCursor.  *)
(***************************************************************************)
EXTENDS AnsiSequences, InputSequences, TLC

CONSTANTS DataSize, ColorSpecs    \* the colours that have a name

P == INSTANCE AnsiParser WITH ParamsSize <- MaxParamsSize

\* A parameter as a handler takes it.
Given(ps, i, def) == IF i > Len(ps) \/ ps[i].v = Missing THEN def ELSE ps[i].v
Op(name, args) == [op |-> name, args |-> args]
Nothing == Op("unhandled", <<>>)

\* Commands by their final bytes: with a count, with a choice, with a place.
Counted == [ICH |-> 64, CUU |-> Ch.A, CUD |-> Ch.B, CUF |-> Ch.C, CUB |-> Ch.D, CNL |-> Ch.E,
            CPL |-> Ch.F, CHA |-> Ch.G, CHT |-> Ch.I, IL |-> Ch.L, DL |-> Ch.M, DCH |-> Ch.P,
            SU |-> Ch.S, SD |-> Ch.T, ECH |-> Ch.X, CBT |-> Ch.Z, HPA |-> 96, HPR |-> Ch.a,
            REP |-> Ch.b, VPA |-> Ch.d, VPR |-> Ch.e, DSR |-> Ch.n]
Chosen == [ED |-> Ch.J, EL |-> Ch.K, TBC |-> Ch.g, DA1 |-> Ch.c]
Placed == [CUP |-> Ch.H, HVP |-> Ch.f]
NameIn(table, final) == CHOOSE name \in DOMAIN table: table[name] = final

ModesIn(dec, ps) == [k \in DOMAIN ps |-> [dec |-> dec, n |-> Given(ps, k, Missing)]]
Margins(name, ps) == Op(name, <<Least1(Given(ps, 1, 1)), NotNegative(Given(ps, 2, 0))>>)
PlainCommand(final, ps) ==
  CASE final \in Range(Counted) -> Op(NameIn(Counted, final), <<Given(ps, 1, 1)>>)
    [] final \in Range(Chosen) -> Op(NameIn(Chosen, final), <<Given(ps, 1, 0)>>)
    [] final \in Range(Placed) -> Op(NameIn(Placed, final), <<Given(ps, 1, 1), Given(ps, 2, 1)>>)
    [] final = Ch.h -> Op("SM", ModesIn(FALSE, ps))
    [] final = Ch.l -> Op("RM", ModesIn(FALSE, ps))
    [] final = Ch.m -> Op("SGR", ps)
    [] final = Ch.r -> Margins("DECSTBM", ps)
    [] final = Ch.s -> Margins("DECSLRM or SCOSC", ps)
    [] OTHER -> Nothing
PrivateCommand(final, ps) ==
  CASE final = Ch.h -> Op("SM", ModesIn(TRUE, ps))
    [] final = Ch.l -> Op("RM", ModesIn(TRUE, ps))
    [] final = Ch.n -> Op("DECXCPR", <<Given(ps, 1, 1)>>)
    [] final = Ch.W /\ Len(ps) = 1 /\ Given(ps, 1, 0) = 5 -> Op("DECST8C", <<>>)
    [] OTHER -> Nothing
\* The style of the cursor starts at one, whatever was asked for below it.
ShapeOf(n) == IF n > 1 THEN n ELSE 1
CsiCommand(prefix, inter, final, ps) ==
  CASE prefix = 0 /\ inter = 0 -> PlainCommand(final, ps)
    [] prefix = Question /\ inter = 0 -> PrivateCommand(final, ps)
    [] prefix = 62 /\ inter = 0 /\ final = Ch.c -> Op("DA2", <<Given(ps, 1, 0)>>)
    [] prefix \in {0, Question} /\ inter = Dollar /\ final = Ch.p ->
         Op("DECRQM", <<[dec |-> prefix = Question, n |-> Given(ps, 1, 0)]>>)
    [] prefix = 0 /\ inter = 32 /\ final = Ch.q -> Op("DECSCUSR", <<ShapeOf(Given(ps, 1, 0))>>)
    [] OTHER -> Nothing

Escapes == [DECSC |-> 55, DECRC |-> 56, DECKPAM |-> 61, DECKPNM |-> 62, IND |-> Ch.D, HTS |-> Ch.H,
            RI |-> Ch.M, RIS |-> Ch.c, LS2 |-> Ch.n, LS3 |-> Ch.o, LS3R |-> 124, LS2R |-> 125,
            LS1R |-> Tilde]
CharSetIds == [UK |-> Ch.A, ASCII |-> Ch.B, Special |-> 48]
EscCommand(inter, final) ==
  CASE inter = 0 /\ final \in Range(Escapes) -> Op(NameIn(Escapes, final), <<>>)
    [] inter \in 40..43 /\ final \in Range(CharSetIds) -> Op("SCS", <<inter - 40, NameIn(CharSetIds, final)>>)
    [] OTHER -> Nothing

\* Control characters. Of the loop over the first of them, SO and SI are not in
\* the range, and neither is a handler for them.
Controls == [BEL |-> {Bel}, BS |-> {8}, HT |-> {9}, LF |-> {10, 11, 12}, CR |-> {13}, HTS |-> {136},
             RI |-> {141}, IND |-> {132}, SS2 |-> {142}, SS3 |-> {143}]
Control(b) == IF \E name \in DOMAIN Controls: b \in Controls[name]
              THEN Op(CHOOSE name \in DOMAIN Controls: b \in Controls[name], <<>>) ELSE Nothing

Understood(e) ==
  CASE e[1] = "csi" -> CsiCommand(P!ByteAt(e[2], 1), P!ByteAt(e[2], 2), P!ByteAt(e[2], 0), e[3])
    [] e[1] = "esc" -> EscCommand(P!ByteAt(e[2], 2), P!ByteAt(e[2], 0))
    [] e[1] = "osc" -> Op("OSC", <<e[2], e[3]>>)
    [] e[1] = "Execute" -> Control(e[2])
    [] e[1] = "Print" -> Op("print", <<e[2]>>)
    [] OTHER -> Nothing
Commands(bytes) == LET out == P!Feed(P!NewParser, bytes).out IN [k \in DOMAIN out |-> Understood(out[k])]

-----------------------------------------------------------------------------
\* The modes.
ModeNotRecognized == 0
ModeSet == 1
ModeReset == 2
ModePermanentlySet == 3
ModePermanentlyReset == 4
IsSet(setting) == setting \in {ModeSet, ModePermanentlySet}
Permanent(setting) == setting \in {ModePermanentlySet, ModePermanentlyReset}

ModeCursorKeys == DEC(1)
ModeOrigin == DEC(6)
ModeAutoWrap == DEC(7)
ModeMouseX10 == DEC(9)
ModeLineFeedNewLine == ANSI(20)
ModeTextCursorEnable == DEC(25)
ModeNumericKeypad == DEC(66)
ModeLeftRightMargin == DEC(69)
ModeMouseNormal == DEC(1000)
ModeMouseHighlight == DEC(1001)
ModeMouseButtonEvent == DEC(1002)
ModeMouseAnyEvent == DEC(1003)
ModeFocusEvent == DEC(1004)
ModeMouseExtSgr == DEC(1006)
ModeAltScreen == DEC(1047)
ModeSaveCursor == DEC(1048)
ModeAltScreenSaveCursor == DEC(1049)
ModeBracketedPaste == DEC(2004)
ModeInBandResize == DEC(2048)

ResetByDefault == {ModeCursorKeys, ModeOrigin, ModeMouseX10, ModeLineFeedNewLine, ModeNumericKeypad,
                   ModeLeftRightMargin, ModeMouseNormal, ModeMouseHighlight, ModeMouseButtonEvent,
                   ModeMouseAnyEvent, ModeFocusEvent, ModeMouseExtSgr, ModeAltScreen, ModeSaveCursor,
                   ModeAltScreenSaveCursor, ModeBracketedPaste}
DefaultModes == [m \in ResetByDefault |-> ModeReset] @@ [m \in {ModeAutoWrap, ModeTextCursorEnable} |-> ModeSet]
Setting(t, m) == IF m \in DOMAIN t.modes THEN t.modes[m] ELSE ModeNotRecognized
IsModeSet(t, m) == IsSet(Setting(t, m))

-----------------------------------------------------------------------------
\* The terminal. What it writes to the program is in wire, write by write.
NewTerm(w, h) ==
  [modes |-> DefaultModes, x |-> 0, y |-> 0, w |-> w, h |-> h, wire |-> <<>>,
   title |-> <<>>, icon |-> <<>>, cwd |-> <<>>, link |-> <<>>, colors |-> [c \in 10..12 |-> <<>>],
   sets |-> [g \in 0..3 |-> "ASCII"], gl |-> 0, gr |-> 0, single |-> 0, shown |-> <<>>]
Write(t, bytes) == [t EXCEPT !.wire = Append(@, bytes)]

SizeReport(t) == InBandResize(t.h, t.w, 0, 0)
PutMode(t, m, setting) == [t EXCEPT !.modes = (m :> setting) @@ @]
ChangeMode(t, m, setting) ==
  IF m = ModeInBandResize /\ IsSet(setting) THEN Write(PutMode(t, m, setting), SizeReport(t)) ELSE PutMode(t, m, setting)
HandleMode(t, m, setting) == IF m.n = Missing \/ Permanent(Setting(t, m)) THEN t ELSE ChangeMode(t, m, setting)
HandleModes(t, modes, setting) == FoldLeft(LAMBDA u, m: HandleMode(u, m, setting), t, modes)
HandleRequestMode(t, m) == IF m.n = 0 THEN t ELSE Write(t, ReportMode(m, Setting(t, m)))

\* The place of a command, on the screen.
Place2(t, row, col) ==
  [t EXCEPT !.x = Min({t.w - 1, Least1(col) - 1}), !.y = Min({t.h - 1, Least1(row) - 1})]

FullReset(t) == [NewTerm(t.w, t.h) EXCEPT !.wire = t.wire, !.title = t.title, !.icon = t.icon, !.cwd = t.cwd,
                                          !.colors = t.colors, !.shown = t.shown, !.gr = 1]

\* Commands to the operating system come with their number, and what is between
\* semicolons is one part.
Parts(d) == Cardinality(Semis(d)) + 1
Second(d) == Between(d, Min(Semis(d)), IF Parts(d) = 2 THEN Len(d) ELSE Max(Semis(d)) - 1)
Third(d) == From(d, Max(Semis(d)))
HandleTitle(t, cmd, d) ==
  IF Parts(d) # 2 THEN t
  ELSE [t EXCEPT !.title = IF cmd \in {0, 2} THEN Second(d) ELSE @, !.icon = IF cmd \in {0, 1} THEN Second(d) ELSE @]
DefaultColor == [c \in 10..12 |-> IF c = 11 THEN <<Ch.k>> ELSE <<Ch.w>>]
ColorOf(t, c) == IF t.colors[c] = <<>> THEN DefaultColor[c] ELSE t.colors[c]
HandleDefaultColor(t, cmd, d) ==
  CASE Parts(d) = 1 /\ cmd \in 110..112 -> [t EXCEPT !.colors[cmd - 100] = DefaultColor[cmd - 100]]
    [] Parts(d) = 1 /\ cmd \in 10..12 -> [t EXCEPT !.colors[cmd] = DefaultColor[cmd]]
    [] Parts(d) = 2 /\ Second(d) = <<Question>> ->
         IF cmd \in 10..12 THEN Write(t, Osc(cmd, ColorOf(t, cmd))) ELSE t
    [] Parts(d) = 2 /\ Second(d) \in ColorSpecs -> [t EXCEPT !.colors[IF cmd > 12 THEN cmd - 100 ELSE cmd] = Second(d)]
    [] OTHER -> t
HandleOsc(t, cmd, d) ==
  CASE cmd \in 0..2 -> HandleTitle(t, cmd, d)
    [] cmd = 7 -> IF Parts(d) = 2 THEN [t EXCEPT !.cwd = Second(d)] ELSE t
    [] cmd = 8 -> IF Parts(d) = 3 THEN [t EXCEPT !.link = <<Second(d), Third(d)>>] ELSE t
    [] cmd \in 10..12 \cup 110..112 -> HandleDefaultColor(t, cmd, d)
    [] OTHER -> t

\* A character is shown as its set has it. A single shift is for the next one.
SetInUse(t) == IF t.single \in {2, 3} THEN t.sets[t.single] ELSE t.sets[t.gl]
Shifts == [LS2 |-> 2, LS3 |-> 3]
RightShifts == [LS1R |-> 1, LS2R |-> 2, LS3R |-> 3]
\* A slip: the single shift stays.
ShowAndShift(t, c) == [t EXCEPT !.shown = Append(@, <<SetInUse(t), c>>)]
ShowChar(t, c) == [t EXCEPT !.shown = Append(@, <<SetInUse(t), c>>), !.single = 0]

Report(t, o) ==
  CASE o.op = "DA1" /\ o.args = <<0>> -> Write(t, PrimaryDeviceAttributes(<<62, 1, 6, 22>>))
    [] o.op = "DA2" /\ o.args = <<0>> -> Write(t, SecondaryDeviceAttributes(<<1, 10, 0>>))
    [] o.op = "DSR" /\ o.args = <<5>> -> Write(t, DeviceStatusReport(TRUE, <<0>>))
    [] o.op = "DSR" /\ o.args = <<6>> -> Write(t, CursorPositionReport(t.y + 1, t.x + 1))
    [] o.op = "DECXCPR" /\ o.args = <<6>> -> Write(t, ExtendedCursorPositionReport(t.y + 1, t.x + 1, 0))
    [] OTHER -> t
Obey(t, o) ==
  CASE o.op = "SM" -> HandleModes(t, o.args, ModeSet)
    [] o.op = "RM" -> HandleModes(t, o.args, ModeReset)
    [] o.op = "DECRQM" -> HandleRequestMode(t, o.args[1])
    [] o.op \in {"DECKPAM", "DECKPNM"} -> ChangeMode(t, ModeNumericKeypad, IF o.op = "DECKPAM" THEN ModeSet ELSE ModeReset)
    [] o.op \in {"CUP", "HVP"} -> Place2(t, o.args[1], o.args[2])
    [] o.op = "RIS" -> FullReset(t)
    [] o.op = "OSC" -> HandleOsc(t, o.args[1], o.args[2])
    [] o.op = "SCS" -> [t EXCEPT !.sets[o.args[1]] = o.args[2]]
    [] o.op \in DOMAIN Shifts -> [t EXCEPT !.gl = Shifts[o.op]]
    [] o.op \in DOMAIN RightShifts -> [t EXCEPT !.gr = RightShifts[o.op]]
    [] o.op \in {"SS2", "SS3"} -> [t EXCEPT !.single = IF o.op = "SS2" THEN 2 ELSE 3]
    [] o.op = "print" -> ShowChar(t, o.args[1])
    [] OTHER -> Report(t, o)

\* One write of a program.
WriteTo(t, bytes) == FoldLeft(Obey, t, Commands(bytes))
=============================================================================
