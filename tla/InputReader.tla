----------------------------- MODULE InputReader -----------------------------
(***************************************************************************)
(* One read of a program that reads its input: readEvents of               *)
(* input/driver.go. What it keeps from one read to the next is the text of *)
(* a paste that has not ended, or that there is none.                      *)
(***************************************************************************)
EXTENDS InputSequences, TLC

-----------------------------------------------------------------------------
(***************************************************************************)
(* The table of key sequences the reader looks in, before the parser and   *)
(* after it, as terminals of the VT100, URxvt and XTerm families have them.*)
(***************************************************************************)

Ss3 == <<Esc, Ch.O>>

Entry(seq, key) == [seq |-> seq, key |-> key]

\* Keys with two names.
Nul == Key(IF "CtrlAt" \in Flags THEN 64 ELSE Named.Space, ModCtrl)
TabKey == IF "CtrlI" \in Flags THEN Key(105, ModCtrl) ELSE Key(Named.Tab, 0)
EnterKey == IF "CtrlM" \in Flags THEN Key(Ch.m, ModCtrl) ELSE Key(Named.Enter, 0)
EscKey == IF "CtrlOpenBracket" \in Flags THEN Key(91, ModCtrl) ELSE Key(Named.Escape, 0)
DelKey == Key(IF "Backspace" \in Flags THEN Named.Delete ELSE Named.Backspace, 0)
FindKey == IF "Find" \in Flags THEN Named.Find ELSE Named.Home
SelectKey == IF "Select" \in Flags THEN Named.Select ELSE Named.End

-----------------------------------------------------------------------------
C0Key(b) == CASE b = 0 -> Nul [] b = 9 -> TabKey [] b = 13 -> EnterKey [] b = Esc -> EscKey
              [] b \in 1..26 \ {9, 13} -> Key(b + 96, ModCtrl)
              [] b \in 28..31 -> Key(b + 64, ModCtrl)
C0Entries == {Entry(<<b>>, C0Key(b)): b \in 0..31}
             \cup {Entry(<<32>>, TextKey(Named.Space, <<32>>)), Entry(<<Del>>, DelKey)}

TildeNumbers == <<1, 2, 3, 4, 5, 6, 7, 8, 11, 12, 13, 14, 15, 17, 18, 19, 20, 21, 23, 24, 25, 26,
                  28, 29, 31, 32, 33, 34>>
TildeCodes == <<FindKey, Named.Insert, Named.Delete, SelectKey, Named.PgUp, Named.PgDown, Named.Home,
                Named.End>> \o [n \in 1..20 |-> F(n)]
CsiLetters == <<Ch.A, Ch.B, Ch.C, Ch.D, Ch.E, Ch.F, Ch.H, Ch.P, Ch.Q, Ch.R, Ch.S>>
CsiCodes == <<Named.Up, Named.Down, Named.Right, Named.Left, Named.Begin, Named.End, Named.Home,
              F(1), F(2), F(3), F(4)>>
KeypadLetters == <<Ch.M, Ch.X>> \o [k \in 1..16 |-> Ch.j + k - 1]
KeypadCodes == <<Named.KpEnter, Named.KpEqual, Named.KpMultiply, Named.KpPlus, Named.KpComma,
                 Named.KpMinus, Named.KpDecimal, Named.KpDivide>> \o [k \in 1..10 |-> Named.Kp0 + k - 1]

Tildes(mid, final, mod) ==
  {Entry(Csi \o Itoa(TildeNumbers[k]) \o mid \o <<final>>, Key(TildeCodes[k], mod)): k \in DOMAIN TildeNumbers}
Cursors(intro, mod) == {Entry(intro \o <<CsiLetters[k]>>, Key(CsiCodes[k], mod)): k \in DOMAIN CsiLetters}
Keypad(intro, mod) == {Entry(intro \o <<KeypadLetters[k]>>, Key(KeypadCodes[k], mod)): k \in DOMAIN KeypadLetters}

VtEntries == {Entry(Csi \o <<Ch.Z>>, Key(Named.Tab, ModShift))} \cup Tildes(<<>>, Tilde, 0)
             \cup Cursors(Csi, 0) \cup Cursors(Ss3, 0) \cup Keypad(Ss3, 0)
UrxvtArrows(intro, mod) == {Entry(intro \o <<Ch.a + k>>, Key(Named.Up + k, mod)): k \in 0..3}
UrxvtEntries == UrxvtArrows(Csi, ModShift) \cup UrxvtArrows(Ss3, ModCtrl) \cup Tildes(<<>>, Dollar, ModShift)
                \cup Tildes(<<>>, 94, ModCtrl) \cup Tildes(<<>>, 64, ModShift + ModCtrl)
PlainEntries == C0Entries \cup VtEntries \cup UrxvtEntries

\* A slip: the ESC without the modifier.
BareAltEntry(e) == Entry(<<Esc>> \o e.seq, [e.key EXCEPT !.text = <<>>])
\* The same with Alt, an ESC before them.
AltEntry(e) == Entry(<<Esc>> \o e.seq, [e.key EXCEPT !.mod = Add(@, ModAlt), !.text = <<>>])

\* XTerm's modifiers are a number, one more than the bits.
XTermMod(m) == Itoa(m + 1)
ModifiedEntries(m) ==
  Cursors(Csi \o <<49, Semicolon>> \o XTermMod(m), m) \cup Keypad(Ss3 \o XTermMod(m), m)
  \cup Tildes(<<Semicolon>> \o XTermMod(m), Tilde, m)
  \cup {Entry(Csi \o Itoa(27) \o <<Semicolon>> \o XTermMod(m) \o <<Semicolon>> \o Itoa(c) \o <<Tilde>>,
              Key(IF c = 8 THEN Named.Backspace ELSE IF c = Del THEN Named.Backspace ELSE c, m)):
          c \in {8, 9, 13, Esc, Del}}

Entries == PlainEntries \cup {AltEntry(e): e \in PlainEntries} \cup UNION {ModifiedEntries(m): m \in 1..15}
\* The table as a relation of sequences and keys.
Table == {<<e.seq, e.key>>: e \in Entries}
Listed == {pair[1]: pair \in Table}
Meaning(seq) == (CHOOSE pair \in Table: pair[1] = seq)[2]

-----------------------------------------------------------------------------
NoPaste == [on |-> FALSE, bytes |-> <<>>]
Pasting(bytes) == [on |-> TRUE, bytes |-> bytes]
ReaderState(paste, events) == [paste |-> paste, events |-> events]

\* What has been pasted, in characters. A byte that belongs to none is dropped.
RECURSIVE Decoded(_)
Decoded(b) ==
  CASE b = <<>> -> <<>>
    [] b # <<>> /\ b[1] < 128 -> <<b[1]>> \o Decoded(Tail(b))
    [] b # <<>> /\ b[1] >= 128 /\ Rune(b, 0) # RuneError -> <<Rune(b, 0)>> \o Decoded(From(b, 2))
    [] OTHER -> Decoded(Tail(b))
PasteText(runes) == [type |-> "Paste", text |-> runes]

LookedUp(ev, bytes) == IF ev.type = "Unknown" /\ bytes \in Listed THEN Press(Meaning(bytes)) ELSE ev
Flat(ev) == IF ev.type = "Multi" THEN ev.events ELSE <<ev>>
PasteAfter(s, ev) == CASE ev.type = "PasteStart" -> Pasting(<<>>)
                       [] ev.type = "PasteEnd" -> NoPaste
                       [] OTHER -> s.paste
\* A slip: the end of a paste is told, and not what was pasted.
NoPasteOf(s, ev) == <<>>
PasteOf(s, ev) == IF ev.type = "PasteEnd" THEN <<PasteText(Decoded(s.paste.bytes))>> ELSE <<>>

\* What a paste has not ended goes on with is its text, byte by byte.
RECURSIVE ReadOn(_, _)
ReadStep(s, b, r) ==
  IF s.paste.on /\ r.ev.type # "PasteEnd"
  THEN ReadOn([s EXCEPT !.paste.bytes = Append(@, b[1])], Tail(b))
  ELSE ReadOn(ReaderState(PasteAfter(s, r.ev),
                          s.events \o PasteOf(s, r.ev) \o Flat(LookedUp(r.ev, Between(b, 0, r.n)))),
              From(b, r.n))
ReadOn(s, b) == IF b = <<>> THEN s ELSE ReadStep(s, b, ParseSequence(b))

\* The whole of what was read is looked up first, when an ESC starts it.
ReadEvents(paste, b) ==
  IF b # <<>> /\ b[1] = Esc /\ b \in Listed THEN ReaderState(paste, <<Press(Meaning(b))>>)
  ELSE ReadOn(ReaderState(paste, <<>>), b)
=============================================================================
