---------------------------- MODULE MCCellRender ----------------------------
\* Programs for TLC: what they draw and call, on terminals of each kind.
EXTENDS CellRender

\* A row is written as a string: "#" is a space with a background, "A" an a
\* with one, "i" a bold space, and "." the second half of a wide character.
Glyph(ch) ==
  CASE ch = "A" -> Cell("a", "bg") [] ch = "#" -> Cell(" ", "bg")
    [] ch = "i" -> Cell(" ", "bold") [] ch = "." -> EmptyCell [] OTHER -> Cell(ch, "none")
Row(str) == [x \in 0..(Len(str) - 1) |-> Glyph(SubSeq(str, x + 1, x + 1))]
Frame(rows) == [y \in 0..(Len(rows) - 1) |-> Row(rows[y + 1])]
Lines(strings) == {Frame(<<str>>) : str \in strings}

\* screen.go, xtermCaps: xterm and others, linux, and an unknown terminal.
Xterm == {"vpa", "hpa", "cht", "cbt", "rep", "ech", "ich", "sd", "su"}
Linux == {"vpa", "hpa", "ech", "ich"}
Unknown == {}

Options(alt, caps, tabs) ==
  [alt |-> alt, caps |-> caps, relative |-> ~alt, hardTabs |-> tabs, backspace |-> tabs]
Inline(caps, frames, calls) ==
  [options |-> Options(FALSE, caps, FALSE), frames |-> frames, calls |-> calls, rows |-> 6, row |-> 2]
FullScreen(caps, frames, calls) ==
  [options |-> Options(TRUE, caps, FALSE), frames |-> frames, calls |-> calls, rows |-> 0, row |-> 0]

\* One row: text, blanks and backgrounds that move, grow and shrink.
Edited ==
  {"abcdefgh", "bcdefgh ", "xabcdefg", "abcxyzgh", "aaaaaaaa", "aaaaaaa ", "      ab",
   "a      b", "ab  cd  ", "########", "ab######", "######ab", "AAAAAAAa", "abcd    ", "iiiiiiab",
   "#      #", "efgh  i ", "bbbbbb  "}
Short == {str \in {a \o b \o c : a, b, c \in {" ", "a", "#"}} : str # "   "}
Long == {"abcdefghjkl ", "          ab", "a          b", "ab       cde", "x##########x", "abcdefghyxxx"}
WideCharacters == {"W.cdefgh", "abW.efgh", "  W.  ab", "xW.cdefg"}

\* Two and three rows, on a terminal with rows above them and below.
Few == {Frame(<<"abcd", "de  ">>), Frame(<<"xy c", "z   ">>)}
FewSizes == Few \union {Frame(<<"abcd", "defg", "ghij">>), Frame(<<"xyza", "z   ", "    ">>)}
Tiny == {Frame(<<"ab ", "cd ">>), Frame(<<"b  ", "abc">>)}

\* The whole terminal, which changes its height, and five rows that move.
Windows ==
  {Frame(<<"abc", "def">>), Frame(<<"xy ", "z  ">>), Frame(<<"abc", "   ">>),
   Frame(<<"abc", "def", "ghi">>), Frame(<<"ab ", "c  ", "ef ">>), Frame(<<"   ", "   ", "   ">>)}
FiveRows(str) == [y \in 0..4 |-> [x \in 0..2 |-> Cell(SubSeq(str, y + 1, y + 1), "none")]]
MovingRows == {FiveRows(str) : str \in {"abcde", "bcdef", "cdefg", "hcdef", "abcds", "bcdes", "aabcd", "cdabe"}}

AllPrograms ==
  [edits |-> Inline(Xterm, Lines(Edited), {}),
   editsLinux |-> Inline(Linux, Lines(Edited), {}),
   editsUnknown |-> Inline(Unknown, Lines(Edited), {}),
   shortRows |-> Inline(Xterm, Lines(Short), {}),
   shortUnknown |-> Inline(Unknown, Lines(Short), {}),
   tabs |-> [Inline(Xterm, Lines(Long), {}) EXCEPT !.options = Options(FALSE, Xterm, TRUE)],
   wide |-> Inline(Xterm, Lines(WideCharacters), {}),
   inserts |-> Inline(Xterm, FewSizes, {"above", "resize", "redraw"}),
   switches |-> Inline(Xterm, Few, {"alt", "redraw", "close"}),
   cursors |-> Inline(Xterm, Few, {"cursor", "line", "close"}),
   moves |-> Inline(Xterm, Tiny, {"move"}),
   windows |-> FullScreen(Xterm, Windows, {"resize", "redraw", "close"}),
   scrolls |-> FullScreen(Xterm, MovingRows, {})]

\* An inline screen that is cleared.
ClearedProgram == [clears |-> Inline(Xterm, Lines({"abcd", "    "}), {"above"})]
=============================================================================
