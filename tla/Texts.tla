------------------------------- MODULE Texts --------------------------------
(***************************************************************************)
(* Every text over some tokens, up to a length, grown one token at a time: *)
(* the inputs on which the text functions are compared with what they are  *)
(* for.                                                                    *)
(***************************************************************************)
EXTENDS TextEdit

-----------------------------------------------------------------------------
(***************************************************************************)
(* Text onto cells and back (cellbuf/writer.go): SetContent prints a text  *)
(* into a grid, cutting what does not fit; Print wraps it instead; Render  *)
(* writes a grid as text.  A cell has a character, with the control        *)
(* characters that came before it, its width and a pen; a wide character   *)
(* is followed by a placeholder without content and width.                 *)
(***************************************************************************)

TextCell(s, pen) == [s |-> s, w |-> StringWidth(s), pen |-> pen]
Blank1 == TextCell(<<Space>>, Plain)
Placeholder == TextCell(<<>>, Plain)

Grid(w, h) == [y \in 1..h |-> [x \in 1..w |-> Blank1]]

\* Line.set: a wide character that loses a half leaves spaces, one that does
\* not fit becomes spaces.
Halved(line, x) ==
  LET head == IF line[x].w = 0 THEN x - 1 ELSE x
      space == [line[head] EXCEPT !.s = <<Space>>, !.w = 1]
  IN IF line[head].w < 2 THEN line ELSE [line EXCEPT ![head] = space, ![head + 1] = space]

SetText(line, x, c) ==
  LET put == Halved(line, x)
  IN CASE c.w < 2 -> [put EXCEPT ![x] = c]
       [] c.w > 1 /\ x < Len(line) -> [Halved(put, x + 1) EXCEPT ![x] = c, ![x + 1] = Placeholder]
       [] OTHER -> [put EXCEPT ![x] = TextCell(<<Space>>, c.pen)]

-----------------------------------------------------------------------------
\* printString: where it is, its pen, the grid, and the cell it is making: the
\* control characters that wait for a character.
InGrid(c) == c.x <= Len(c.grid[1]) /\ c.y <= Len(c.grid)
PutCell(c, new) == [c EXCEPT !.grid[c.y] = SetText(@, c.x, new)]

PrintChar(c, t) ==
  IF InGrid(c)
  THEN [PutCell(c, TextCell(Append(c.cell, t), c.pen)) EXCEPT !.x = @ + Width(t), !.cell = <<>>]
  ELSE [c EXCEPT !.cell = <<>>]

WrapText(c, t) ==
  IF c.x + Width(t) - 1 > Len(c.grid[1]) /\ c.y < Len(c.grid) THEN [c EXCEPT !.x = 1, !.y = @ + 1] ELSE c

PrintStep(c, t, cut) ==
  CASE IsChar(t) -> PrintChar(IF cut THEN c ELSE WrapText(c, t), t)
    [] IsSeq(t) -> [c EXCEPT !.pen = ReadSeq(t, @)]
    [] t = NL -> [c EXCEPT !.y = @ + 1]
    [] t = Cr -> [c EXCEPT !.x = 1]
    [] OTHER -> [c EXCEPT !.cell = Append(@, t)]

\* Control characters that no character followed become a cell without width,
\* style and link.
LastCell(c) == IF c.cell # <<>> /\ InGrid(c) THEN PutCell(c, TextCell(c.cell, Plain)) ELSE c

RECURSIVE PrintFrom(_, _, _)
PrintFrom(c, s, cut) ==
  IF s = <<>> THEN LastCell(c).grid ELSE PrintFrom(PrintStep(c, Head(s), cut), Tail(s), cut)

PrintString(s, w, h, cut) ==
  PrintFrom([x |-> 1, y |-> 1, pen |-> Plain, grid |-> Grid(w, h), cell |-> <<>>], s, cut)

\* A line feed goes back to the first column.  A slip: it does not.
StaysInColumn(s) == s
WithReturns(s) == FlattenSeq([i \in DOMAIN s |-> IF s[i] = NL THEN <<Cr, NL>> ELSE <<s[i]>>])
SetContent(s, w, h) == PrintString(WithReturns(s), w, h, TRUE)

-----------------------------------------------------------------------------
\* RenderLine: what is written, the spaces held back until something follows
\* them, and the pen.
\* A slip: they are dropped.
PendingDropped(r) == [r EXCEPT !.pending = <<>>]
PendingOut(r) == [r EXCEPT !.out = @ \o r.pending, !.pending = <<>>]

ToStyle(r, style) ==
  LET v == IF style = EmptyStyle /\ r.pen.style # EmptyStyle
           THEN [PendingOut(r) EXCEPT !.out = Append(@, ResetStyle), !.pen.style = EmptyStyle] ELSE r
  IN IF StyleEqual(style, v.pen.style) THEN v
     ELSE [PendingOut(v) EXCEPT !.out = Append(@, Sgr(DiffSequence(style, v.pen.style))), !.pen.style = style]

ToLink(r, link) ==
  LET v == IF link # r.pen.link /\ r.pen.link # ""
           THEN [PendingOut(r) EXCEPT !.out = Append(@, ResetLink), !.pen.link = ""] ELSE r
  IN IF link = v.pen.link THEN v
     ELSE [PendingOut(v) EXCEPT !.out = Append(@, SetLink(link)), !.pen.link = link]

RenderCell(r, c) ==
  LET v == ToLink(ToStyle(r, c.pen.style), c.pen.link)
  IN CASE c.w = 0 -> r
       [] c = Blank1 -> [v EXCEPT !.pending = Append(@, Space)]
       [] OTHER -> [PendingOut(v) EXCEPT !.out = @ \o c.s]

RECURSIVE RenderFrom(_, _, _)
RenderFrom(r, line, x) == IF x > Len(line) THEN r ELSE RenderFrom(RenderCell(r, line[x]), line, x + 1)

TrimRight(s) == SubSeq(s, 1, SelectLastInSeq(s, LAMBDA t: t # Space))

RenderLine(line) ==
  LET r == RenderFrom([out |-> <<>>, pending |-> <<>>, pen |-> Plain], line, 1)
  IN TrimRight(r.out \o If(r.pen.link # "", <<ResetLink>>) \o If(r.pen.style # EmptyStyle, <<ResetStyle>>))

Render(grid) ==
  FlattenSeq([y \in DOMAIN grid |-> RenderLine(grid[y]) \o If(y < Len(grid), <<Cr, NL>>)])

-----------------------------------------------------------------------------
CONSTANTS TokenSets,    \* what a text is made of, one of these
          Limits,       \* the widths of lines, and the columns of cuts
          MaxTokens     \* bound: the length of a text

VARIABLES tokens, typed

textVars == <<tokens, typed>>

TextInit == tokens \in TokenSets /\ typed = <<>>

TypeToken(t) == /\ Len(typed) < MaxTokens
                /\ typed' = Append(typed, t)
                /\ UNCHANGED tokens

TextNext == \E t \in tokens: TypeToken(t)

-----------------------------------------------------------------------------
Widest(s) == Max({StringWidth(l): l \in Range(Lines(s))})
HardWraps(l) == {Hardwrap(typed, l, TRUE), Hardwrap(typed, l, FALSE)}

\* What is to be seen, and how: everything but the spaces.
Ink(s) == SelectSeq(Strip(s), LAMBDA t: ~IsSpace(t))
InkShown(s) == SelectSeq(Shown(s), LAMBDA x: ~IsSpace(x.t))
Characters(s) == SelectSeq(Shown(s), LAMBDA x: IsChar(x.t))

Trimmed(s) == SubSeq(s, 1, SelectLastInSeq(s, LAMBDA t: ~IsSpace(t)))

\* Hardwrap leaves no line wider than the limit; cellbuf.Wrap none but for
\* spaces at its end.
LinesFit ==
  \A l \in Limits:
    /\ \A s \in HardWraps(l): Widest(s) <= l
    /\ \A line \in Range(Lines(StyledWrap(typed, l))): StringWidth(Trimmed(Strip(line))) <= l

\* After how much ink the lines of s end.
LineEnds(s) == {Len(Ink(SubSeq(s, 1, i))): i \in {j \in DOMAIN s: s[j] = NL}}
Keeps(out, s) == Ink(out) = Ink(s) /\ LineEnds(s) \subseteq LineEnds(out)

\* No wrapping function loses, repeats or reorders what is to be seen, or
\* carries it over a line break of the text; cellbuf.Wrap shows it as it was.
WrapKeepsText ==
  \A l \in Limits:
    /\ \A out \in HardWraps(l) \cup {Wordwrap(typed, l), Wrap(typed, l), StyledWrap(typed, l)}: Keeps(out, typed)
    /\ InkShown(StyledWrap(typed, l)) = InkShown(typed)

\* Every line by itself, with nothing before it, looks as it does in the
\* text: cellbuf.Wrap and PenWriter close a style and a link before a line
\* break and open them again after it.
LinesAlone(s) == FlattenSeq([i \in DOMAIN Lines(s) |-> InkShown(Lines(s)[i])])
LinesSelfContained ==
  /\ \A l \in Limits: LinesAlone(StyledWrap(typed, l)) = InkShown(typed)
  /\ LinesAlone(PenWrite(typed)) = InkShown(typed)

\* The characters of cs that end after column left and not after right.
EndsAt(cs, i) == StringWidth([j \in 1..i |-> cs[j].t])
Within(cs, left, right) ==
  FlattenSeq([i \in DOMAIN cs |-> If(EndsAt(cs, i) \in left + 1..right, <<cs[i]>>)])

\* out shows the characters kept and then more others, and leaves the pen
\* where s leaves it.
ShowsOf(out, s, kept, more) ==
  /\ SubSeq(Characters(out), 1, Len(kept)) = kept
  /\ Len(Characters(out)) = Len(kept) + more
  /\ PenAfter(out, Plain) = PenAfter(s, Plain)

\* Truncate keeps the longest beginning that leaves room for the tail; Cut
\* keeps the characters between two columns.  What is kept looks as it did,
\* and every style and link of the text is closed or left open as the text
\* does it.
Dot == <<Ch(".")>>
CutIsExact ==
  \A r \in Limits:
    /\ StringWidth(typed) > r =>
         ShowsOf(Truncate(typed, r, Dot), typed, Within(Characters(typed), 0, r - 1), 1)
    /\ \A l \in 0..r - 1:
         ShowsOf(Cut(typed, l, r), typed, Within(Characters(typed), l, r), 0)

\* A grid as wide as a limit, of two lines: what is to be seen of it.
CellInk(c) == Shown(SelectSeq(c.s, LAMBDA t: ~IsSpace(t)))
Inked(grid) ==
  FlattenSeq([y \in DOMAIN grid |-> FlattenSeq([x \in DOMAIN grid[y] |->
    LET c == grid[y][x] IN [i \in DOMAIN CellInk(c) |-> [CellInk(c)[i] EXCEPT !.pen = c.pen]]])])
FirstTwo(ls) == SubSeq(ls, 1, Min({2, Len(ls)}))

\* SetContent shows of every line what Truncate leaves of it, whatever control
\* characters are among it and after it.
ContentIsTruncated ==
  \A w \in Limits:
    Inked(SetContent(typed, w, 2)) =
      InkShown(FlattenSeq([i \in DOMAIN FirstTwo(Lines(typed)) |-> Truncate(Lines(typed)[i], w, <<>>)]))

\* A cell without its control characters; one of nothing else counts as a
\* space, for Render leaves it out and nothing comes after it.
Bare(c) ==
  IF c.w = 0 /\ c.s # <<>> THEN Blank1 ELSE [c EXCEPT !.s = SelectSeq(@, IsChar)]

SameCell(a, b) ==
  /\ a.s = b.s /\ a.w = b.w
  /\ StyleEqual(a.pen.style, b.pen.style) /\ a.pen.link = b.pen.link

\* Every control character is in a cell with something to be seen.
Settled(grid) ==
  \A y \in DOMAIN grid: \A c \in Range(grid[y]):
    (\E i \in DOMAIN c.s: IsCtl(c.s[i])) => CellInk(c) # <<>>

\* What Render writes of a grid, however the text got there, SetContent reads
\* back as the same grid: to the last control character when it is settled (a
\* control character before the spaces at a line's end is passed on to the next
\* line, one at the end of the text is lost), else but for them.
RenderReadsBack ==
  \A w \in Limits: \A grid \in {SetContent(typed, w, 2), PrintString(typed, w, 2, FALSE)}:
    LET again == SetContent(Render(grid), w, 2)
    IN \A y \in DOMAIN grid: \A x \in DOMAIN grid[y]:
         /\ SameCell(Bare(again[y][x]), Bare(grid[y][x]))
         /\ Settled(grid) => SameCell(again[y][x], grid[y][x])

\* A text keeps what it is to keep: wrapped, its lines fit, nothing is lost and
\* every line stands by itself (Hardwrap, Wordwrap, Wrap of ansi, Wrap of
\* cellbuf); cut or drawn into cells and rendered again, the columns asked for
\* and their styles (Truncate, Cut, SetContent, Render).
TextsAreRight ==
  /\ LinesFit /\ WrapKeepsText /\ LinesSelfContained
  /\ CutIsExact /\ ContentIsTruncated /\ RenderReadsBack
=============================================================================
