------------------------------- MODULE Styles -------------------------------
(***************************************************************************)
(* Text styles: how a style is written as an SGR sequence                  *)
(* (cellbuf/cell.go Sequence and DiffSequence over the builder of          *)
(* ansi/style.go) and how the sequence is read back (cellbuf/sequence.go   *)
(* ReadStyle).  A sequence is the list of parameters the parser collects   *)
(* from it: v is -1 for a missing parameter and more says that a ':'       *)
(* follows.                                                                *)
(***************************************************************************)
EXTENDS Integers, Sequences, SequencesExt

Par(v) == [v |-> v, more |-> FALSE]
WithSub(v, u) == <<[v |-> v, more |-> TRUE], Par(u)>>
Pars(vs) == [i \in DOMAIN vs |-> Par(vs[i])]
ParamOr(p, def) == IF p.v = -1 THEN def ELSE p.v

-----------------------------------------------------------------------------
\* Colours.
NoColor == [k |-> "none", v |-> <<>>]
Basic(n) == [k |-> "basic", v |-> <<n>>]
Indexed(n) == [k |-> "indexed", v |-> <<n>>]
Rgb(r, g, b) == [k |-> "rgb", v |-> <<r, g, b>>]
Rgba(r, g, b, a) == [k |-> "rgba", v |-> <<r, g, b, a>>]
Cmyk(c, m, y, k) == [k |-> "cmyk", v |-> <<c, m, y, k>>]
Transparent == Rgba(0, 0, 0, 0)

\* The palette: sixteen named colours, a cube of 6 * 6 * 6, 24 greys.
Cube == <<0, 95, 135, 175, 215, 255>>
Level(n, bit) == IF (n \div bit) % 2 = 1 THEN (IF n > 8 THEN 255 ELSE 128) ELSE 0
Grey(n) == 8 + 10 * (n - 232)
AnsiHex(n) ==
  CASE n = 7 -> <<192, 192, 192>>
    [] n = 8 -> <<128, 128, 128>>
    [] n < 16 /\ n \notin {7, 8} -> <<Level(n, 1), Level(n, 2), Level(n, 4)>>
    [] n \in 16..231 -> <<Cube[(n - 16) \div 36 + 1], Cube[(((n - 16) \div 6) % 6) + 1], Cube[((n - 16) % 6) + 1]>>
    [] OTHER -> <<Grey(n), Grey(n), Grey(n)>>

RGBA(c) == CASE c.k \in {"basic", "indexed"} -> Append(AnsiHex(c.v[1]), 255)
             [] c.k = "rgb" -> Append(c.v, 255)
             [] OTHER -> c.v

ColorEqual(c, o) ==
  \/ c = o
  \/ c # NoColor /\ o # NoColor /\ RGBA(c) = RGBA(o)

ColorString(c, base) ==
  CASE c.k = "none" -> <<base + 9>>
    [] c.k = "basic" -> <<IF c.v[1] < 8 THEN base + c.v[1] ELSE base + 52 + c.v[1]>>
    [] c.k = "indexed" -> <<base + 8, 5>> \o c.v
    [] OTHER -> <<base + 8, 2>> \o SubSeq(RGBA(c), 1, 3)

ForegroundColor(c) == Pars(ColorString(c, 30))
BackgroundColor(c) == Pars(ColorString(c, 40))
UnderlineColor(c) == Pars(ColorString(IF c.k = "basic" THEN Indexed(c.v[1]) ELSE c, 50))

-----------------------------------------------------------------------------
\* Styles, and what is written for them.
AttrOrder == <<"Bold", "Faint", "Italic", "SlowBlink", "RapidBlink", "Reverse", "Conceal", "Strikethrough">>
OnCode == [Bold |-> 1, Faint |-> 2, Italic |-> 3, SlowBlink |-> 5, RapidBlink |-> 6,
           Reverse |-> 7, Conceal |-> 8, Strikethrough |-> 9]
OffCode == [Bold |-> 22, Faint |-> 22, Italic |-> 23, SlowBlink |-> 25, RapidBlink |-> 25,
            Reverse |-> 27, Conceal |-> 28, Strikethrough |-> 29]

EmptyStyle == [fg |-> NoColor, bg |-> NoColor, ul |-> NoColor, attrs |-> {}, ulStyle |-> 0]

StyleEqual(s, o) ==
  /\ s.attrs = o.attrs /\ s.ulStyle = o.ulStyle
  /\ ColorEqual(s.fg, o.fg) /\ ColorEqual(s.bg, o.bg) /\ ColorEqual(s.ul, o.ul)

Underline(on) == <<Par(IF on THEN 4 ELSE 24)>>
UnderlineStyle(u) == CASE u = 0 -> Underline(FALSE)
                       [] u = 1 -> Underline(TRUE)
                       [] OTHER -> WithSub(4, u)

If(b, ps) == IF b THEN ps ELSE <<>>

\* An empty list is written as the reset sequence, which has no parameter.
Sequence(s) ==
  FlattenSeq([i \in 1..8 |-> If(AttrOrder[i] \in s.attrs, <<Par(OnCode[AttrOrder[i]])>>)])
  \o If(s.ulStyle # 0, Underline(TRUE) \o UnderlineStyle(s.ulStyle))
  \o If(s.fg # NoColor, ForegroundColor(s.fg))
  \o If(s.bg # NoColor, BackgroundColor(s.bg))
  \o If(s.ul # NoColor, UnderlineColor(s.ul))

\* One code turns both of a pair off; it is written once.
WrittenOff(a, gone) == \/ a = "Faint" /\ "Bold" \in gone
                       \/ a = "RapidBlink" /\ "SlowBlink" \in gone

AttrDiff(a, s, o) ==
  CASE a \in s.attrs \ o.attrs -> <<Par(OnCode[a])>>
    [] a \in o.attrs \ s.attrs /\ ~WrittenOff(a, o.attrs \ s.attrs) -> <<Par(OffCode[a])>>
    [] OTHER -> <<>>

DiffSequence(s, o) ==
  IF o = EmptyStyle THEN Sequence(s)
  ELSE If(~ColorEqual(s.fg, o.fg), ForegroundColor(s.fg))
       \o If(~ColorEqual(s.bg, o.bg), BackgroundColor(s.bg))
       \o If(~ColorEqual(s.ul, o.ul), UnderlineColor(s.ul))
       \o FlattenSeq([i \in 1..8 |-> AttrDiff(AttrOrder[i], s, o)])
       \o If(s.ulStyle # o.ulStyle, UnderlineStyle(s.ulStyle))

-----------------------------------------------------------------------------
\* Reading a colour: the colour and the parameters it takes, 0 for none.
Took(n, c) == [n |-> n, c |-> c]
NotRead == Took(0, NoColor)

\* Parameters i to j are all followed by a ':'.
Chained(ps, i, j) == \A k \in i..j: ps[k].more
Unchained(ps, i, j) == \A k \in i..j: ~ps[k].more
Arg(ps, i) == ParamOr(ps[i], 0)

\* Where the components of a direct colour are, and the parameters it takes.
Components(ps) ==
  LET At4(n) == [n |-> n, v |-> [i \in 1..4 |-> Arg(ps, i + 3)]]
      l == Len(ps)
  IN CASE l > 8 /\ Chained(ps, 1, 8) -> At4(9)
       [] l > 7 /\ Chained(ps, 1, 7) /\ (l > 8 => ~ps[8].more) -> At4(8)
       [] l > 6 /\ Chained(ps, 1, 6) /\ (l > 7 => ~ps[7].more) -> At4(7)
       [] l > 5 /\ Chained(ps, 1, 5) /\ ~ps[6].more ->
            [n |-> 6, v |-> <<Arg(ps, 4), Arg(ps, 5), Arg(ps, 6), -1>>]
       [] \/ Chained(ps, 1, 4) /\ ~ps[5].more /\ Arg(ps, 2) = 2
          \/ Unchained(ps, 1, 5) /\ Arg(ps, 2) = 2 ->
            [n |-> 5, v |-> <<Arg(ps, 3), Arg(ps, 4), Arg(ps, 5), -1>>]
       [] OTHER -> [n |-> 0, v |-> <<-1, -1, -1, -1>>]

DirectAt(at, needs, Color(_)) ==
  IF \E i \in 1..(needs - 2): at.v[i] = -1 THEN NotRead
  ELSE Took(at.n, Color([i \in 1..4 |-> at.v[i] % 256]))

Direct(ps, needs, Color(_)) ==
  IF Len(ps) < needs THEN NotRead ELSE DirectAt(Components(ps), needs, Color)

ReadIndexed(ps) ==
  IF /\ Len(ps) >= 3
     /\ (Chained(ps, 1, 2) /\ ~ps[3].more) \/ Unchained(ps, 1, 3)
  THEN Took(3, Indexed(Arg(ps, 3) % 256)) ELSE NotRead

ReadStyleColor(ps) ==
  IF Len(ps) < 2 THEN NotRead
  ELSE LET type == Arg(ps, 2)
       IN CASE type = 0 -> Took(2, NoColor)
            [] type = 1 -> Took(2, Transparent)
            [] type = 2 -> Direct(ps, 5, LAMBDA v: Rgb(v[1], v[2], v[3]))
            [] type = 3 -> Direct(ps, 5, LAMBDA v: Cmyk(v[1], v[2], v[3], 0))
            [] type = 4 -> Direct(ps, 6, LAMBDA v: Cmyk(v[1], v[2], v[3], v[4]))
            [] type = 5 -> ReadIndexed(ps)
            [] type = 6 -> Direct(ps, 6, LAMBDA v: Rgba(v[1], v[2], v[3], v[4]))
            [] OTHER -> NotRead

-----------------------------------------------------------------------------
\* Reading a style.  Each step gives the pen and the parameters it took.
Next1(pen) == [pen |-> pen, n |-> 1]

ReadUnderline(ps, i, pen) ==
  IF ps[i].more /\ i < Len(ps)
  THEN LET u == Arg(ps, i + 1)
       IN IF u \in 0..5 THEN [pen |-> [pen EXCEPT !.ulStyle = u], n |-> 2] ELSE Next1(pen)
  ELSE Next1([pen EXCEPT !.ulStyle = 1])

TakeColor(got, pen, which) ==
  IF got.n = 0 THEN Next1(pen) ELSE [pen |-> [pen EXCEPT ![which] = got.c], n |-> got.n]
ReadLong(ps, i, pen, which) == TakeColor(ReadStyleColor(SubSeq(ps, i, Len(ps))), pen, which)

NormalKeepsFaint(pen) == [pen EXCEPT !.attrs = @ \ {"Bold"}]     \* A slip: 22 is read as "not bold".
NormalIntensity(pen) == [pen EXCEPT !.attrs = @ \ {"Bold", "Faint"}]

ReadAttr(v, pen) ==
  CASE \E a \in DOMAIN OnCode: OnCode[a] = v ->
         [pen EXCEPT !.attrs = @ \cup {CHOOSE a \in DOMAIN OnCode: OnCode[a] = v}]
    [] v = 22 -> NormalIntensity(pen)
    [] v = 24 -> [pen EXCEPT !.ulStyle = 0]
    [] v \in {23, 25, 27, 28, 29} -> [pen EXCEPT !.attrs = {a \in @: OffCode[a] # v}]
    [] v \in 30..37 -> [pen EXCEPT !.fg = Basic(v - 30)]
    [] v \in 40..47 -> [pen EXCEPT !.bg = Basic(v - 40)]
    [] v \in 90..97 -> [pen EXCEPT !.fg = Basic(v - 82)]
    [] v \in 100..107 -> [pen EXCEPT !.bg = Basic(v - 92)]
    [] v = 39 -> [pen EXCEPT !.fg = NoColor]
    [] v = 49 -> [pen EXCEPT !.bg = NoColor]
    [] v = 59 -> [pen EXCEPT !.ul = NoColor]
    [] OTHER -> pen

ReadOne(ps, i, pen) ==
  LET v == Arg(ps, i)
  IN CASE v = 0 -> Next1(EmptyStyle)
       [] v = 4 -> ReadUnderline(ps, i, pen)
       [] v = 38 -> ReadLong(ps, i, pen, "fg")
       [] v = 48 -> ReadLong(ps, i, pen, "bg")
       [] v = 58 -> ReadLong(ps, i, pen, "ul")
       [] OTHER -> Next1(ReadAttr(v, pen))

RECURSIVE ReadFrom(_, _, _)
RECURSIVE ReadAfter(_, _, _)
ReadAfter(ps, i, one) == ReadFrom(ps, i + one.n, one.pen)
ReadFrom(ps, i, pen) == IF i > Len(ps) THEN pen ELSE ReadAfter(ps, i, ReadOne(ps, i, pen))

ReadStyle(ps, pen) == IF ps = <<>> THEN EmptyStyle ELSE ReadFrom(ps, 1, pen)
=============================================================================
