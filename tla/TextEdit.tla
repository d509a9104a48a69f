------------------------------ MODULE TextEdit ------------------------------
(***************************************************************************)
(* The text functions of the ansi package: Hardwrap, Wordwrap and Wrap     *)
(* (ansi/wrap.go), Truncate, TruncateLeft and Cut (ansi/truncate.go).  The *)
(* code steps over bytes with the parser's table; here a step is a whole   *)
(* character, control character or escape sequence.                        *)
(***************************************************************************)
EXTENDS Styles

-----------------------------------------------------------------------------
(***************************************************************************)
(* Text as the text functions of ansi and cellbuf take it apart: a         *)
(* sequence of characters, control characters, SGR sequences and           *)
(* hyperlinks, each a pair of its kind and its value.  A character is one  *)
(* grapheme cluster; W stands for one that is two cells wide, nbsp for the *)
(* non-breaking space.                                                     *)
(***************************************************************************)

Ch(c) == <<"ch", c>>
Ctl(c) == <<"ctl", c>>
Sgr(ps) == <<"sgr", ps>>
SetLink(url) == <<"link", url>>

NL == Ctl("nl")
Tab == Ctl("tab")
Cr == Ctl("cr")
Space == Ch(" ")

IsChar(t) == t[1] = "ch"
IsCtl(t) == t[1] = "ctl"
IsSeq(t) == t[1] \in {"sgr", "link"}
IsAscii(t) == IsChar(t) /\ t[2] \notin {"W", "nbsp"}
IsSpace(t) == t \in {Space, Ch("nbsp"), NL, Tab, Cr}

\* StringWidth: what is not a character has no width.
Width(t) == CASE t = Ch("W") -> 2 [] IsChar(t) /\ t # Ch("W") -> 1 [] OTHER -> 0
RECURSIVE StringWidth(_)
StringWidth(s) == IF s = <<>> THEN 0 ELSE Width(Head(s)) + StringWidth(Tail(s))

\* Strip keeps characters and control characters.
Strip(s) == SelectSeq(s, LAMBDA t: ~IsSeq(t))

\* The lines of a text.
RECURSIVE LinesFrom(_, _)
LinesFrom(s, line) ==
  CASE s = <<>> -> <<line>>
    [] s # <<>> /\ Head(s) = NL -> <<line>> \o LinesFrom(Tail(s), <<>>)
    [] OTHER -> LinesFrom(Tail(s), Append(line, Head(s)))
Lines(s) == LinesFrom(s, <<>>)

\* What a terminal shows of a text: its characters, each with the style and
\* the link in force.
Plain == [style |-> EmptyStyle, link |-> ""]
ReadLink(url, pen) == [pen EXCEPT !.link = url]
ReadSeq(t, pen) ==
  CASE t[1] = "sgr" -> [pen EXCEPT !.style = ReadStyle(t[2], @)]
    [] t[1] = "link" -> ReadLink(t[2], pen)
    [] OTHER -> pen

RECURSIVE ShownFrom(_, _)
ShownFrom(s, pen) ==
  IF s = <<>> THEN <<>>
  ELSE IF IsSeq(Head(s)) THEN ShownFrom(Tail(s), ReadSeq(Head(s), pen))
  ELSE <<[t |-> Head(s), pen |-> pen]>> \o ShownFrom(Tail(s), pen)
Shown(s) == ShownFrom(s, Plain)

RECURSIVE PenAfter(_, _)
PenAfter(s, pen) == IF s = <<>> THEN pen ELSE PenAfter(Tail(s), ReadSeq(Head(s), pen))

-----------------------------------------------------------------------------
CONSTANT Breakpoints     \* characters after which a line may be broken

\* What a wrapping function holds: what it has written, the word and the
\* spaces before it that it has not, the width of the line so far and of the
\* word.
Blank == [out |-> <<>>, word |-> <<>>, space |-> <<>>, cur |-> 0, wl |-> 0]

Write(w, t) == [w EXCEPT !.out = Append(@, t)]
ToWord(w, t) == [w EXCEPT !.word = Append(@, t), !.wl = @ + Width(t)]
ToSpace(w, t) == [w EXCEPT !.space = Append(@, t)]

AddSpace(w) ==
  [w EXCEPT !.out = @ \o w.space, !.cur = @ + Len(w.space), !.space = <<>>]

AddWord(w) ==
  IF w.word = <<>> THEN w
  ELSE LET v == AddSpace(w)
       IN [v EXCEPT !.out = @ \o v.word, !.cur = @ + v.wl, !.word = <<>>, !.wl = 0]

AddNewline(w) == [w EXCEPT !.out = Append(@, NL), !.cur = 0, !.space = <<>>]

\* The spaces before a line break, or before the end, go out if they fit.
FlushSpace(w, limit) ==
  IF w.wl # 0 THEN w
  ELSE IF w.cur + Len(w.space) > limit THEN [w EXCEPT !.cur = 0, !.space = <<>>]
  ELSE [w EXCEPT !.out = @ \o w.space, !.space = <<>>]

\* A slip: the word goes after the break.
BreakFirst(w, limit) == AddNewline(FlushSpace(w, limit))
BreakLine(w, limit) == AddNewline(AddWord(FlushSpace(w, limit)))

BreakAfter(t) == IsChar(t) /\ (t = Ch("-") \/ t[2] \in Breakpoints)
Breaking(t) == IsSpace(t) /\ t \notin {Ch("nbsp"), NL}

-----------------------------------------------------------------------------
\* Hardwrap.  force: the line was broken here, not by the text.
HardNewline(h, forced) == [h EXCEPT !.out = Append(@, NL), !.cur = 0, !.force = forced]

HardCluster(h, t, limit, preserve) ==
  LET g == IF h.cur + Width(t) > limit THEN HardNewline(h, h.force) ELSE h
  IN IF ~preserve /\ g.cur = 0 /\ IsSpace(t) THEN g
     ELSE [g EXCEPT !.out = Append(@, t), !.cur = @ + Width(t)]

HardPrint(h, t, limit, preserve) ==
  LET g == IF h.cur + 1 > limit THEN HardNewline(h, TRUE) ELSE h
  IN IF g.cur = 0 /\ ~preserve /\ g.force /\ IsSpace(t) THEN g
     ELSE [g EXCEPT !.out = Append(@, t), !.cur = @ + Width(t),
                    !.force = IF g.cur = 0 THEN FALSE ELSE @]

HardStep(h, t, limit, preserve) ==
  CASE t = NL -> HardNewline(h, FALSE)
    [] IsChar(t) /\ ~IsAscii(t) -> HardCluster(h, t, limit, preserve)
    [] IsAscii(t) \/ (IsCtl(t) /\ t # NL) -> HardPrint(h, t, limit, preserve)
    [] OTHER -> [h EXCEPT !.out = Append(@, t)]

RECURSIVE HardFrom(_, _, _, _)
HardFrom(h, s, limit, preserve) ==
  IF s = <<>> THEN h.out ELSE HardFrom(HardStep(h, Head(s), limit, preserve), Tail(s), limit, preserve)

Hardwrap(s, limit, preserve) ==
  IF limit < 1 THEN s ELSE HardFrom([out |-> <<>>, cur |-> 0, force |-> FALSE], s, limit, preserve)

-----------------------------------------------------------------------------
\* Wordwrap.
NewlineIfOver(w, limit) ==
  IF w.cur + Len(w.space) + w.wl > limit /\ w.wl < limit THEN AddNewline(w) ELSE w

WordStep(w, t, limit) ==
  CASE t = NL -> BreakLine(w, limit)
    [] Breaking(t) -> ToSpace(AddWord(w), t)
    [] BreakAfter(t) -> [Write(AddWord(AddSpace(w)), t) EXCEPT !.cur = @ + 1]
    [] IsChar(t) /\ ~Breaking(t) /\ ~BreakAfter(t) -> NewlineIfOver(ToWord(w, t), limit)
    [] IsSeq(t) -> ToWord(w, t)

RECURSIVE WordFrom(_, _, _)
WordFrom(w, s, limit) ==
  IF s = <<>> THEN AddWord(w).out ELSE WordFrom(WordStep(w, Head(s), limit), Tail(s), limit)

Wordwrap(s, limit) == IF limit < 1 THEN s ELSE WordFrom(Blank, s, limit)

-----------------------------------------------------------------------------
\* Wrap.
\* v if b holds, w otherwise.
Either(b, v, w) == IF b THEN v ELSE w
HardWord(w, limit) == Either(w.wl = limit, AddWord(w), w)
OverLimit(w, limit) == Either(w.cur + w.wl + Len(w.space) > limit, AddNewline(w), w)

WrapBreak(w, t, limit) ==
  LET v == AddSpace(w)
  IN IF v.cur + v.wl >= limit THEN ToWord(v, t)
     ELSE [Write(AddWord(v), t) EXCEPT !.cur = @ + 1]

WrapCluster(w, t, limit) ==
  HardWord(OverLimit(ToWord(Either(w.wl + Width(t) > limit, AddWord(w), w), t), limit), limit)

WrapPrint(w, t, limit) ==
  OverLimit(HardWord(ToWord(Either(w.cur = limit, AddNewline(w), w), t), limit), limit)

WrapStep(w, t, limit) ==
  CASE t = NL -> BreakLine(w, limit)
    [] Breaking(t) -> ToSpace(AddWord(w), t)
    [] BreakAfter(t) -> WrapBreak(w, t, limit)
    [] IsChar(t) /\ ~IsAscii(t) -> WrapCluster(w, t, limit)
    [] IsAscii(t) /\ ~Breaking(t) /\ ~BreakAfter(t) -> WrapPrint(w, t, limit)
    [] IsSeq(t) -> ToWord(w, t)

RECURSIVE WrapFrom(_, _, _)
WrapFrom(w, s, limit) ==
  IF s = <<>> THEN AddWord(FlushSpace(w, limit)).out
              ELSE WrapFrom(WrapStep(w, Head(s), limit), Tail(s), limit)

Wrap(s, limit) == IF limit < 1 THEN s ELSE WrapFrom(Blank, s, limit)

-----------------------------------------------------------------------------
\* Truncate: once a character does not fit, only escape sequences go out.
TruncateStep(c, t, length, tail) ==
  LET fits == c.cur + Width(t) <= length
  IN CASE IsSeq(t) -> [c EXCEPT !.out = Append(@, t)]
       [] ~IsSeq(t) /\ c.ignoring ->
            [c EXCEPT !.cur = @ + Either(IsAscii(t), 0, Width(t))]
       [] ~IsSeq(t) /\ ~c.ignoring /\ fits ->
            [c EXCEPT !.out = Append(@, t), !.cur = @ + Width(t)]
       [] OTHER -> [c EXCEPT !.out = @ \o tail, !.ignoring = TRUE,
                             !.cur = @ + Either(IsAscii(t), 0, Width(t))]

RECURSIVE TruncateFrom(_, _, _, _)
TruncateFrom(c, s, length, tail) ==
  IF s = <<>> THEN c.out ELSE TruncateFrom(TruncateStep(c, Head(s), length, tail), Tail(s), length, tail)

Truncate(s, length, tail) ==
  CASE StringWidth(s) <= length -> s
    [] StringWidth(s) > length /\ length < StringWidth(tail) -> <<>>
    [] OTHER -> TruncateFrom([out |-> <<>>, cur |-> 0, ignoring |-> FALSE],
                             s, length - StringWidth(tail), tail)

\* TruncateLeft: nothing but escape sequences goes out until a character ends
\* beyond column n; the rest goes out as it is.
RECURSIVE TruncateLeftFrom(_, _, _, _, _)
TruncateLeftFrom(out, cur, s, n, prefix) ==
  IF s = <<>> THEN out
  ELSE LET t == Head(s)
       IN CASE IsSeq(t) -> TruncateLeftFrom(Append(out, t), cur, Tail(s), n, prefix)
            [] ~IsSeq(t) /\ cur + Width(t) > n -> out \o prefix \o s
            [] OTHER -> TruncateLeftFrom(out, cur + Width(t), Tail(s), n, prefix)

TruncateLeft(s, n, prefix) == IF n <= 0 THEN s ELSE TruncateLeftFrom(<<>>, 0, s, n, prefix)

\* The variant for wide characters measured rune by rune takes the left part
\* off with Truncate.
CutWc(s, left, right) ==
  CASE right <= left -> <<>>
    [] right > left /\ left = 0 -> Truncate(s, right, <<>>)
    [] OTHER -> Truncate(Truncate(s, right, <<>>), left, <<>>)

Cut(s, left, right) ==
  CASE right <= left -> <<>>
    [] right > left /\ left = 0 -> Truncate(s, right, <<>>)
    [] OTHER -> TruncateLeft(Truncate(s, right, <<>>), left, <<>>)

-----------------------------------------------------------------------------
(***************************************************************************)
(* The text functions of cellbuf that keep styles and links: Wrap          *)
(* (cellbuf/wrap.go), which closes and reopens them around every line      *)
(* break, and PenWriter (cellbuf/pen.go), which does the same for the line *)
(* breaks of what is written through it.                                   *)
(***************************************************************************)

\* Closing a pen before a line break, and taking it up again after.
ResetStyle == Sgr(<<>>)
ResetLink == SetLink("")
ClosePen(pen) == If(pen.style # EmptyStyle, <<ResetStyle>>) \o If(pen.link # "", <<ResetLink>>)
OpenPen(pen) == If(pen.link # "", <<SetLink(pen.link)>>)
                \o If(pen.style # EmptyStyle, <<Sgr(Sequence(pen.style))>>)

\* read: the pen after all that has been read; curPen: after all that has
\* been written.
StyledBlank == [out |-> <<>>, word |-> <<>>, space |-> <<>>, cur |-> 0, wl |-> 0,
                read |-> Plain, curPen |-> Plain]

StyledAddWord(w) ==
  IF w.word = <<>> THEN w ELSE [AddWord(w) EXCEPT !.curPen = w.read]

\* A slip: the pen that is reopened is the one of the word still unwritten.
ReopenRead(w) ==
  [w EXCEPT !.out = @ \o ClosePen(w.curPen) \o <<NL>> \o OpenPen(w.read), !.cur = 0, !.space = <<>>]
StyledNewline(w) ==
  [w EXCEPT !.out = @ \o ClosePen(w.curPen) \o <<NL>> \o OpenPen(w.curPen), !.cur = 0, !.space = <<>>]

HasBlankStyle(w) ==
  /\ "Reverse" \notin w.read.style.attrs
  /\ w.read.style.bg = NoColor /\ w.read.style.ulStyle = 0

\* A character that breaks a line goes out with the word before it.
StyledBreak(w, t) == [Write(StyledAddWord(AddSpace(w)), t) EXCEPT !.cur = @ + 1]

\* A character of a word; a word too long for a line is cut.
StyledPrint(w, t, limit) ==
  LET v == ToWord(IF w.wl + Width(t) > limit THEN StyledAddWord(w) ELSE w, t)
  IN IF v.cur + v.wl + Len(v.space) > limit THEN StyledNewline(v) ELSE v

\* A slip: the character itself is not counted.
FitsWithout(w, t, limit) == BreakAfter(t) /\ AddSpace(w).cur + w.wl <= limit
StyledFits(w, t, limit) == BreakAfter(t) /\ AddSpace(w).cur + w.wl + 1 <= limit

StyledStep(w, t, limit) ==
  CASE t = Tab -> ToSpace(StyledAddWord(w), t)
    [] t = NL -> StyledNewline(StyledAddWord(FlushSpace(w, limit)))
    [] IsSeq(t) -> [ToWord(w, t) EXCEPT !.read = ReadSeq(t, @)]
    [] t = Cr -> ToWord(w, t)
    [] t = Space /\ HasBlankStyle(w) -> ToSpace(StyledAddWord(w), t)
    [] BreakAfter(t) ->
         IF StyledFits(w, t, limit) THEN StyledBreak(w, t) ELSE StyledPrint(AddSpace(w), t, limit)
    [] OTHER -> StyledPrint(w, t, limit)

RECURSIVE StyledFrom(_, _, _)
StyledFrom(w, s, limit) ==
  IF s = <<>>
  THEN LET v == StyledAddWord(FlushSpace(w, limit))
       IN v.out \o If(v.curPen.link # "", <<ResetLink>>) \o If(v.curPen.style # EmptyStyle, <<ResetStyle>>)
  ELSE StyledFrom(StyledStep(w, Head(s), limit), Tail(s), limit)

StyledWrap(s, limit) == IF limit < 1 THEN s ELSE StyledFrom(StyledBlank, s, limit)

-----------------------------------------------------------------------------
\* PenWriter.Write and Close.
RECURSIVE PenWriteFrom(_, _)
PenWriteFrom(s, pen) ==
  CASE s = <<>> -> ClosePen(pen)
    [] s # <<>> /\ Head(s) = NL -> ClosePen(pen) \o <<NL>> \o OpenPen(pen) \o PenWriteFrom(Tail(s), pen)
    [] OTHER -> <<Head(s)>> \o PenWriteFrom(Tail(s), ReadSeq(Head(s), pen))

PenWrite(s) == PenWriteFrom(s, Plain)
=============================================================================
