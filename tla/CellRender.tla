----------------------------- MODULE CellRender -----------------------------
(***************************************************************************)
(* A program draws on a cellbuf.Screen and the screen keeps a terminal in  *)
(* step: the calls of the program (Clear, SetCell, Resize, EnterAltScreen, *)
(* ExitAltScreen, SetRelativeCursor, InsertAbove, MoveTo, Redraw,          *)
(* ShowCursor, HideCursor, Close), Render and Flush, against the terminal  *)
(* of module Terminal.                                                     *)
(*                                                                         *)
(* A call is a step.  Most hold the lock of the screen; EnterAltScreen,    *)
(* ExitAltScreen, SetRelativeCursor, ShowCursor and HideCursor do not, and *)
(* a program makes them where it draws.  Render and Flush are one step,    *)
(* Refresh: between them only the program's own buffer changes.  A frame   *)
(* is drawn by one step too, in which the program clears the screen and    *)
(* sets cells, from left to right, row by row.                             *)
(***************************************************************************)
EXTENDS CellTransform, Terminal

CONSTANTS
  Programs,  \* by name: the options of a program's screen, the frames it
             \* draws, the other calls it makes and, for a screen that is not
             \* the whole terminal, the rows of that and the row it starts on
  MaxAbove   \* bound: lines inserted above the screen

VARIABLES
  program,   \* the program, chosen once
  scr,       \* the screen
  term,      \* the terminal
  printed,   \* what was printed above the screen, the oldest line first
  closed     \* the program closed its screen

vars == <<program, scr, term, printed, closed>>

My == Programs[program]

-----------------------------------------------------------------------------
(* Render *)

Idle(s) ==
  /\ s.alt = s.altMode /\ s.hidden = ~s.showCursor /\ ~s.clear
  /\ s.touch = {} /\ s.above = <<>>

SwitchScreens(s) ==
  IF s.alt = s.altMode THEN s
  ELSE [Emit(s, <<"altscreen", s.alt>>) EXCEPT !.altMode = s.alt]

SwitchCursor(s) ==
  IF s.hidden = ~s.showCursor THEN s
  ELSE IF s.showCursor THEN [s EXCEPT !.hidden = FALSE]
  ELSE [Emit(s, <<"cursor", FALSE>>) EXCEPT !.hidden = TRUE]

\* A slip: the line feeds are not counted.
FeedUncounted(s, k) == [Move(s, 0, LastRow(s)) EXCEPT !.out = @ \o Many("lf", k)]

\* The queued lines are written at the top, over lines inserted there.
FeedBelow(s, k) == [Move(s, 0, LastRow(s)) EXCEPT !.out = @ \o Many("lf", k), !.cur.y = @ + k]
InsertAtTop(s, k) ==
  Emit(MoveCursor(FeedBelow(s, k), [x |-> 0, y |-> 0], FALSE), <<"il", k>>)
AboveText(lines) ==
  FlattenSeq([i \in DOMAIN lines |-> << <<"text", lines[i]>>, <<"cr", 1>>, <<"lf", 1>> >>])
WriteAbove(s) ==
  IF s.above = <<>> THEN s
  ELSE [InsertAtTop(s, Len(s.above)) EXCEPT !.out = @ \o AboveText(s.above), !.above = <<>>]

RECURSIVE TransformFrom(_, _, _, _)
TransformFrom(s, y, end, rows) ==
  IF y = end THEN s
  ELSE TransformFrom(IF y \in rows THEN TransformLine(s, y) ELSE s, y + 1, end, rows)

\* What clearBottom did not clear is drawn, all of it or the touched rows.
DrawAbove(s, total, rows) ==
  TransformFrom(ClearBottom(s, total), 0, TopOfBottom(s, total), rows)

\* Screen.clearUpdate
MaxHeight(s) == Larger(Height(s.curbuf), NewHeight(s))
ClearUpdate(s) ==
  IF s.alt THEN DrawAbove(ClearScreen(s, ClearBlank(s)), MaxHeight(s), 0..MaxHeight(s))
  ELSE DrawAbove(ClearBelow(s, ClearBlank(s), 0), NewHeight(s), 0..MaxHeight(s))

\* A smaller screen, not the alternate one, leaves rows below it.
ClearPartly(s) ==
  IF /\ ~s.clear /\ ~s.alt /\ s.cur.x # -1 /\ s.cur.y # -1
     /\ Width(s.curbuf) = NewWidth(s) /\ Height(s.curbuf) > NewHeight(s)
  THEN ClearBelow(s, Nil, LastRow(s)) ELSE s

UpdateTouched(s) ==
  DrawAbove(s, IF s.alt THEN Smaller(Height(s.curbuf), NewHeight(s)) ELSE NewHeight(s), s.touch)

Update(s) ==
  IF s.clear THEN [ClearUpdate(s) EXCEPT !.clear = FALSE]
  ELSE IF s.touch = {} THEN s
  ELSE UpdateTouched(IF s.alt THEN ScrollOptimize(s) ELSE s)

\* Both buffers have one size again, and the new rows are displayed.
SyncRows(s, old) ==
  [y \in DOMAIN s.newbuf |->
    IF y >= old - 1 THEN s.newbuf[y] ELSE CopyLine(NewLine(NewWidth(s)), LineOf(s.curbuf, y), 0)]
SyncBuffers(s) ==
  [s EXCEPT !.touch = {},
            !.curbuf = IF Width(@) = NewWidth(s) /\ Height(@) = NewHeight(s) THEN @
                       ELSE SyncRows(s, Height(@))]

\* A slip: the cursor is shown after text, whether it was asked for or not.
ShowAfterWriting(s) ==
  [s EXCEPT !.out = IF s.queuedText THEN Append(@, <<"cursor", TRUE>>) ELSE @, !.queuedText = FALSE]

\* The cursor is hidden while text is written.
HideWhileWriting(s) ==
  IF s.showCursor /\ ~s.hidden /\ s.queuedText /\ Len(s.out) > 1
  THEN [s EXCEPT !.out = << <<"cursor", FALSE>> >> \o @ \o << <<"cursor", TRUE>> >>,
                 !.queuedText = FALSE]
  ELSE [s EXCEPT !.queuedText = FALSE]

\* Screen.render
RenderAll(s) ==
  HideWhileWriting(UpdatePen(
    SyncBuffers(Update(ClearPartly(WriteAbove(SwitchCursor(SwitchScreens(s)))))), Nil))
Render(s) == IF Idle(s) THEN s ELSE RenderAll(s)

-----------------------------------------------------------------------------
(* What the program does *)

\* Screen.SetCell
SetCell(s, x, y, c) ==
  [s EXCEPT !.newbuf = IF y \in DOMAIN @ THEN [@ EXCEPT ![y] = SetLineCell(@, x, c)] ELSE @,
            !.touch = IF CellEqual(At(LineOf(s.curbuf, y), x), c) THEN @ ELSE @ \union {y}]

\* Screen.FillRect
FillScreen(s, c, r) ==
  [s EXCEPT !.newbuf = FillRect(@, c, r), !.touch = @ \union RectRows(r)]

ClearAll(s) == FillScreen(s, Nil, Rect(0, 0, NewWidth(s), NewHeight(s)))

\* SetCell for every cell of a line, the placeholders excepted.
RECURSIVE SetLineFrom(_, _, _, _), SetLinesFrom(_, _, _)
SetLineFrom(s, x, y, l) ==
  IF x \notin DOMAIN l THEN s
  ELSE SetLineFrom(IF Empty(l[x]) THEN s ELSE SetCell(s, x, y, l[x]), x + 1, y, l)
SetLinesFrom(s, y, frame) ==
  IF y \notin DOMAIN frame THEN s
  ELSE SetLinesFrom(SetLineFrom(s, 0, y, frame[y]), y + 1, frame)

Fits(frame) == Height(frame) = NewHeight(scr) /\ Width(frame) = NewWidth(scr)

Calls(call) == call \in My.calls /\ ~closed /\ ~scr.stuck

\* A frame replaces all that was drawn, so one is enough before a refresh,
\* unless the screen was resized.
DrawFrame ==
  /\ ~closed /\ ~scr.stuck
  /\ scr.touch = {} \/ "resize" \in My.calls
  /\ \E frame \in My.frames :
       Fits(frame) /\ scr' = SetLinesFrom(ClearAll(scr), 0, frame)
  /\ UNCHANGED <<program, term, printed, closed>>

\* A line is drawn over what the program drew before.
DrawLine ==
  /\ Calls("line")
  /\ \E frame \in My.frames : \E y \in ScreenRows(scr) :
       Fits(frame) /\ scr' = SetLineFrom(scr, 0, y, frame[y])
  /\ UNCHANGED <<program, term, printed, closed>>

\* What the screen wrote reaches the terminal.
Flushed(s) == scr' = [s EXCEPT !.out = <<>>] /\ term' = RunAll(term, s.out)

Refresh ==
  /\ ~closed /\ ~scr.stuck
  /\ Flushed(Render(scr))
  /\ UNCHANGED <<program, printed, closed>>

Redraw ==
  /\ Calls("redraw")
  /\ scr' = [scr EXCEPT !.clear = TRUE]
  /\ UNCHANGED <<program, term, printed, closed>>

\* The mode is asked for once: the cursor that is saved is then the main one.
EnterAltScreen ==
  /\ Calls("alt") /\ ~scr.alt
  /\ scr' = [scr EXCEPT !.alt = TRUE, !.clear = TRUE,
                        !.saved = [x |-> scr.cur.x, y |-> scr.cur.y, pen |-> scr.pen]]
  /\ UNCHANGED <<program, term, printed, closed>>

\* A screen on the main one does not know its row of the terminal, so a program
\* turns relative movements on again before it leaves the alternate screen.
ExitAltScreen ==
  /\ Calls("alt") /\ scr.alt /\ scr.relative
  /\ scr' = [scr EXCEPT !.alt = FALSE, !.clear = TRUE,
                        !.cur = [x |-> scr.saved.x, y |-> scr.saved.y], !.pen = scr.saved.pen]
  /\ UNCHANGED <<program, term, printed, closed>>

SetRelativeCursor(v) ==
  /\ Calls("alt") /\ scr.relative = ~v /\ scr.alt
  /\ scr' = [scr EXCEPT !.relative = v]
  /\ UNCHANGED <<program, term, printed, closed>>

ShowCursor ==
  /\ Calls("cursor")
  /\ scr' = [scr EXCEPT !.showCursor = TRUE]
  /\ UNCHANGED <<program, term, printed, closed>>

HideCursor ==
  /\ Calls("cursor")
  /\ scr' = [scr EXCEPT !.showCursor = FALSE]
  /\ UNCHANGED <<program, term, printed, closed>>

\* Two lines take turns, so that their order shows.
NextAbove(lines) == IF Len(lines) % 2 = 0 THEN "p" ELSE "q"

\* Nothing is inserted above an alternate screen.
InsertAbove ==
  /\ Calls("above") /\ ~scr.alt
  /\ Len(printed) < MaxAbove
  /\ scr' = [scr EXCEPT !.above = Append(@, NextAbove(printed))]
  /\ printed' = Append(printed, NextAbove(printed))
  /\ UNCHANGED <<program, term, closed>>

MoveTo ==
  /\ Calls("move")
  /\ \E x \in 0..(NewWidth(scr) - 1) : \E y \in ScreenRows(scr) : Flushed(Move(scr, x, y))
  /\ UNCHANGED <<program, printed, closed>>

\* A slip: the main screen is not asked for.
StayAlternate(s) == s

\* The last refresh; the terminal gets its main screen and its cursor back.
LeaveAlternate(s) == IF s.altMode THEN Emit(s, <<"altscreen", FALSE>>) ELSE s
UnhideCursor(s) == IF s.hidden THEN Emit(s, <<"cursor", TRUE>>) ELSE s
Finish(s) == UnhideCursor(LeaveAlternate(Move(UpdatePen(s, Nil), 0, LastRow(s))))
ResetScreen(s) ==
  [s EXCEPT !.scrolled = 0, !.hidden = FALSE, !.altMode = FALSE, !.touch = {}, !.hashes = <<>>,
            !.curbuf = NewBuffer(Width(@), Height(@)), !.newbuf = NewBuffer(Width(@), Height(@))]

Close ==
  /\ Calls("close")
  /\ Flushed(ResetScreen(Finish(Render(scr))))
  /\ closed' = TRUE
  /\ UNCHANGED <<program, printed>>

\* The window of the terminal changed, and the program was told.
ResizeScreen(s, w, h) ==
  LET ow == NewWidth(s)  oh == NewHeight(s)
      marked == IF s.alt \/ w # ow THEN [s EXCEPT !.clear = TRUE] ELSE s
      columns == IF w > oh THEN FillScreen(marked, Nil, Rect(Larger(ow - 1, 0), 0, w - ow, h))
                 ELSE IF w < ow THEN FillScreen(marked, Nil, Rect(Larger(w - 1, 0), 0, ow - w, h))
                 ELSE marked
      rows == IF h > oh THEN FillScreen(columns, Nil, Rect(0, oh, w, h - oh))
              ELSE IF h < oh THEN FillScreen(columns, Nil, Rect(0, h, w, oh - h))
              ELSE columns
  IN  [rows EXCEPT !.newbuf = ResizeBuffer(@, w, h), !.hashes = <<>>, !.scrolled = 0]

\* A screen that is the whole terminal has its size; the size of another is
\* the program's own choice.
Resize ==
  /\ Calls("resize")
  /\ \E frame \in My.frames :
       LET w == Width(frame)  h == Height(frame)
       IN  /\ ~Fits(frame)
           /\ scr' = ResizeScreen(scr, w, h)
           /\ term' = IF My.options.alt THEN ResizeTerminal(term, w, h) ELSE term
  /\ UNCHANGED <<program, printed, closed>>

-----------------------------------------------------------------------------

LinesAbove(n) == [y \in 1..n |-> IF y % 2 = 1 THEN "p" ELSE "q"]
LineAbove(w, ch) == SetLineCell(NewLine(w), 0, Cell(ch, "none"))

\* The screen starts below what was printed before.
Init ==
  /\ program \in DOMAIN Programs
  /\ \E frame \in My.frames : scr = NewScreen(Width(frame), Height(frame), My.options)
  /\ printed = LinesAbove(My.row)
  /\ term = LET blank == NewTerminal(NewWidth(scr), IF My.options.alt THEN NewHeight(scr) ELSE My.rows,
                                      My.row)
            IN  [blank EXCEPT !.cells = [y \in DOMAIN @ |->
                  IF y < My.row THEN LineAbove(NewWidth(scr), printed[y + 1]) ELSE @[y]]]
  /\ closed = FALSE

Next ==
  \/ DrawFrame \/ DrawLine \/ Refresh \/ Redraw \/ EnterAltScreen \/ ExitAltScreen
  \/ \E v \in BOOLEAN : SetRelativeCursor(v)
  \/ ShowCursor \/ HideCursor \/ InsertAbove \/ MoveTo \/ Close \/ Resize

Spec == Init /\ [][Next]_vars

-----------------------------------------------------------------------------
(* Properties *)

\* The fields of a screen and of the terminal hold what the code can put there.
TypeOK ==
  /\ program \in DOMAIN Programs /\ closed \in BOOLEAN
  /\ scr.cur.x \in -1..NewWidth(scr) /\ scr.cur.y >= -1
  /\ scr.touch \subseteq Nat /\ scr.out = <<>>
  /\ term.x \in 0..(Cols(term) - 1) /\ term.y \in 0..(Rows(term) - 1)
  /\ term.top = 0 /\ term.bottom = Rows(term) - 1 /\ term.wrap /\ ~term.insert

\* Cells that look the same.
Seen(c) == IF Clear(OrBlank(c)) THEN BlankCell ELSE c
SameLine(a, b, w) == \A x \in 0..(w - 1) : Seen(At(a, x)) = Seen(At(b, x))

\* The row of the terminal that the first row of the screen is on.
Origin == IF scr.altMode THEN 0 ELSE term.y - scr.cur.y

\* The screen drew all that it was told to.
Current == Idle(scr) /\ scr.cur.x # -1 /\ ~closed

Shows(b) ==
  \A y \in DOMAIN b : SameLine(LineOf(term.cells, Origin + y), b[y], LineWidth(b[y]))

\* Render returns: transformLine does not look at one cell for ever while it
\* holds the lock of the screen.
NotStuck == ~scr.stuck

\* Render and Flush bring the terminal to the frame that the program drew,
\* whatever was displayed before and wherever the cursor was.
ShowsTheFrame == Current => Shows(scr.newbuf)

\* The buffer that the next Render compares with (curbuf) is what the terminal
\* displays: an erasure, an insertion or a scroll that the buffer does not
\* record, or that the terminal did not make, shows up as garbage later.
BelievesTheTerminal == Current => Shows(scr.curbuf)

\* The position, the pending wrap and the style that the screen counts with
\* are those of the terminal, so that what it writes next lands where it means.
\* clearScreen forgets to reset the pending wrap, in the first column, where a
\* carriage return does no harm.
CursorAgrees ==
  Current => /\ term.pen = scr.pen /\ (term.pend => scr.phantom)
             /\ scr.phantom => term.pend \/ (term.x = 0 /\ scr.cur.x = 0)
             /\ scr.phantom \/ term.x = scr.cur.x
             /\ scr.altMode => term.y = Larger(scr.cur.y, 0)

\* Whatever an inline screen draws, clears and scrolls, the lines printed above
\* it stay, in order, in the history of the terminal and above the screen.
KeepsWhatIsAbove ==
  Current /\ ~scr.altMode =>
    LET above == term.history \o [y \in 1..Origin |-> term.cells[y - 1]]
    IN  /\ Len(above) = Len(printed)
        /\ \A i \in DOMAIN printed :
             SameLine(above[i], LineAbove(Cols(term), printed[i]), Cols(term))

\* A cursor that the program hid stays hidden, whatever is written.
CursorHidden == Current /\ ~scr.showCursor => ~term.cursor

\* Close leaves the terminal on its main screen, with a plain pen, and with a
\* cursor if the program never asked for one while it was hidden.
ClosedTerminal ==
  closed => /\ ~term.alternate /\ term.pen = "none"
            /\ "cursor" \in My.calls \/ term.cursor

\* After every Render the terminal shows the frame, the screen believes no more
\* and no less of it, and Render has returned (Render, Flush, clearUpdate).
FramesAreShown ==
  /\ TypeOK /\ NotStuck
  /\ BelievesTheTerminal /\ ShowsTheFrame /\ CursorAgrees

\* Hiding the cursor and closing the screen are kept to, whatever is drawn
\* between (HideCursor, ShowCursor, ExitAltScreen, Close).
LeavesTheTerminal == CursorHidden /\ ClosedTerminal
=============================================================================
