----------------------------- MODULE CellScreen -----------------------------
(***************************************************************************)
(* How cellbuf.Screen draws: moving the cursor, putting cells, turning a   *)
(* displayed line into another one, and clearing.                          *)
(*                                                                         *)
(* A screen is a record of the fields of the Go structure; every operator  *)
(* takes it as the method of its name finds it and returns it as the       *)
(* method leaves it.  curbuf is what the screen believes the terminal      *)
(* displays, newbuf what it should display, cur where it believes the      *)
(* cursor is, and out the control functions it wrote and did not flush.    *)
(* Where the code picks the shortest of some sequences, so does the model, *)
(* which counts their bytes.  The colour profile, hyperlinks and the       *)
(* mapping of newlines (MapNL) are left out.                               *)
(***************************************************************************)
EXTENDS CellBuffer, SequencesExt

NewScreen(w, h, options) ==
  [curbuf |-> NewBuffer(w, h), newbuf |-> NewBuffer(w, h),
   cur |-> [x |-> -1, y |-> -1], pen |-> "none",
   saved |-> [x |-> -1, y |-> -1, pen |-> "none"],
   phantom |-> FALSE, touch |-> {}, above |-> <<>>, scrolled |-> 0,
   hashes |-> <<>>, alt |-> options.alt, altMode |-> FALSE, showCursor |-> FALSE,
   hidden |-> FALSE, clear |-> FALSE, queuedText |-> FALSE, caps |-> options.caps,
   relative |-> options.relative, hardTabs |-> options.hardTabs,
   backspace |-> options.backspace, out |-> <<>>, eoi |-> FALSE, stuck |-> FALSE]

NewWidth(s) == Width(s.newbuf)
NewHeight(s) == Height(s.newbuf)
Emit(s, f) == [s EXCEPT !.out = Append(@, f)]

-----------------------------------------------------------------------------
(* Control functions and their bytes *)

Digits(n) == IF n < 10 THEN 1 ELSE 2
FromTwo(n) == IF n > 1 THEN Digits(n) ELSE 0
FromOne(n) == IF n > 0 THEN Digits(n) ELSE 0

\* A count of zero moves as a count of one does.
Moving(name, n) == <<name, IF n = 0 THEN 1 ELSE n>>

Bytes(f) ==
  CASE f[1] = "text" -> CellBytes(Cell(f[2], "none"))
    [] f[1] \in {"cr", "lf"} -> 1
    [] f[1] = "ri" -> 2
    [] f[1] \in {"bs", "tab"} -> f[2]
    [] f[1] = "cup" -> IF f[2] <= 1 /\ f[3] <= 1 THEN 3 ELSE 4 + FromOne(f[2]) + FromOne(f[3])
    [] f[1] \in {"hpa", "vpa"} -> 3 + FromOne(f[2])
    [] OTHER -> 3 + FromTwo(f[2])

RECURSIVE Cost(_)
Cost(fs) == IF fs = <<>> THEN 0 ELSE Bytes(Head(fs)) + Cost(Tail(fs))
EraseLineRightBytes == 3
EraseLineLeftBytes == 4

-----------------------------------------------------------------------------
(* Moving the cursor *)

\* TabStops, eight columns apart.
NextTab(s, col) ==
  IF col >= NewWidth(s) - 1 THEN col
  ELSE Min({c \in (col + 1)..(NewWidth(s) - 1) : c % 8 = 0 \/ c = NewWidth(s) - 1})
PrevTab(col) == IF col < 1 THEN col ELSE ((col - 1) \div 8) * 8

RECURSIVE TabsTo(_, _, _, _), TabsBack(_, _, _)
TabsTo(s, col, tx, n) ==
  LET next == NextTab(s, col)
  IN  IF next > tx THEN [n |-> n, col |-> col]
      ELSE IF next = col \/ col >= NewWidth(s) - 1 THEN [n |-> n + 1, col |-> col]
      ELSE TabsTo(s, next, tx, n + 1)
TabsBack(col, tx, n) ==
  LET prev == PrevTab(col)
  IN  IF prev < tx THEN [n |-> n, col |-> col]
      ELSE IF prev = 0 \/ prev = PrevTab(prev) THEN [n |-> n + 1, col |-> prev]
      ELSE TabsBack(prev, tx, n + 1)

Shorter(fs, than) == IF than = <<>> \/ Cost(fs) < Cost(than) THEN fs ELSE than

\* The rows of a local movement, and how far down the screen has scrolled.
MoveRows(s, scrolled, fy, ty) ==
  LET vpa == IF "vpa" \in s.caps /\ ~s.relative THEN << <<"vpa", ty + 1>> >> ELSE <<>>
      n == IF ty > fy THEN ty - fy ELSE fy - ty
      down == Shorter(<< Moving("cud", n) >>, vpa)
      feeds == [i \in 1..n |-> <<"lf", 1>>]
      scrolls == ~s.alt /\ ty >= scrolled
  IN  IF ty = fy THEN [fs |-> <<>>, scrolled |-> scrolled]
      ELSE IF ty < fy
      THEN [fs |-> IF n = 1 /\ fy - 1 > 0 THEN << <<"ri", 1>> >>
                   ELSE Shorter(<< Moving("cuu", n) >>, vpa),
            scrolled |-> scrolled]
      ELSE IF scrolls \/ (ty < NewHeight(s) /\ n < Cost(down))
      THEN [fs |-> feeds, scrolled |-> IF ty > scrolled THEN ty ELSE scrolled]
      ELSE [fs |-> down, scrolled |-> scrolled]

\* The cells that are written instead of moving over them.
RECURSIVE Passed(_, _, _)
Passed(l, x, to) ==
  IF x >= to THEN <<>>
  ELSE IF At(l, x) # Nil /\ CellWidth(At(l, x)) > 0
  THEN <<At(l, x)>> \o Passed(l, x + CellWidth(At(l, x)), to)
  ELSE <<Nil>> \o Passed(l, x + 1, to)

ByColumn(s, name, n, tx) ==
  Shorter(<< Moving(name, n) >>,
          IF "hpa" \in s.caps /\ ~s.relative THEN << <<"hpa", tx + 1>> >> ELSE <<>>)

WriteOver(pen, cells, right) ==
  LET texts == [i \in DOMAIN cells |-> <<"text", OrBlank(cells[i]).ch>>]
  IN  IF /\ \A i \in DOMAIN cells : cells[i] = Nil \/ cells[i].st = pen
         /\ Cost(texts) < Cost(right)
      THEN texts ELSE right

MoveRight(s, forth, tx, ty, overwrite) ==
  LET right == ByColumn(s, "cuf", tx - forth.col, tx)
  IN  (IF forth.n > 0 THEN << <<"tab", forth.n>> >> ELSE <<>>)
      \o (IF overwrite /\ ty >= 0
          THEN WriteOver(s.pen, Passed(LineOf(s.newbuf, ty), forth.col, tx), right) ELSE right)

MoveLeft(s, back, tx, backspace) ==
  LET left == ByColumn(s, "cub", back.col - tx, tx)
  IN  (IF back.n > 0 THEN << <<"cbt", back.n>> >> ELSE <<>>)
      \o (IF backspace /\ back.col - tx < Cost(left)
          THEN IF back.col = tx THEN <<>> ELSE << <<"bs", back.col - tx>> >>
          ELSE left)

MoveColumns(s, fx, tx, ty, overwrite, tabs, backspace) ==
  LET none == [n |-> 0, col |-> fx]
  IN  IF tx = fx THEN <<>>
      ELSE IF tx > fx
      THEN MoveRight(s, IF tabs THEN TabsTo(s, fx, tx, 0) ELSE none, tx, ty, overwrite)
      ELSE MoveLeft(s, IF tabs /\ "cbt" \in s.caps THEN TabsBack(fx, tx, 0) ELSE none,
                    tx, backspace)

NotLocal(cols, from, to) ==
  /\ to.x > 7 /\ to.x < cols - 1 - 7
  /\ (IF to.y > from.y THEN to.y - from.y ELSE from.y - to.y)
     + (IF to.x > from.x THEN to.x - from.x ELSE from.x - to.x) > 7

\* From where the cursor is, from the start of its row, and from the corner,
\* with and without tabs and backspaces.
Trials(s) ==
  SelectSeq(<<[tabs |-> FALSE, backspace |-> FALSE], [tabs |-> FALSE, backspace |-> TRUE],
              [tabs |-> TRUE, backspace |-> FALSE], [tabs |-> TRUE, backspace |-> TRUE]>>,
            LAMBDA t : (t.tabs => s.hardTabs) /\ (t.backspace => s.backspace))
Starts(s) ==
  << [prefix |-> <<>>, x |-> s.cur.x, y |-> s.cur.y],
     [prefix |-> << <<"cr", 1>> >>, x |-> 0, y |-> s.cur.y] >>
  \o (IF s.relative THEN <<>> ELSE << [prefix |-> << <<"cup", 1, 1>> >>, x |-> 0, y |-> 0] >>)
Candidates(s) ==
  FlattenSeq([i \in DOMAIN Trials(s) |->
    [k \in DOMAIN Starts(s) |-> [start |-> Starts(s)[k], trial |-> Trials(s)[i]]]])

\* relativeCursorMove
Local(s, c, rows, to, overwrite) ==
  [fs |-> c.start.prefix \o rows.fs
          \o MoveColumns(s, c.start.x, to.x, to.y, overwrite, c.trial.tabs, c.trial.backspace),
   scrolled |-> rows.scrolled, any |-> TRUE]

\* The best so far and another one, which scrolled the screen in any case.
Better(best, other) ==
  IF best.any /\ Cost(other.fs) >= Cost(best.fs) THEN [best EXCEPT !.scrolled = other.scrolled]
  ELSE other

RECURSIVE TryAll(_, _, _, _, _)
TryAll(s, best, to, overwrite, cs) ==
  IF cs = <<>> THEN best
  ELSE TryAll(s, Better(best, Local(s, Head(cs),
                                    MoveRows(s, best.scrolled, Head(cs).start.y, to.y),
                                    to, overwrite)),
              to, overwrite, Tail(cs))

Absolute(to) == <<"cup", to.x + 1, to.y + 1>>
ShortestMove(s, to, overwrite) ==
  IF ~s.relative /\ (s.cur.x = -1 \/ s.cur.y = -1 \/ NotLocal(NewWidth(s), s.cur, to))
  THEN [fs |-> <<Absolute(to)>>, scrolled |-> s.scrolled]
  ELSE TryAll(s, [fs |-> IF s.relative THEN <<>> ELSE <<Absolute(to)>>,
                  scrolled |-> s.scrolled, any |-> ~s.relative],
              to, overwrite, Candidates(s))

\* Screen.moveCursor
FromColumnZero(s) ==
  IF ~s.alt /\ s.cur = [x |-> -1, y |-> -1]
  THEN [Emit(s, <<"cr", 1>>) EXCEPT !.cur = [x |-> 0, y |-> 0]] ELSE s
Moved(s, to, best) ==
  [s EXCEPT !.out = @ \o best.fs, !.scrolled = best.scrolled, !.cur = to]
MoveFrom(s, to, overwrite) == Moved(s, to, ShortestMove(s, to, overwrite))
MoveCursor(s, to, overwrite) == MoveFrom(FromColumnZero(s), to, overwrite)

UpdatePen(s, c) ==
  LET st == OrBlank(c).st
  IN  IF st = s.pen THEN s ELSE [Emit(s, <<"sgr", st>>) EXCEPT !.pen = st]

ClearBlank(s) == Cell(" ", s.pen)

Larger(a, b) == IF a > b THEN a ELSE b
Smaller(a, b) == IF a < b THEN a ELSE b

\* A slip: the pending wrap is not called off.
SettleLate(s) == IF s.phantom THEN [Emit(s, <<"cr", 1>>) EXCEPT !.cur.x = 0] ELSE s

\* A pending wrap is called off by going to the first column.
Settle(s) ==
  IF s.phantom THEN [Emit(s, <<"cr", 1>>) EXCEPT !.cur.x = 0, !.phantom = FALSE] ELSE s

\* Screen.move: past the last column, the column counts on in the next row.
MaxWidth(s) == Larger(NewWidth(s), Width(s.curbuf))
MaxRow(s) == Larger(NewHeight(s), Height(s.curbuf)) - 1
MoveWithin(s, to) == IF to = s.cur THEN s ELSE MoveCursor(s, to, TRUE)
MoveInside(s, x, y) ==
  MoveWithin([Settle(IF y # s.cur.y THEN UpdatePen(s, Nil) ELSE s)
               EXCEPT !.cur.y = Smaller(@, MaxRow(s))],
             [x |-> x, y |-> Smaller(y, MaxRow(s))])
Move(s, x, y) ==
  MoveInside(s, IF x >= MaxWidth(s) THEN x % MaxWidth(s) ELSE x,
          IF x >= MaxWidth(s) THEN y + x \div MaxWidth(s) ELSE y)

-----------------------------------------------------------------------------
(* Putting cells *)

Wrap(s) ==
  IF s.phantom THEN [s EXCEPT !.cur = [x |-> 0, y |-> @.y + 1], !.phantom = FALSE] ELSE s

Advance(s, w) ==
  [s EXCEPT !.cur.x = @ + w, !.queuedText = TRUE, !.phantom = s.cur.x + w >= NewWidth(s)]

Put(s, c) == Advance(Emit(UpdatePen(Wrap(s), c), <<"text", c.ch>>), CellWidth(c))
PutAttrCell(s, cell) ==
  IF Empty(cell) THEN s ELSE Put(s, IF cell = Nil THEN ClearBlank(s) ELSE cell)

\* The lower right corner of the alternate screen is written without wrapping.
PutCell(s, cell) ==
  IF s.alt /\ s.cur.x = NewWidth(s) - 1 /\ s.cur.y = NewHeight(s) - 1
  THEN IF Empty(cell) THEN s
       ELSE Emit([PutAttrCell(Emit(s, <<"autowrap", FALSE>>), cell)
                   EXCEPT !.phantom = FALSE, !.cur.x = s.cur.x], <<"autowrap", TRUE>>)
  ELSE PutAttrCell(s, cell)

RECURSIVE PutCells(_, _, _, _)
PutCells(s, l, x, n) == IF n <= 0 THEN s ELSE PutCells(PutCell(s, At(l, x)), l, x + 1, n - 1)

\* How many of the n cells from x on equal the first of them.
RunLength(l, x, n) ==
  Min({k \in 1..n : k = n \/ ~CellEqual(At(l, x + k), At(l, x))})

\* The count cells from x on are alike: erase them, repeat the first or write
\* them all.  The last column is written by itself.
EraseRun(s, c, count) == Emit(UpdatePen(s, c), <<"ech", count>>)

Wraps(s, count) == s.cur.x + count >= NewWidth(s)
RepeatCell(s, c, n) == [Emit(PutCell(UpdatePen(s, c), c), <<"rep", n>>) EXCEPT !.cur.x = @ + n]

\* A slip: the last column is repeated too.
RepeatWhole(s, c, count) == RepeatCell(s, c, count - 1)

RepeatRun(s, c, count) ==
  IF Wraps(s, count) THEN PutCell(RepeatCell(s, c, count - 2), c) ELSE RepeatCell(s, c, count - 1)

CanErase(s, c, count) ==
  /\ "ech" \in s.caps /\ Clear(c)
  /\ count > Bytes(<<"ech", count>>) + Bytes(<<"cup", s.cur.x + count, s.cur.y>>)

CanRepeat(s, c, count) ==
  "rep" \in s.caps /\ count > Bytes(<<"rep", count>>) /\ c.ch # "W"

\* Screen.emitRange: the field eoi is its result.
RECURSIVE EmitRange(_, _, _, _), EmitRun(_, _, _, _, _)
EmitRange(s, l, x, n) ==
  CASE n <= 0 -> [s EXCEPT !.eoi = FALSE]
    [] n = 1 -> [PutCell(s, l[x]) EXCEPT !.eoi = FALSE]
    [] n > 1 -> EmitRun(s, l, x, n, RunLength(l, x, n))
EmitRun(s, l, x, n, count) ==
  CASE count = 1 -> EmitRange(PutCell(s, At(l, x)), l, x + 1, n - 1)
    [] count > 1 /\ CanErase(s, l[x], count) ->
         IF count = n THEN [EraseRun(s, l[x], count) EXCEPT !.eoi = TRUE]
         ELSE EmitRange(Move(EraseRun(s, l[x], count), s.cur.x + count, s.cur.y),
                        l, x + count, n - count)
    [] count > 1 /\ ~CanErase(s, l[x], count) ->
         EmitRange(IF CanRepeat(s, l[x], count) THEN RepeatRun(s, l[x], count)
                   ELSE PutCells(s, l, x, count),
                   l, x + count, n - count)

\* The loop of Screen.putRange: start is where the cells not yet put begin.
EmitUntil(s, new, start, j, same) == EmitRange(s, new, start, j - same - start)
Enough(s, same) == [s EXCEPT !.eoi = @ \/ same > 0]

RECURSIVE PutChanges(_, _, _, _, _, _, _, _)
PutChanges(s, old, new, y, start, end, j, same) ==
  CASE j > end -> Enough(EmitUntil(s, new, start, j, same), same)
    [] j <= end /\ same = 0 /\ Empty(At(old, j)) ->
         PutChanges(s, old, new, y, start, end, j + 1, 0)
    [] j <= end /\ ~(same = 0 /\ Empty(At(old, j))) /\ CellEqual(At(old, j), At(new, j)) ->
         PutChanges(s, old, new, y, start, end, j + 1, same + 1)
    [] OTHER ->
         IF same > end - start
         THEN PutChanges(Move(EmitUntil(s, new, start, j, same), j, y),
                         old, new, y, j, end, j + 1, 0)
         ELSE PutChanges(s, old, new, y, start, end, j + 1, 0)

PutRange(s, old, new, y, start, end) ==
  LET inline == Min({Bytes(<<"cup", start + 1, y + 1>>), Bytes(<<"hpa", start + 1>>),
                     Bytes(<<"cuf", start + 1>>)})
  IN  IF end - start + 1 > inline THEN PutChanges(s, old, new, y, start, end, start, 0)
      ELSE EmitRange(s, new, start, end - start + 1)

-----------------------------------------------------------------------------
(* Clearing *)

El0Cost(s) == IF s.caps = {} THEN EraseLineRightBytes ELSE 0

\* Screen.clearToEnd, which no caller forces.
RightOf(s) == Larger(s.cur.x, 0)..(Width(s.curbuf) - 1)
NotBlank(s, blank) ==
  s.cur.y >= 0 /\ \E x \in RightOf(s) : ~CellEqual(At(LineOf(s.curbuf, s.cur.y), x), blank)
KeepCleared(s, blank) ==
  IF s.cur.y \notin DOMAIN s.curbuf THEN s
  ELSE [s EXCEPT !.curbuf[s.cur.y] = FillLine(@, blank, Larger(s.cur.x, 0), Width(s.curbuf))]
WriteCleared(s, blank, count) ==
  IF El0Cost(s) <= count THEN Emit(s, <<"el", 0>>) ELSE PutCells(s, [x \in {0} |-> blank], 0, count)

ClearToEnd(s, blank) ==
  IF ~NotBlank(s, blank) THEN s
  ELSE WriteCleared(UpdatePen(KeepCleared(s, blank), blank), blank, NewWidth(s) - s.cur.x)

\* Screen.clearToBottom
ClearToBottom(s, blank) ==
  LET row == Larger(s.cur.y, 0)
      w == Width(s.curbuf)
      u == Emit(UpdatePen(s, blank), <<"ed0", 0>>)
  IN  [u EXCEPT !.curbuf = ClearRect(ClearRect(@, Rect(s.cur.x, row, w - s.cur.x, 1)),
                                     Rect(0, row + 1, w, Height(@) - row - 1))]

\* Screen.clearScreen
ClearScreen(s, blank) ==
  [UpdatePen(s, blank) EXCEPT
    !.out = @ \o << <<"cup", 1, 1>>, <<"ed2", 0>> >>,
    !.cur = [x |-> 0, y |-> 0],
    !.curbuf = FillRect(@, blank, Rect(0, 0, Width(@), Height(@)))]

\* Screen.clearBelow
ClearBelow(s, blank, row) == ClearToBottom(Move(s, 0, row), blank)

\* Screen.clearBottom: the rows from the returned one on are blank.
BlankRow(l, w, blank) == \A x \in 0..(w - 1) : CellEqual(At(l, x), blank)

TopOfBottom(s, total) ==
  LET blank == ClearBlank(s)
      w == NewWidth(s)
      bottom == {r \in 0..(total - 1) :
                  \A k \in r..(total - 1) : BlankRow(LineOf(s.newbuf, k), w, blank)}
      changed == {r \in bottom : LET old == LineOf(s.curbuf, r)
                                 IN ~(LineWidth(old) = w /\ BlankRow(old, w, blank))}
  IN  IF Clear(blank) /\ changed # {} THEN Min(changed) ELSE total

SettleHashes(s, top) ==
  [s EXCEPT !.hashes = [i \in DOMAIN @ |->
    IF i >= top THEN [old |-> @[i].new, new |-> @[i].new] ELSE @[i]]]
ClearFrom(s, top) == SettleHashes(ClearToBottom(Move(s, 0, top - 1), ClearBlank(s)), top)
ClearBottom(s, total) ==
  IF TopOfBottom(s, total) = total THEN s ELSE ClearFrom(s, TopOfBottom(s, total))
=============================================================================
