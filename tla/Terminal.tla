------------------------------ MODULE Terminal ------------------------------
(***************************************************************************)
(* The terminal that package cellbuf draws on, which is not part of this   *)
(* repository: what each control function that a screen emits does to its  *)
(* cells and to its cursor.  A control function is a tuple: its name, then *)
(* its arguments.  The terminal erases with the background of its pen, and *)
(* writing its last column leaves the cursor there with a pending wrap.    *)
(* Only a scroll of the whole main screen moves lines into its history.    *)
(***************************************************************************)
EXTENDS CellBuffer, SequencesExt

NewTerminal(w, h, y) ==
  [cells |-> NewBuffer(w, h), x |-> 0, y |-> y, pend |-> FALSE, wrap |-> TRUE,
   insert |-> FALSE, pen |-> "none", top |-> 0, bottom |-> h - 1, last |-> " ",
   history |-> <<>>, alternate |-> FALSE, cursor |-> TRUE,
   main |-> [cells |-> NewBuffer(w, h), x |-> 0, y |-> 0]]

Cols(t) == Width(t.cells)
Rows(t) == Height(t.cells)

Erased(t) == Cell(" ", IF t.pen = "bg" THEN "bg" ELSE "none")
ErasedLine(t) == [x \in 0..(Cols(t) - 1) |-> Erased(t)]
EraseCells(t, y, S) ==
  [t EXCEPT !.cells[y] = [x \in DOMAIN @ |-> IF x \in S THEN Erased(t) ELSE @[x]]]

Within(n, low, high) == IF n < low THEN low ELSE IF n > high THEN high ELSE n
To(t, x, y) ==
  [t EXCEPT !.x = Within(x, 0, Cols(t) - 1), !.y = Within(y, 0, Rows(t) - 1), !.pend = FALSE]

\* Rows from..bottom move up by n; the lowest n rows are erased.
MoveUp(t, from, bottom, n) ==
  [t EXCEPT !.cells = [y \in DOMAIN @ |->
     IF y < from \/ y > bottom THEN @[y]
     ELSE IF y + n <= bottom THEN @[y + n] ELSE ErasedLine(t)]]

MoveDown(t, from, bottom, n) ==
  [t EXCEPT !.cells = [y \in DOMAIN @ |->
     IF y < from \/ y > bottom THEN @[y]
     ELSE IF y - n >= from THEN @[y - n] ELSE ErasedLine(t)]]

\* SU: what scrolls off the top of the main screen is kept.
ScrollUp(t, n) ==
  LET kept == IF t.alternate \/ t.top > 0 \/ t.bottom < Rows(t) - 1 THEN 0 ELSE Min({n, Rows(t)})
  IN  [MoveUp(t, t.top, t.bottom, n) EXCEPT
        !.history = @ \o [i \in 1..kept |-> t.cells[i - 1]]]

LineFeed(t) ==
  IF t.y = t.bottom THEN [ScrollUp(t, 1) EXCEPT !.pend = FALSE] ELSE To(t, t.x, t.y + 1)

ReverseIndex(t) ==
  IF t.y = t.top THEN [MoveDown(t, t.top, t.bottom, 1) EXCEPT !.pend = FALSE]
  ELSE To(t, t.x, t.y - 1)

Shifted(t, n) ==
  [t EXCEPT !.cells[t.y] = [x \in DOMAIN @ |->
     IF x < t.x THEN @[x] ELSE IF x < t.x + n THEN Erased(t) ELSE @[x - n]]]

\* A printed character.
Text(t, ch) ==
  LET w == CellWidth(Cell(ch, t.pen))
      wraps == t.wrap /\ (t.pend \/ t.x + w > Cols(t))
      u == IF wraps THEN LineFeed([t EXCEPT !.x = 0]) ELSE t
      v == IF u.insert THEN Shifted(u, w) ELSE u
  IN  [v EXCEPT !.cells[v.y] = SetLineCell(@, v.x, Cell(ch, v.pen)),
                !.x = Within(v.x + w, 0, Cols(t) - 1),
                !.pend = v.wrap /\ v.x + w >= Cols(t),
                !.last = ch]

RECURSIVE Repeat(_, _)
Repeat(t, n) == IF n = 0 THEN t ELSE Repeat(Text(t, t.last), n - 1)

RECURSIVE Tab(_, _)
Tab(t, n) ==
  IF n = 0 THEN t ELSE Tab(To(t, (t.x \div 8 + 1) * 8, t.y), n - 1)

InMargins(t) == t.top <= t.y /\ t.y <= t.bottom

\* The alternate screen keeps the main screen and its cursor until it ends.
Alternate(t, on) ==
  IF on = t.alternate THEN t
  ELSE IF on
  THEN [t EXCEPT !.alternate = TRUE, !.main = [cells |-> t.cells, x |-> t.x, y |-> t.y],
                 !.cells = NewBuffer(Cols(t), Rows(t))]
  ELSE To([t EXCEPT !.alternate = FALSE, !.cells = t.main.cells], t.main.x, t.main.y)

Execute(t, f) ==
  LET n == f[2]  col == t.x  row == t.y  last == Cols(t) - 1
  IN
  CASE f[1] = "text" -> Text(t, n)
    [] f[1] = "sgr" -> [t EXCEPT !.pen = n]
    [] f[1] = "cr" -> To(t, 0, row)
    [] f[1] = "bs" -> To(t, col - n, row)
    [] f[1] = "tab" -> Tab(t, n)
    [] f[1] = "lf" -> LineFeed(t)
    [] f[1] = "ri" -> ReverseIndex(t)
    [] f[1] = "cup" -> To(t, n - 1, f[3] - 1)
    [] f[1] = "hpa" -> To(t, n - 1, row)
    [] f[1] = "vpa" -> To(t, col, n - 1)
    [] f[1] = "cuu" -> To(t, col, row - n)
    [] f[1] = "cud" -> To(t, col, row + n)
    [] f[1] = "cuf" -> To(t, col + n, row)
    [] f[1] = "cub" -> To(t, col - n, row)
    [] f[1] = "el" -> EraseCells(t, row, IF n = 0 THEN col..last ELSE 0..col)
    [] f[1] = "ech" -> EraseCells(t, row, col..Within(col + n - 1, 0, last))
    [] f[1] = "ed0" -> [EraseCells(t, row, col..last) EXCEPT
                         !.cells = [y \in DOMAIN @ |-> IF y > row THEN ErasedLine(t) ELSE @[y]]]
    [] f[1] = "ed2" -> [t EXCEPT !.cells = [y \in DOMAIN @ |-> ErasedLine(t)]]
    [] f[1] = "rep" -> Repeat(t, n)
    [] f[1] = "ich" -> Shifted(t, n)
    [] f[1] = "dch" -> [t EXCEPT !.cells[row] = [x \in DOMAIN @ |->
                         IF x < col THEN @[x] ELSE IF x + n <= last THEN @[x + n] ELSE Erased(t)]]
    [] f[1] = "il" -> IF InMargins(t) THEN To(MoveDown(t, row, t.bottom, n), 0, row) ELSE t
    [] f[1] = "dl" -> IF InMargins(t) THEN To(MoveUp(t, row, t.bottom, n), 0, row) ELSE t
    [] f[1] = "su" -> ScrollUp(t, n)
    [] f[1] = "sd" -> MoveDown(t, t.top, t.bottom, n)
    [] f[1] = "margins" -> To([t EXCEPT !.top = n - 1, !.bottom = f[3] - 1], 0, 0)
    [] f[1] = "autowrap" -> [t EXCEPT !.wrap = n]
    [] f[1] = "irm" -> [t EXCEPT !.insert = n]
    [] f[1] = "altscreen" -> Alternate(t, n)
    [] f[1] = "cursor" -> [t EXCEPT !.cursor = n]

RunAll(t, fs) == FoldLeft(Execute, t, fs)

\* The window changed: rows and columns are cut off or added at the far ends.
ResizeTerminal(t, w, h) ==
  [To([t EXCEPT !.cells = ResizeBuffer(@, w, h), !.main.cells = ResizeBuffer(@, w, h)], t.x, t.y)
    EXCEPT !.top = 0, !.bottom = h - 1]
=============================================================================
