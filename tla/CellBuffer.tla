----------------------------- MODULE CellBuffer -----------------------------
(***************************************************************************)
(* Cells, lines and buffers of package cellbuf.                            *)
(*                                                                         *)
(* A cell holds a character and a style.  "W" stands for every character   *)
(* that takes two columns: it fills its own cell, and the cell after it is *)
(* a placeholder, without a character and of width zero.  Of the styles,   *)
(* "bold" leaves a space as it looks and "bg" (a background) does not.     *)
(* Lines and buffers are functions that count from 0.                      *)
(***************************************************************************)
EXTENDS Integers, Sequences, FiniteSets, FiniteSetsExt

Cell(ch, st) == [ch |-> ch, st |-> st]
BlankCell == Cell(" ", "none")
EmptyCell == Cell("", "none")

\* The nil cell: a blank when it is in a line, no cell at all outside of it.
Nil == Cell("nil", "none")

CellWidth(c) == CASE c.ch = "" -> 0 [] c.ch = "W" -> 2 [] OTHER -> 1
CellBytes(c) == IF c.ch = "W" THEN 3 ELSE CellWidth(c)

Wide(c) == CellWidth(c) > 1
Empty(c) == c = EmptyCell

\* A space that looks like one: it can be drawn by erasing.
Clear(c) == c.ch = " " /\ c.st \in {"none", "bold"}

OrBlank(c) == IF c = Nil THEN BlankCell ELSE c
CellEqual(a, b) == OrBlank(a) = OrBlank(b)

Blanked(c) == Cell(" ", c.st)

-----------------------------------------------------------------------------
(* Lines *)

NewLine(w) == [x \in 0..(w - 1) |-> Nil]
LineWidth(l) == Cardinality(DOMAIN l)

At(l, x) == IF x \in DOMAIN l THEN OrBlank(l[x]) ELSE Nil

\* Half of a wide character is about to be overwritten: blank all of it.
Split(l, x) ==
  LET head == IF Empty(At(l, x)) THEN x - 1 ELSE x
  IN  IF ~Wide(At(l, head)) THEN l
      ELSE [i \in DOMAIN l |-> IF i \in {head, head + 1} THEN Blanked(l[head]) ELSE l[i]]

\* Line.set
SetLineCell(l, x, c) ==
  LET span == x..(x + CellWidth(c) - 1)
      put == Split(l, x)
  IN  IF x \notin DOMAIN l THEN l
      ELSE IF ~(span \subseteq DOMAIN l)
           THEN [i \in DOMAIN l |-> IF i \in span THEN Blanked(c) ELSE put[i]]
           ELSE [i \in DOMAIN l |->
                  IF i = x THEN c ELSE IF i \in span THEN EmptyCell ELSE put[i]]

\* The built-in copy of src over dst, from column x on.
CopyLine(dst, src, x) ==
  [i \in DOMAIN dst |-> IF i >= x /\ i \in DOMAIN src THEN src[i] ELSE dst[i]]

-----------------------------------------------------------------------------
(* Buffers *)

NewBuffer(w, h) == [y \in 0..(h - 1) |-> NewLine(w)]
Height(b) == Cardinality(DOMAIN b)
Width(b) == LineWidth(b[0])

NoLine == [x \in {} |-> BlankCell]
LineOf(b, y) == IF y \in DOMAIN b THEN b[y] ELSE NoLine

\* image.Rect puts the corners in order.
Rect(x, y, w, h) ==
  [left |-> IF w < 0 THEN x + w ELSE x, right |-> IF w < 0 THEN x ELSE x + w,
   top |-> IF h < 0 THEN y + h ELSE y, bottom |-> IF h < 0 THEN y ELSE y + h]

RectRows(r) == r.top..(r.bottom - 1)

RECURSIVE FillLine(_, _, _, _)
FillLine(l, c, x, right) ==
  IF x >= right THEN l
  ELSE FillLine(SetLineCell(l, x, c), c, x + (IF Wide(c) THEN CellWidth(c) ELSE 1), right)

FillRect(b, c, r) ==
  [y \in DOMAIN b |->
    IF y \in RectRows(r) THEN FillLine(b[y], c, r.left, r.right) ELSE b[y]]

ClearRect(b, r) == FillRect(b, Nil, r)

ResizeBuffer(b, w, h) ==
  [y \in 0..(h - 1) |-> CopyLine(NewLine(w), LineOf(b, y), 0)]
=============================================================================
