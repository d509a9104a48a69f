--------------------------- MODULE CellTransform ---------------------------
(***************************************************************************)
(* Screen.transformLine of package cellbuf: the control functions that     *)
(* turn the displayed line into the new one.  It looks for the first and   *)
(* the last cells that differ and for the blank ends of both lines, and    *)
(* erases, inserts, deletes or rewrites the cells between them.            *)
(***************************************************************************)
EXTENDS CellScreen

\* The range loops of the code stop at the last cell when they find nothing.
FirstOther(l, w, blank) ==
  Min({x \in 0..(w - 1) : ~CellEqual(At(l, x), blank)} \union {w - 1})

\* The last cell after first that is not blank.
LastOther(l, w, first, blank) ==
  Max({x \in (first + 1)..(w - 1) : ~CellEqual(At(l, x), blank)} \union {Smaller(first, w - 1)})

FirstChange(old, new, from, w) ==
  Min({x \in from..(w - 1) : ~CellEqual(At(old, x), At(new, x))} \union {w})

LastChange(old, new, first, w) ==
  Max({x \in (first + 1)..(w - 1) : ~CellEqual(At(old, x), At(new, x))} \union {first})

\* Both lines keep the same tail: drop it, as long as what is before it is
\* the same too.
RECURSIVE DropTail(_, _, _, _)
DropTail(old, new, o, n) ==
  IF /\ o >= 0 /\ n >= 0
     /\ CellEqual(At(new, n), At(old, o))
     /\ CellEqual(At(new, n - 1), At(old, o - 1))
  THEN DropTail(old, new, o - 1, n - 1)
  ELSE [o |-> o, n |-> n]

-----------------------------------------------------------------------------
(* The start of the line: where to begin, and the leading blanks erased *)

EraseLeft(s, y, n, blank) == Emit(UpdatePen(Move(s, n - 1, y), blank), <<"el", 1>>)
KeepBlanks(s, y, o, n, blank) ==
  IF y \in DOMAIN s.curbuf THEN [s EXCEPT !.curbuf[y] = FillLine(@, blank, o, n)] ELSE s

At0(s, y) == At(LineOf(s.newbuf, y), 0)
OldBlanks(s, y) == FirstOther(LineOf(s.curbuf, y), Width(s.curbuf), At0(s, y))
NewBlanks(s, y) == FirstOther(LineOf(s.newbuf, y), NewWidth(s), At0(s, y))

\* Erasing to the left displays the new leading blanks.
MoreBlanks(s, y) ==
  /\ At0(s, y) = Nil \/ Clear(At0(s, y))
  /\ EraseLineLeftBytes < NewBlanks(s, y) - OldBlanks(s, y)

ShowBlanks(s, y) ==
  IF MoreBlanks(s, y)
  THEN KeepBlanks(EraseLeft(s, y, NewBlanks(s, y), At0(s, y)), y,
                  OldBlanks(s, y), NewBlanks(s, y), At0(s, y))
  ELSE s

\* Where the lines begin to differ.
FirstCell(s, y) ==
  LET o == OldBlanks(s, y)
      n == NewBlanks(s, y)
      Change(from) == FirstChange(LineOf(s.curbuf, y), LineOf(s.newbuf, y), from, NewWidth(s))
  IN  IF At0(s, y) # Nil /\ ~Clear(At0(s, y)) THEN Change(0)
      ELSE IF n = o THEN Change(n)
      ELSE IF o > n \/ MoreBlanks(s, y) THEN n
      ELSE o

-----------------------------------------------------------------------------
(* The end of the line *)

\* Screen.insertCells: count cells of the line, from x on.
RECURSIVE PutAttrCells(_, _, _, _)
PutAttrCells(s, l, x, count) ==
  IF count <= 0 THEN s ELSE PutAttrCells(PutAttrCell(s, l[x]), l, x + 1, count - 1)

InsertCells(s, l, x, count) ==
  IF "ich" \in s.caps THEN PutAttrCells(Emit(s, <<"ich", count>>), l, x, count)
  ELSE Emit(PutAttrCells(Emit(s, <<"irm", TRUE>>), l, x, count), <<"irm", FALSE>>)

\* Where to insert: never between the halves of a wide character.  A wide
\* character in the first column is looked at again and again.
RECURSIVE BeforeWide(_, _)
BeforeWide(new, n) ==
  IF n > 0 /\ At(new, n + 1) # Nil /\ Empty(At(new, n + 1)) THEN BeforeWide(new, n - 1) ELSE n

\* A slip: whether the cell in the first column is wide is not asked.
LoopsAtFirst(new, first, n) == n = 0 /\ n >= first /\ At(new, n + 1) # Nil
LoopsForever(new, first, n) ==
  n = 0 /\ n >= first /\ Wide(At(new, n)) /\ Empty(At(new, n + 1))

\* Rewriting the end costs less than inserting into it.
InsertOrPut(s, old, new, y, at, count, last, nLast) ==
  IF "ich" \in s.caps /\ (nLast < last.new \/ 3 + count > last.any - at)
  THEN PutRange(s, old, new, y, at + 1, last.any)
  ELSE InsertCells(s, new, at + 1, count)

InsertAfter(s, old, new, y, n, o, last, nLast, at) ==
  InsertOrPut(Move(s, at + 1, y), old, new, y, at, nLast - (o - (n - at)), last, nLast)

Inserting(s, old, new, y, first, n, o, last, nLast) ==
  IF LoopsForever(new, first, n) THEN [s EXCEPT !.stuck = TRUE]
  ELSE InsertAfter(s, old, new, y, n, o, last, nLast, BeforeWide(new, n))

\* After putRange: the cursor may be in the middle of what is displayed.
AtEnd(s, x, y) == IF s.eoi THEN Move(s, x, y) ELSE s

DeleteOrClear(s, old, new, y, n, count, last, blank) ==
  IF 3 + count > EraseLineRightBytes + last.new - (n + 1)
  THEN ClearToEnd(AtEnd(PutRange(s, old, new, y, n + 1, last.new), last.new + 1, y), blank)
  ELSE Emit(UpdatePen(s, blank), <<"dch", count>>)

Deleting(s, old, new, y, n, count, last, blank) ==
  DeleteOrClear(Move(s, n + 1, y), old, new, y, n, count, last, blank)

ShiftTail(s, old, new, y, first, tail, last, blank) ==
  LET common == Smaller(tail.o, tail.n)
  IN  CASE tail.o < tail.n -> Inserting(s, old, new, y, first, common, tail.o, last, tail.n)
        [] tail.o > tail.n -> Deleting(s, old, new, y, common, tail.o - tail.n, last, blank)
        [] OTHER -> s

PutCommon(s, old, new, y, first, common) ==
  IF common >= first THEN PutRange(Move(s, first, y), old, new, y, first, common) ELSE s

\* The lines end with the same cell: what is before it moves left or right.
SameTail(s, old, new, y, first, tail, last, blank) ==
  ShiftTail(PutCommon(s, old, new, y, first, Smaller(tail.o, tail.n)),
            old, new, y, first, tail, last, blank)

OnlyFirst(s, cell, blank) ==
  ClearToEnd(IF CellEqual(cell, blank) THEN s ELSE PutCell(s, cell), blank)

OtherTail(s, old, new, y, first, o, n, blank) ==
  IF o - n > El0Cost(s)
  THEN ClearToEnd(AtEnd(PutRange(s, old, new, y, first, n), n + 1, y), blank)
  ELSE PutRange(s, old, new, y, first, Larger(n, o))

BlankEnd(s, old, new, y, first, o, n, blank) ==
  CASE n = first /\ El0Cost(s) < o - n -> OnlyFirst(Move(s, first, y), At(new, first), blank)
    [] ~(n = first /\ El0Cost(s) < o - n) /\ n # o /\ ~CellEqual(At(new, n), At(old, o)) ->
         OtherTail(Move(s, first, y), old, new, y, first, o, n, blank)
    [] OTHER ->
         SameTail(s, old, new, y, first, DropTail(old, new, o, n),
                  [new |-> n, any |-> Larger(n, o)], blank)

-----------------------------------------------------------------------------

\* The new line is displayed now; a narrower curbuf keeps what fits.
KeepLine(s, y, new, first) ==
  IF y \notin DOMAIN s.curbuf THEN s
  ELSE [s EXCEPT !.curbuf[y] =
         CopyLine(@, new, IF first \in DOMAIN @ /\ first \in DOMAIN new THEN first ELSE 0)]

DrawLineEnd(s, old, new, y, first, blank) ==
  IF blank # Nil /\ ~Clear(blank)
  THEN PutRange(Move(s, first, y), old, new, y, first, LastChange(old, new, first, NewWidth(s)))
  ELSE BlankEnd(s, old, new, y, first, LastOther(old, Width(s.curbuf), first, blank),
                LastOther(new, NewWidth(s), first, blank), blank)

DrawFrom(s, old, new, y, first) ==
  IF first >= NewWidth(s) THEN s
  ELSE KeepLine(DrawLineEnd(s, old, new, y, first, At(new, NewWidth(s) - 1)), y, new, first)

DrawAfter(s, y, first) == DrawFrom(s, LineOf(s.curbuf, y), LineOf(s.newbuf, y), y, first)

\* Screen.transformLine
TransformLine(s, y) == DrawAfter(ShowBlanks(s, y), y, FirstCell(s, y))

-----------------------------------------------------------------------------
(***************************************************************************)
(* The scrolling optimisation of package cellbuf (hashmap.go and           *)
(* hardscroll.go): lines that are displayed and wanted on another row are  *)
(* found by their hash, gathered into hunks that move together, and moved  *)
(* by scrolling the terminal.  A hash is the characters of the line here:  *)
(* lines that hash alike by chance are left out.                           *)
(***************************************************************************)

NewIndex == -1
LastRow(s) == NewHeight(s) - 1
ScreenRows(s) == 0..LastRow(s)

Hash(l) == [x \in DOMAIN l |-> OrBlank(l[x]).ch]

-----------------------------------------------------------------------------
(* hashmap.go *)

Rehash(s) ==
  [y \in ScreenRows(s) |->
    IF s.hashes = <<>> \/ y \in s.touch
    THEN [old |-> Hash(LineOf(s.curbuf, y)), new |-> Hash(LineOf(s.newbuf, y))]
    ELSE s.hashes[y]]

\* The row where the line of row y is displayed, when there is only one.
UniquePairs(s) ==
  LET Old(h) == {i \in ScreenRows(s) : s.hashes[i].old = h}
      New(h) == {i \in ScreenRows(s) : s.hashes[i].new = h}
  IN  [y \in ScreenRows(s) |->
        LET h == s.hashes[y].new
        IN  IF Cardinality(Old(h)) = 1 /\ Cardinality(New(h)) = 1 /\ Old(h) # {y}
            THEN CHOOSE i \in Old(h) : TRUE ELSE NewIndex]

UpdateCost(s, from, to) ==
  Cardinality({x \in 0..(NewWidth(s) - 2) : ~CellEqual(At(from, x), At(to, x))})

\* Displaying row to by moving row from costs no more than rewriting it.
CostEffective(s, num, from, to, blank) ==
  LET newFrom == IF num[from] = NewIndex THEN from ELSE num[from]
      Cost2(a, b) == UpdateCost(s, LineOf(s.curbuf, a), LineOf(s.newbuf, b))
      Blank(b) == UpdateCost(s, NoLine, LineOf(s.newbuf, b))
      before == (IF blank THEN Blank(to) ELSE Cost2(to, to)) + Cost2(newFrom, from)
      after == (IF newFrom = from THEN Blank(from) ELSE Cost2(newFrom, from)) + Cost2(from, to)
  IN  from # to /\ before >= after

\* A hunk of that shift takes rows i, i + step, ... up to the limit.
RECURSIVE GrowRows(_, _, _, _, _, _, _)
GrowRows(s, num, i, step, limit, shift, blank) ==
  IF (step < 0 /\ i < limit) \/ (step > 0 /\ i >= limit) THEN [num |-> num, i |-> i]
  ELSE IF \/ s.hashes[i].new = s.hashes[i + shift].old
          \/ CostEffective(s, num, i + shift, i, blank)
  THEN GrowRows(s, [num EXCEPT ![i] = i + shift], i + step, step, limit, shift, blank)
  ELSE [num |-> num, i |-> i]

\* Where the hunk that starts at row i ends, and where the next one starts.
HunkEnd(s, num, i) ==
  Min({k \in (i + 1)..NewHeight(s) :
        k = NewHeight(s) \/ num[k] = NewIndex \/ num[k] - k # num[i] - i})
NextHunk(s, num, from) ==
  Min({k \in from..NewHeight(s) : k = NewHeight(s) \/ num[k] # NewIndex})

GrowBack(s, num, i, shift, limit, ref) ==
  GrowRows(s, num, i - 1, -1, IF shift < 0 THEN ref - shift ELSE limit, shift, shift < 0)
GrowForth(s, num, end, shift, limit, ref) ==
  GrowRows(s, num, end, 1, IF shift > 0 THEN ref - shift ELSE limit, shift, shift > 0)

RECURSIVE GrowHunksFrom(_, _, _, _, _), GrowHunk(_, _, _, _, _, _, _, _), NextFrom(_, _, _, _)
GrowHunksFrom(s, num, i, backLimit, backRef) ==
  IF i >= NewHeight(s) THEN num
  ELSE GrowHunk(s, num, i, num[i] - i, HunkEnd(s, num, i),
                NextHunk(s, num, HunkEnd(s, num, i)), backLimit, backRef)
GrowHunk(s, num, i, shift, end, next, backLimit, backRef) ==
  NextFrom(s, GrowForth(s, GrowBack(s, num, i, shift, backLimit, backRef).num, end, shift, next,
                        IF next = NewHeight(s) \/ num[next] >= next THEN next ELSE num[next]),
           shift, next)
NextFrom(s, forth, shift, next) ==
  GrowHunksFrom(s, forth.num, next, forth.i, forth.i + (IF shift > 0 THEN shift ELSE 0))

GrowHunks(s, num) == GrowHunksFrom(s, num, NextHunk(s, num, 0), 0, 0)

\* The rows around row i that move as it does.
Hunk(s, num, i) ==
  {k \in ScreenRows(s) :
    \A j \in Smaller(i, k)..Larger(i, k) : num[j] # NewIndex /\ num[j] - j = num[i] - i}

\* Hunks that are small, or that move far for their size, are not worth it.
DropHunks(s, num) ==
  [i \in ScreenRows(s) |->
    LET size == Cardinality(Hunk(s, num, i))
        shift == IF num[i] > i THEN num[i] - i ELSE i - num[i]
    IN  IF num[i] = NewIndex \/ size < 3 \/ size + Smaller(size \div 8, 2) < shift
        THEN NewIndex ELSE num[i]]

-----------------------------------------------------------------------------
(* hardscroll.go *)

Many(name, n) == [i \in 1..n |-> <<name, 1>>]
From(s, y, blank) == UpdatePen(Move(s, 0, y), blank)

\* A line feed at the bottom, SU or line feeds, or deleted lines: whichever
\* the rows that scroll, all of minY..maxY or some, allow.
ScrollUpBy(s, n, top, bot, minY, maxY, blank) ==
  IF top = minY /\ bot = maxY
  THEN IF n = 1 THEN Emit(From(s, bot, blank), <<"lf", 1>>)
       ELSE IF "su" \in s.caps THEN Emit(From(s, bot, blank), <<"su", n>>)
       ELSE [From(s, top, blank) EXCEPT !.out = @ \o Many("lf", n)]
  ELSE Emit(From(s, top, blank), <<"dl", n>>)

ScrollDownBy(s, n, top, bot, minY, maxY, blank) ==
  LET how == IF top # minY \/ bot # maxY THEN << <<"il", n>> >>
             ELSE IF n > 1 /\ "sd" \in s.caps THEN << <<"sd", n>> >> ELSE Many("ri", n)
  IN  [From(s, top, blank) EXCEPT !.out = @ \o how]

ScrollBy(s, n, top, bot, minY, maxY, blank) ==
  IF n > 0 THEN ScrollUpBy(s, n, top, bot, minY, maxY, blank)
  ELSE ScrollDownBy(s, -n, top, bot, minY, maxY, blank)

\* Rows that end above the last row scroll in a scrolling region of their own,
\* and setting that leaves the cursor anywhere.
Lost(s, f) == [Emit(s, f) EXCEPT !.cur = [x |-> -1, y |-> -1]]
\* A slip: the scrolling region is not reset.
ScrollInRegion(s, n, top, bot, blank) ==
  ScrollBy(Lost(s, <<"margins", top + 1, bot + 1>>), n, top, bot, top, bot, blank)

ScrollTerminal(s, n, top, bot, blank) ==
  IF bot = LastRow(s) THEN ScrollBy(s, n, top, bot, 0, LastRow(s), blank)
  ELSE Lost(ScrollBy(Lost(s, <<"margins", top + 1, bot + 1>>), n, top, bot, top, bot, blank),
            <<"margins", 1, LastRow(s) + 1>>)

ShiftRows(rows, n, top, bot, new) ==
  [y \in DOMAIN rows |-> IF y \notin top..bot THEN rows[y]
                         ELSE IF y + n \in top..bot THEN rows[y + n] ELSE new]

\* A slip: the rows that come in are not blanked.
ScrollOverBuffer(s, n, top, bot, blank) ==
  [s EXCEPT !.curbuf = [y \in DOMAIN @ |-> IF {y, y + n} \subseteq top..bot THEN @[y + n] ELSE @[y]],
            !.touch = @ \union (top..bot)]

\* Screen.scrollBuffer and scrollOldhash: what is believed to be displayed.
ScrollBuffer(s, n, top, bot, blank) ==
  LET blankLine == [x \in 0..(Width(s.curbuf) - 1) |-> blank]
      olds == ShiftRows([y \in DOMAIN s.hashes |-> s.hashes[y].old], n, top, bot, Hash(blankLine))
  IN  [s EXCEPT !.curbuf = ShiftRows(@, n, top, bot, blankLine), !.touch = @ \union (top..bot),
                !.hashes = [y \in DOMAIN @ |-> [@[y] EXCEPT !.old = olds[y]]]]

\* Screen.scrolln
Scrolln(s, n, top, bot) ==
  ScrollBuffer(ScrollTerminal(s, n, top, bot, ClearBlank(s)), n, top, bot, ClearBlank(s))

\* The first pass moves hunks up, from the top; the second moves hunks down,
\* from the bottom.
RECURSIVE ScrollUpFrom(_, _, _), ScrollDownFrom(_, _, _)
ScrollUpFrom(s, num, i) ==
  LET shift == num[i] - i
      end == Min({k \in i..LastRow(s) : k = LastRow(s) \/ num[k + 1] = NewIndex
                                     \/ num[k + 1] - (k + 1) # shift})
  IN  IF i > LastRow(s) THEN s
      ELSE IF num[i] = NewIndex \/ num[i] <= i THEN ScrollUpFrom(s, num, i + 1)
      ELSE ScrollUpFrom(Scrolln(s, shift, i, end + shift), num, end + 1)
ScrollDownFrom(s, num, i) ==
  LET shift == num[i] - i
      start == Max({k \in 0..i : k = 0 \/ num[k - 1] = NewIndex
                                 \/ num[k - 1] - (k - 1) # shift})
  IN  IF i < 0 THEN s
      ELSE IF num[i] = NewIndex \/ num[i] >= i THEN ScrollDownFrom(s, num, i - 1)
      ELSE ScrollDownFrom(Scrolln(s, shift, start + shift, i), num, start - 1)

\* Screen.scrollOptimize
ScrollBoth(s, num) == ScrollDownFrom(ScrollUpFrom(s, num, 0), num, LastRow(s))
Hunks(s) == GrowHunks(s, DropHunks(s, GrowHunks(s, UniquePairs(s))))
ScrollHashed(s) == ScrollBoth(s, Hunks(s))
ScrollOptimize(s) == ScrollHashed([s EXCEPT !.hashes = Rehash(s)])
=============================================================================
