------------------------------ MODULE VtHistory ------------------------------
(***************************************************************************)
(* The lines of a virtual terminal (vt.Emulator, vt.Screen) and what       *)
(* becomes of them: cells are written, lines are inserted, deleted and     *)
(* scrolled within a region, and lines that leave at the top are kept in   *)
(* the scrollback of their screen (vt.Scrollback).                         *)
(*                                                                         *)
(* Where the cursor can be is the subject of VtCursor: here every action   *)
(* is one handler that runs with the cursor at some position c of the      *)
(* screen, which a program can always choose first (CUP).  (Margins past   *)
(* the screen let the cursor out; what is edited from there is what is     *)
(* edited from the nearest position of the screen, or nothing.)  A cell    *)
(* holds the number of the write that filled it, so that a line keeps its  *)
(* identity while it moves.                                                *)
(***************************************************************************)
EXTENDS Geometry, FiniteSets, Sequences, SequencesExt

CONSTANTS
  Sizes,                  \* the sizes [w, h] the embedding program may choose
  Counts,                 \* the counts a control sequence may carry
  TopMargins,             \* the top margins programs ask for
  Past,                   \* how far past the screen other margins may lie
  Limits,                 \* the scrollback sizes the embedding program sets
  DefaultScrollbackSize,  \* the scrollback size of a new screen
  MaxWrites,              \* bound: how many cells are written
  LogOnly,                \* programs write only below what they wrote before
  Groups                  \* in use: "alt", "lr" (left/right margins), "resize"

ASSUME SizesAssumption == Sizes \subseteq [w : Nat \ {0}, h : Nat \ {0}]
ASSUME CountsAssumption == Counts \subseteq Nat /\ TopMargins \subseteq Nat
ASSUME PastAssumption == Past \in Nat
ASSUME LimitsAssumption ==
  Limits \subseteq Nat \ {0} /\ DefaultScrollbackSize \in Nat \ {0}
ASSUME MaxWritesAssumption == MaxWrites \in Nat

VARIABLES
  size,      \* the size of both screens
  active,    \* the screen e.scr points to
  buf,       \* per screen: the cells, row by row
  scroll,    \* per screen: the scrolling region
  history,   \* per screen: the lines of its scrollback, the oldest first
  limit,     \* per screen: how many lines its scrollback keeps
  writes     \* how many cells have been written

vars == <<size, active, buf, scroll, history, limit, writes>>

Screens == {"main", "alt"}
Blank == 0

Region == scroll[active]
Rows(sz) == 0..(sz.h - 1)
Columns(sz) == 0..(sz.w - 1)
Positions == [x : Columns(size), y : Rows(size)]
BlankScreen(sz) == [y \in Rows(sz) |-> [x \in Columns(sz) |-> Blank]]

\* Every column is in the region.
FullWidth == Region.left = 0 /\ Region.right = size.w

\* A region may end past the screen.  The buffer moves cells without looking
\* whether those it reads exist, and a handler that reads others does not
\* return: these are the rows of the region, and the columns, that it reads.
RowsExist(first, last) == first <= last => last < size.h /\ Region.right <= size.w
ColumnsExist(first, last) == first <= last => last < size.w

-----------------------------------------------------------------------------
(* Scrollback *)

LineEmpty(line) == \A x \in DOMAIN line : line[x] = Blank

\* The line that is kept: without the blank cells at its end.
Trimmed(line) ==
  LET kept == {x \in DOMAIN line : \E z \in DOMAIN line : z >= x /\ line[z] # Blank}
  IN  [i \in 1..Cardinality(kept) |-> line[i - 1]]

\* A slip: nothing makes room.
PushUnbounded(log, line, max) == Append(log, Trimmed(line))

\* A slip: the newest line makes room.
PushDroppingNewest(log, line, max) ==
  Append(IF Len(log) >= max THEN Front(log) ELSE log, Trimmed(line))

\* Scrollback.Push: the oldest line makes room.
Push(log, line, max) ==
  Append(IF Len(log) >= max THEN Tail(log) ELSE log, Trimmed(line))

\* These rows are pushed one after another, the empty ones only if wanted.
PushRows(log, rows, empty, max) ==
  LET pushed[i \in 0..Len(rows)] ==
        IF i = 0 THEN log
        ELSE IF LineEmpty(rows[i]) /\ ~empty THEN pushed[i - 1]
        ELSE Push(pushed[i - 1], rows[i], max)
  IN  pushed[Len(rows)]

\* Scrollback.PushN: n lines of the active screen, from row y on.
PushN(log, y, n, max) ==
  PushRows(log, [i \in 1..Lesser(n, size.h - y) |-> buf[active][y + i - 1]], TRUE, max)

\* Scrollback.SetMaxLines, for a positive maximum.
LastLines(log, max) ==
  IF Len(log) > max THEN SubSeq(log, Len(log) - max + 1, Len(log)) ELSE log

-----------------------------------------------------------------------------
(* The buffer of a screen (uv.RenderBuffer) *)

\* InsertLineArea and DeleteLineArea: rows move within the columns and rows of
\* the region, blank rows come in at the other end.
LinesInserted(b, r, y, n) ==
  [j \in DOMAIN b |-> [x \in DOMAIN b[j] |->
     IF ~In(Pos(x, j), r) \/ j < y THEN b[j][x]
     ELSE IF j - n >= y THEN b[j - n][x] ELSE Blank]]

LinesDeleted(b, r, y, n) ==
  [j \in DOMAIN b |-> [x \in DOMAIN b[j] |->
     IF ~In(Pos(x, j), r) \/ j < y THEN b[j][x]
     ELSE IF j + n < r.bottom THEN b[j + n][x] ELSE Blank]]

\* InsertCellArea and DeleteCellArea, within the row of c.
CellsInserted(b, r, c, n) ==
  [b EXCEPT ![c.y] = [x \in DOMAIN b[c.y] |->
     IF ~In(Pos(x, c.y), r) \/ x < c.x THEN b[c.y][x]
     ELSE IF x - n >= c.x THEN b[c.y][x - n] ELSE Blank]]

CellsDeleted(b, r, c, n) ==
  [b EXCEPT ![c.y] = [x \in DOMAIN b[c.y] |->
     IF ~In(Pos(x, c.y), r) \/ x < c.x THEN b[c.y][x]
     ELSE IF x + n < r.right THEN b[c.y][x + n] ELSE Blank]]

\* FillArea with the blank cell.
Cleared(b, areas) ==
  [j \in DOMAIN b |-> [x \in DOMAIN b[j] |->
     IF \E r \in areas : In(Pos(x, j), r) THEN Blank ELSE b[j][x]]]

Rect(x, y, w, h) == [left |-> x, top |-> y, right |-> x + w, bottom |-> y + h]

\* Buffer.Resize: rows and columns are cut off or added at the end.
Resized(b, sz) ==
  [j \in Rows(sz) |-> [x \in Columns(sz) |->
     IF j \in DOMAIN b /\ x \in DOMAIN b[j] THEN b[j][x] ELSE Blank]]

-----------------------------------------------------------------------------
Init ==
  /\ size \in Sizes
  /\ active = "main"
  /\ buf = [s \in Screens |-> BlankScreen(size)]
  /\ scroll = [s \in Screens |-> Bounds(size)]
  /\ history = [s \in Screens |-> <<>>]
  /\ limit = [s \in Screens |-> DefaultScrollbackSize]
  /\ writes = 0

\* A step that changes cells of the active screen only.
Draw(b) ==
  /\ buf' = [buf EXCEPT ![active] = b]
  /\ UNCHANGED <<size, active, scroll, history, limit, writes>>

\* Every row of the active screen from y on is empty.
BelowEverything(y) == \A j \in y..(size.h - 1) : LineEmpty(buf[active][j])

\* A character is written (handleGrapheme); a write that wraps is an Index
\* followed by a write.
Write(c) ==
  /\ writes < MaxWrites
  /\ LogOnly => BelowEverything(c.y)
  /\ writes' = writes + 1
  /\ buf' = [buf EXCEPT ![active][c.y][c.x] = writes + 1]
  /\ UNCHANGED <<size, active, scroll, history, limit>>

(* Line and cell editing *)

InsertLine(c, n) ==
  /\ n > 0 /\ In(c, Region)
  /\ c.y < size.h => RowsExist(c.y, Region.bottom - 1 - n)
  /\ Draw(LinesInserted(buf[active], Region, c.y, n))

\* A slip: as many lines are saved as are asked for, in the region or not.
DeleteLineSavingAll(c, n) ==
  /\ n > 0 /\ In(c, Region)
  /\ c.y < size.h => RowsExist(c.y + n, Region.bottom - 1)
  /\ buf' = [buf EXCEPT ![active] = LinesDeleted(@, Region, c.y, n)]
  /\ history' = [history EXCEPT ![active] =
                   IF c.y = Region.top /\ FullWidth
                   THEN PushN(@, c.y, n, limit[active])
                   ELSE @]
  /\ UNCHANGED <<size, active, scroll, limit, writes>>

\* Deleting lines at the top of a region that spans every column saves them.
DeleteLine(c, n) ==
  /\ n > 0 /\ In(c, Region)
  /\ c.y < size.h => RowsExist(c.y + n, Region.bottom - 1)
  /\ buf' = [buf EXCEPT ![active] = LinesDeleted(@, Region, c.y, n)]
  /\ history' = [history EXCEPT ![active] =
                   IF c.y = Region.top /\ FullWidth
                   THEN PushN(@, c.y, Lesser(n, Region.bottom - c.y), limit[active])
                   ELSE @]
  /\ UNCHANGED <<size, active, scroll, limit, writes>>

InsertCell(c, n) ==
  /\ n > 0 /\ In(c, Region)
  /\ ColumnsExist(c.x, Region.right - 1 - n)
  /\ Draw(CellsInserted(buf[active], Region, c, n))

DeleteCell(c, n) ==
  /\ n > 0 /\ In(c, Region)
  /\ ColumnsExist(c.x + n, Region.right - 1)
  /\ Draw(CellsDeleted(buf[active], Region, c, n))

(* Scrolling: at the top of the region, then the cursor goes back *)

ScrollUp(n) == DeleteLine(Pos(Region.left, Region.top), n)
ScrollDown(n) == InsertLine(Pos(Region.left, Region.top), n)

\* index (LF, IND, a pending wrap) and reverseIndex, when they scroll.
Index(c) == c.y = Region.bottom - 1 /\ WithinColumns(c, Region) /\ ScrollUp(1)
ReverseIndex(c) == c.y = Region.top /\ WithinColumns(c, Region) /\ ScrollDown(1)

(* Erasing *)

EraseCharacter(c, n) ==
  Draw(Cleared(buf[active], {Rect(c.x, c.y, Greater(n, 1), 1)}))

EraseInLine(c, n) ==
  \/ n = 0 /\ EraseCharacter(c, size.w - c.x)
  \/ n = 1 /\ Draw(Cleared(buf[active], {Rect(0, c.y, c.x + 1, 1)}))
  \/ n = 2 /\ Draw(Cleared(buf[active], {Rect(0, c.y, size.w, 1)}))

\* ED 1 erases the whole row of the cursor.
EraseBelowOrAbove(c, n) ==
  \/ n = 0 /\ Draw(Cleared(buf[active], {Rect(c.x, c.y, size.w, 1),
                                          Rect(0, c.y + 1, size.w, size.h - c.y - 1)}))
  \/ n = 1 /\ Draw(Cleared(buf[active], {Rect(0, 0, size.w, c.y + 1)}))

\* A slip: the lines are pushed from the bottom up.
EraseScreenFromBelow ==
  /\ history' = [history EXCEPT ![active] =
       PushRows(@, [i \in 1..size.h |-> buf[active][size.h - i]], FALSE, limit[active])]
  /\ buf' = [buf EXCEPT ![active] = BlankScreen(size)]
  /\ UNCHANGED <<size, active, scroll, limit, writes>>

\* ED 2: Screen.ClearWithScrollback.
EraseScreen ==
  /\ history' = [history EXCEPT ![active] =
       PushRows(@, [i \in 1..size.h |-> buf[active][i - 1]], FALSE, limit[active])]
  /\ buf' = [buf EXCEPT ![active] = BlankScreen(size)]
  /\ UNCHANGED <<size, active, scroll, limit, writes>>

\* ED 3: the screen and its own scrollback.
EraseEverything ==
  /\ buf' = [buf EXCEPT ![active] = BlankScreen(size)]
  /\ history' = [history EXCEPT ![active] = <<>>]
  /\ UNCHANGED <<size, active, scroll, limit, writes>>

(* Margins, screens, resets *)

\* DECSTBM and DECSLRM look at the order of the margins only.
SetMargins(r) ==
  /\ scroll' = [scroll EXCEPT ![active] = r]
  /\ UNCHANGED <<size, active, buf, history, limit, writes>>

DECSTBM(top, bottom) ==
  /\ top < bottom
  /\ SetMargins([Region EXCEPT !.top = top, !.bottom = bottom])

DECSLRM(left, right) ==
  /\ left < right
  /\ SetMargins([Region EXCEPT !.left = left, !.right = right])

\* A slip: the screen that is left is cleared.
EnterAltClearingMain ==
  /\ active = "main"
  /\ active' = "alt"
  /\ buf' = [buf EXCEPT ![active] = BlankScreen(size)]
  /\ UNCHANGED <<size, scroll, history, limit, writes>>

\* The alternate screen is cleared when it is entered.
EnterAlt ==
  /\ active = "main"
  /\ active' = "alt"
  /\ buf' = [buf EXCEPT !["alt"] = BlankScreen(size)]
  /\ UNCHANGED <<size, scroll, history, limit, writes>>

LeaveAlt ==
  /\ active = "alt"
  /\ active' = "main"
  /\ UNCHANGED <<size, buf, scroll, history, limit, writes>>

\* RIS clears both screens; it keeps their scrollback.
RIS ==
  /\ active' = "main"
  /\ buf' = [s \in Screens |-> BlankScreen(size)]
  /\ scroll' = [s \in Screens |-> Bounds(size)]
  /\ UNCHANGED <<size, history, limit, writes>>

(* The embedding program *)

Resize(new) ==
  /\ size' = new
  /\ buf' = [s \in Screens |-> Resized(buf[s], new)]
  /\ scroll' = [s \in Screens |-> Bounds(new)]
  /\ UNCHANGED <<active, history, limit, writes>>

\* A slip: the oldest lines are the ones that are kept.
SetScrollbackSizeKeepingOldest(max) ==
  /\ limit' = [limit EXCEPT !["main"] = max]
  /\ history' = [history EXCEPT !["main"] = SubSeq(@, 1, Lesser(max, Len(@)))]
  /\ UNCHANGED <<size, active, buf, scroll, writes>>

\* SetScrollbackSize and ClearScrollback: always those of the main screen.
SetScrollbackSize(max) ==
  /\ limit' = [limit EXCEPT !["main"] = max]
  /\ history' = [history EXCEPT !["main"] = LastLines(@, max)]
  /\ UNCHANGED <<size, active, buf, scroll, writes>>

ClearScrollback ==
  /\ history' = [history EXCEPT !["main"] = <<>>]
  /\ UNCHANGED <<size, active, buf, scroll, limit, writes>>

\* Emulator.Scrollback, which every screen sees.
Scrollback == history["main"]

-----------------------------------------------------------------------------
Editing ==
  \E c \in Positions :
    \/ Write(c)
    \/ \E n \in Counts : InsertLine(c, n) \/ DeleteLine(c, n)
    \/ \E n \in Counts : size.w > 1 /\ (InsertCell(c, n) \/ DeleteCell(c, n))
    \/ \E n \in Counts : EraseCharacter(c, n)
    \/ \E n \in 0..2 : EraseInLine(c, n)
    \/ \E n \in 0..1 : EraseBelowOrAbove(c, n)

Scrolling ==
  \/ \E n \in Counts : ScrollUp(n)
  \/ \E c \in Positions : Index(c)
  \/ EraseScreen

Program ==
  \/ Editing \/ Scrolling
  \/ \E n \in Counts : ScrollDown(n)
  \/ \E c \in Positions : ReverseIndex(c)
  \/ EraseEverything
  \/ \E top \in TopMargins, bottom \in 1..(size.h + Past) : DECSTBM(top, bottom)
  \/ "lr" \in Groups /\ \E l \in 0..(size.w + Past - 1), r \in 1..(size.w + Past) :
                           DECSLRM(l, r)
  \/ "alt" \in Groups /\ (EnterAlt \/ LeaveAlt)

Embedder ==
  \/ "resize" \in Groups /\ \E new \in Sizes : Resize(new)
  \/ \E max \in Limits : SetScrollbackSize(max)
  \/ ClearScrollback

Next == Program \/ RIS \/ Embedder

Spec == Init /\ [][Next]_vars

-----------------------------------------------------------------------------
(* Properties *)

Lines(s) == history[s] \o [i \in 1..size.h |-> Trimmed(buf[s][i - 1])]

\* The lines that are not empty, in their order.
NonBlank(lines) ==
  LET first[i \in 0..Len(lines)] ==
        IF i = 0 THEN <<>>
        ELSE IF lines[i] = <<>> THEN first[i - 1]
        ELSE Append(first[i - 1], lines[i])
  IN  first[Len(lines)]

\* Where the cells of a screen of size sz and of its scrollback are: rows count
\* from the top of the screen, the newest line of the scrollback is row -1.
RowLength(sz, log, y) == IF y >= 0 THEN sz.w ELSE Len(log[Len(log) + 1 + y])
Places(sz, log) ==
  UNION {{Pos(x, y) : x \in 0..(RowLength(sz, log, y) - 1)} :
           y \in (-Len(log))..(sz.h - 1)}
Cell(b, log, p) ==
  IF p.y >= 0 THEN b[p.y][p.x] ELSE log[Len(log) + 1 + p.y][p.x + 1]
Before(p, q) == p.y < q.y \/ (p.y = q.y /\ p.x < q.x)

\* The states are well typed: every buffer has the cells of the screen and no
\* others, a region has a row and a column, wherever they are, and a scrollback
\* holds trimmed lines and never more than its limit.
TypeOK ==
  /\ size \in Sizes /\ active \in Screens /\ writes \in 0..MaxWrites
  /\ buf \in [Screens -> [Rows(size) -> [Columns(size) -> 0..MaxWrites]]]
  /\ limit \in [Screens -> Limits \cup {DefaultScrollbackSize}]
  /\ \A s \in Screens :
       /\ 0 <= scroll[s].left /\ scroll[s].left < scroll[s].right
       /\ 0 <= scroll[s].top /\ scroll[s].top < scroll[s].bottom
       /\ Len(history[s]) <= limit[s]
       /\ \A i \in DOMAIN history[s] :
            history[s][i] # <<>> => Last(history[s][i]) # Blank

\* A written cell is in one place only: on a screen or in its scrollback, once
\* (DeleteLine and ClearWithScrollback copy lines into the scrollback and must
\* remove exactly these lines from the screen).
WrittenOnce ==
  \A s, t \in Screens :
    \A p \in Places(size, history[s]), q \in Places(size, history[t]) :
      /\ Cell(buf[s], history[s], p) # Blank
      /\ Cell(buf[s], history[s], p) = Cell(buf[t], history[t], q)
      => s = t /\ p = q

\* Scrolling a region that spans the screen from its top, and erasing the
\* screen, lose no line and keep the order of lines: the oldest lines of a full
\* scrollback are all that goes (Screen.ScrollUp, DeleteLine,
\* ClearWithScrollback, Scrollback.Push).
ScrollingConserves ==
  [][Scrolling /\ FullWidth /\ Region.top = 0 =>
       LET before == NonBlank(Lines(active))
           after == NonBlank(Lines(active)')
       IN  /\ IsSuffix(after, before)
           /\ after # before => Len(history'[active]) = limit[active]]_vars

\* What a program writes as a log, each line below the last, is read back in
\* that order from the scrollback and the screen together, whatever is
\* inserted, deleted, scrolled, erased or resized in between.
ReadInOrder ==
  LogOnly =>
    \A p, q \in Places(size, history["main"]) :
      LET first == Cell(buf["main"], history["main"], p)
          second == Cell(buf["main"], history["main"], q)
      IN  first # Blank /\ second # Blank /\ Before(p, q) => first < second

\* The main screen and its scrollback are as they were when the program comes
\* back from the alternate screen (setAltScreenMode, and every method that works
\* on e.scr): only a reset and the embedding program reach them meanwhile.
AlternateLeavesMain ==
  [][\/ active = "main" /\ active' = "main"
     \/ buf'["main"] = buf["main"] /\ history'["main"] = history["main"]
     \/ RIS \/ Embedder]_vars

\* The scrollback of the main screen is a bounded log.
Log == INSTANCE ScrollLog WITH
         log <- history["main"], limit <- limit["main"],
         Limits <- Limits \cup {DefaultScrollbackSize}

IsScrollLog == Log!Spec
=============================================================================
