------------------------------ MODULE VtCursor ------------------------------
(***************************************************************************)
(* The cursor of a virtual terminal (vt.Emulator): two screens, each with  *)
(* a cursor, a saved cursor and a scrolling region; the pending-wrap state *)
(* ("phantom") that the two screens share; the modes that change where the *)
(* cursor goes; the tab stops; and the resizing done by the program that   *)
(* embeds the emulator.                                                    *)
(*                                                                         *)
(* Every action is one handler: a printed character, a control character,  *)
(* an escape or control sequence, or a call of Emulator.Resize.  The       *)
(* contents of the cells are the subject of VtHistory; here only positions *)
(* matter.  Columns and rows count from 0, as in the code, and a region is *)
(* half-open: right and bottom are exclusive (uv.Rectangle).               *)
(***************************************************************************)
EXTENDS Geometry, FiniteSets

CONSTANTS
  Sizes,       \* the sizes [w, h] the embedding program may choose
  Params,      \* the counts and positions a control sequence may carry
  Margins,     \* the margins a control sequence may carry
  CellWidths,  \* the widths of the characters that are printed
  Groups       \* the optional groups of control functions that are in use:
               \* "alt", "save", "lr" (left/right margins), "tabs"

ASSUME SizesAssumption == Sizes \subseteq [w : Nat \ {0}, h : Nat \ {0}]
ASSUME ParamsAssumption == Params \subseteq Nat
ASSUME MarginsAssumption == Margins \subseteq Nat
ASSUME CellWidthsAssumption == CellWidths \subseteq 0..2

VARIABLES
  size,      \* the size of both screens
  active,    \* the screen e.scr points to
  cur,       \* per screen: the cursor position
  saved,     \* per screen: the saved cursor position
  scroll,    \* per screen: the scrolling region
  phantom,   \* e.atPhantom: the last column was written, the wrap is pending
  modes,     \* the set of modes that are set, of those below
  tabs       \* the columns with a tab stop

vars == <<size, active, cur, saved, scroll, phantom, modes, tabs>>

Screens == {"main", "alt"}
Modes == {"origin", "autowrap", "newline", "lrmargin"}

-----------------------------------------------------------------------------
(* The active screen *)

Cursor == cur[active]
Region == scroll[active]
Origin == "origin" \in modes
Autowrap == "autowrap" \in modes

-----------------------------------------------------------------------------
(* Screen: where its methods put the cursor *)

\* Screen.setCursor, without margins: bounded by the screen.
OnScreen(x, y) == Pos(Clamp(x, 0, size.w - 1), Clamp(y, 0, size.h - 1))

\* Screen.setCursor, with margins: relative to the region and bounded by it.
InRegion(x, y) ==
  Pos(Clamp(Region.left + x, Region.left, Region.right - 1),
      Clamp(Region.top + y, Region.top, Region.bottom - 1))

SetCursor(x, y, margins) == IF margins THEN InRegion(x, y) ELSE OnScreen(x, y)

\* A slip: movement bounded by the screen only.
MoveCursorOnScreen(c, dx, dy) == OnScreen(c.x + dx, c.y + dy)

\* Screen.moveCursor: a cursor beside the region sees it as reaching the edge
\* of the screen on that side; above or below it only the screen bounds it.
MoveCursor(c, dx, dy) ==
  LET r == [Region EXCEPT
              !.left = IF c.x < Region.left THEN 0 ELSE @,
              !.right = IF c.x >= Region.right THEN size.w ELSE @]
  IN  IF In(c, r)
      THEN Pos(Clamp(c.x + dx, r.left, r.right - 1),
               Clamp(c.y + dy, r.top, r.bottom - 1))
      ELSE OnScreen(c.x + dx, c.y + dy)

\* Screen.ScrollUp and ScrollDown go to the top margin, delete or insert
\* lines there and put the cursor back, bounded by the screen.
Scrolled(c) == OnScreen(c.x, c.y)

-----------------------------------------------------------------------------
(* Emulator: where its methods put the cursor *)

\* Emulator.index: scroll at the bottom margin, else move down.
Index(c) ==
  IF c.y = Region.bottom - 1 /\ WithinColumns(c, Region)
  THEN Scrolled(c)
  ELSE IF c.y < Region.bottom - 1 \/ ~In(c, Region)
       THEN MoveCursor(c, 0, 1)
       ELSE c

\* Emulator.carriageReturn, from position c.
CarriageReturn(c) ==
  IF Origin THEN SetCursor(0, c.y, TRUE)
  ELSE OnScreen(IF In(c, Region) THEN Region.left ELSE 0, c.y)

\* uv.TabStops: the n-th stop to the right, or the last column.
NextTab(x, n) ==
  IF n = 0 \/ x >= size.w - 1 THEN x
  ELSE LET nth == {t \in tabs : /\ x < t /\ t < size.w - 1
                                /\ Cardinality({u \in tabs : x < u /\ u <= t}) = n}
       IN  IF nth = {} THEN size.w - 1 ELSE CHOOSE t \in nth : TRUE

\* uv.TabStops: the n-th stop to the left, or the first column.
PrevTab(x, n) ==
  IF n = 0 \/ x < 1 THEN x
  ELSE LET nth == {t \in tabs : /\ t < x
                                /\ Cardinality({u \in tabs : t <= u /\ u < x}) = n}
       IN  IF nth = {} THEN 0 ELSE CHOOSE t \in nth : TRUE

\* uv.DefaultTabStops: a stop every eight columns.
DefaultTabStops(width) == {c \in 0..(width - 1) : c % 8 = 0}

\* A slip: the pending wrap is not recorded in the last column.
PrintedForgetful(c, ph, width) ==
  LET at == IF ph /\ Autowrap THEN Pos(0, Index(c).y) ELSE c
  IN  [at |-> at, next |-> OnScreen(at.x + width, at.y), phantom |-> FALSE]

\* Emulator.handleGrapheme on a cursor c in pending-wrap state ph: the cell
\* that is written, where the cursor ends and the new pending-wrap state.
Printed(c, ph, width) ==
  LET wrap == ph /\ Autowrap
      at == IF wrap THEN Pos(0, Index(c).y) ELSE c
      full == Autowrap /\ at.x >= size.w - 1
  IN  [at |-> at,
       next |-> OnScreen(IF full THEN at.x ELSE at.x + width, at.y),
       phantom |-> full]

-----------------------------------------------------------------------------
Init ==
  /\ size \in Sizes
  /\ active = "main"
  /\ cur = [s \in Screens |-> Pos(0, 0)]
  /\ saved = [s \in Screens |-> Pos(0, 0)]
  /\ scroll = [s \in Screens |-> Bounds(size)]
  /\ phantom = FALSE
  /\ modes = {"autowrap"}
  /\ tabs = DefaultTabStops(size.w)

\* The active cursor goes to c; nothing else but the pending wrap changes.
Goto(c, ph) ==
  /\ cur' = [cur EXCEPT ![active] = c]
  /\ phantom' = ph
  /\ UNCHANGED <<size, active, saved, scroll, modes, tabs>>

(* Characters and control characters *)

\* A grapheme cluster of the given width (handlePrint holds it back until the
\* next character, control or end of the write, and always flushes it before
\* another handler runs; REP is a run of these).
HandlePrint(width) ==
  LET p == Printed(Cursor, phantom, width) IN Goto(p.next, p.phantom)

LineFeed ==
  IF "newline" \in modes
  THEN Goto(CarriageReturn(Index(Cursor)), FALSE)
  ELSE Goto(Index(Cursor), FALSE)

IND == Goto(Index(Cursor), FALSE)

\* reverseIndex keeps the pending wrap.
ReverseIndex ==
  Goto(IF Cursor.y = Region.top /\ WithinColumns(Cursor, Region)
       THEN Scrolled(Cursor) ELSE MoveCursor(Cursor, 0, -1), phantom)

CR == Goto(CarriageReturn(Cursor), FALSE)

(* Relative cursor movement; BS is CUB with n = 1 *)

CUU(n) == Goto(MoveCursor(Cursor, 0, -n), FALSE)
CUD(n) == Goto(MoveCursor(Cursor, 0, n), FALSE)
CUF(n) == Goto(MoveCursor(Cursor, n, 0), FALSE)
CUB(n) == Goto(MoveCursor(Cursor, -n, 0), FALSE)
CNL(n) == Goto(CarriageReturn(MoveCursor(Cursor, 0, n)), FALSE)
CPL(n) == Goto(CarriageReturn(MoveCursor(Cursor, 0, -n)), FALSE)

(* Absolute cursor movement *)

CHA(n) == Goto(OnScreen(n - 1, Cursor.y), FALSE)

CUP(row, col) ==
  Goto(SetCursor(Lesser(size.w - 1, Greater(col, 1) - 1),
                 Lesser(size.h - 1, Greater(row, 1) - 1), Origin), FALSE)

\* HVP ignores origin mode.
HVP(row, col) ==
  Goto(OnScreen(Lesser(size.w - 1, col - 1), Lesser(size.h - 1, row - 1)), FALSE)

HPA(n) == Goto(SetCursor(Lesser(size.w - 1, n - 1), Cursor.y, Origin), FALSE)
HPR(n) == Goto(SetCursor(Lesser(size.w - 1, Cursor.x + n), Cursor.y, Origin), FALSE)
VPA(n) == Goto(SetCursor(Cursor.x, Lesser(size.h - 1, n - 1), Origin), FALSE)
VPR(n) == Goto(SetCursor(Cursor.x, Lesser(size.h - 1, Cursor.y + n), Origin), FALSE)

(* Tabs *)

\* nextTab keeps the pending wrap.
CHT(n) ==
  LET t == NextTab(Cursor.x, n)
      x == IF t >= Region.right THEN Lesser(Region.right - 1, size.w - 1) ELSE t
  IN  Goto(OnScreen(x, Cursor.y), phantom)

\* prevTab keeps the pending wrap; the left margin counts in origin mode only.
CBT(n) ==
  LET x == Greater(PrevTab(Cursor.x, n), IF Origin THEN Region.left ELSE 0)
  IN  Goto(OnScreen(x, Cursor.y), phantom)

SetTabs(new) == /\ tabs' = new
                /\ UNCHANGED <<size, active, cur, saved, scroll, phantom, modes>>

HTS == SetTabs(tabs \cup {Cursor.x})
TBC(n) == /\ n \in {0, 3}
          /\ SetTabs(IF n = 0 THEN tabs \ {Cursor.x} ELSE {})
DECST8C == SetTabs(DefaultTabStops(size.w))

(* Editing functions, as far as they move the cursor *)

\* ECH and EL 0 (eraseCharacter) drop the pending wrap.
EraseCharacter == Goto(Cursor, FALSE)

\* SU and SD, whatever their count.
ScrollLines == Goto(Scrolled(Cursor), phantom)

\* IL and DL work inside the region only and then go to the left margin.
InsertOrDeleteLine(n) ==
  /\ n > 0 /\ In(Cursor, Region)
  /\ Goto(SetCursor(0, Cursor.y, TRUE), phantom)

(* Margins *)

SetMargins(r) ==
  /\ scroll' = [scroll EXCEPT ![active] = r]
  /\ cur' = [cur EXCEPT ![active] =
               IF Origin THEN Pos(r.left, r.top) ELSE Pos(0, 0)]
  /\ phantom' = FALSE
  /\ UNCHANGED <<size, active, saved, modes, tabs>>

\* A slip: top < bottom is not checked.
DECSTBMUnchecked(top, bottom) ==
  SetMargins([Region EXCEPT !.top = Greater(top, 1) - 1,
                            !.bottom = IF bottom < 1 THEN size.h ELSE bottom])

\* A missing or zero bottom means the last row; a bottom below the last row is
\* taken as it is.
DECSTBM(top, bottom) ==
  LET t == Greater(top, 1)
      b == IF bottom < 1 THEN size.h ELSE bottom
  IN  /\ t < b
      /\ SetMargins([Region EXCEPT !.top = t - 1, !.bottom = b])

DECSLRM(left, right) ==
  LET l == Greater(left, 1)
      r == IF right < 1 THEN size.w ELSE right
  IN  /\ "lrmargin" \in modes
      /\ l < r
      /\ SetMargins([Region EXCEPT !.left = l - 1, !.right = r])

(* Saving and restoring the cursor: DECSC, SCOSC, mode 1048 set *)

SaveCursor ==
  /\ saved' = [saved EXCEPT ![active] = Cursor]
  /\ UNCHANGED <<size, active, cur, scroll, phantom, modes, tabs>>

\* DECRC and mode 1048 reset: neither the bounds nor the pending wrap are
\* looked at.
RestoreCursor == Goto(saved[active], phantom)

(* Modes *)

SetMode(m, on) ==
  /\ modes' = IF on THEN modes \cup {m} ELSE modes \ {m}
  /\ UNCHANGED <<size, active, cur, saved, scroll, phantom, tabs>>

\* setAltScreenMode: the alternate screen starts with the cursor of the main
\* screen, which setCursor(0, 0) then moves; leaving it only switches back.
EnterAlt(save) ==
  /\ saved' = IF save THEN [saved EXCEPT ![active] = Cursor] ELSE saved
  /\ active' = "alt"
  /\ cur' = IF active = "main" THEN [cur EXCEPT !["alt"] = Pos(0, 0)] ELSE cur
  /\ phantom' = IF active = "main" THEN FALSE ELSE phantom
  /\ UNCHANGED <<size, scroll, modes, tabs>>

\* A slip: the cursor of the alternate screen is carried back.
LeaveAltCarrying ==
  /\ active' = "main"
  /\ cur' = [cur EXCEPT !["main"] = Cursor]
  /\ UNCHANGED <<size, saved, scroll, phantom, modes, tabs>>

LeaveAlt ==
  /\ active' = "main"
  /\ UNCHANGED <<size, cur, saved, scroll, phantom, modes, tabs>>

(* The whole terminal *)

\* RIS: both screens, the tab stops, the modes (whose effects leave the main
\* screen active and its zero cursor restored).
RIS ==
  /\ active' = "main"
  /\ cur' = [s \in Screens |-> Pos(0, 0)]
  /\ saved' = [s \in Screens |-> Pos(0, 0)]
  /\ scroll' = [s \in Screens |-> Bounds(size)]
  /\ phantom' = FALSE
  /\ modes' = {"autowrap"}
  /\ tabs' = DefaultTabStops(size.w)
  /\ UNCHANGED size

\* A slip: the cursor is not brought back inside.
ResizeKeepingCursor(new) ==
  /\ size' = new
  /\ scroll' = [s \in Screens |-> Bounds(new)]
  /\ phantom' = FALSE
  /\ tabs' = DefaultTabStops(new.w)
  /\ UNCHANGED <<active, cur, saved, modes>>

\* Emulator.Resize: both screens get the new size and the full region, only
\* the active cursor is brought back inside.
Resize(new) ==
  LET advance == phantom /\ Cursor.x < new.w - 1
      x == IF advance THEN Cursor.x + 1 ELSE Cursor.x
  IN  /\ size' = new
      /\ scroll' = [s \in Screens |-> Bounds(new)]
      /\ cur' = [cur EXCEPT ![active] =
                   Pos(Clamp(x, 0, new.w - 1), Clamp(Cursor.y, 0, new.h - 1))]
      /\ phantom' = FALSE
      /\ tabs' = DefaultTabStops(new.w)
      /\ UNCHANGED <<active, saved, modes>>

-----------------------------------------------------------------------------
\* The functions that move the cursor relative to where it is.
Relative ==
  \/ \E w \in CellWidths : HandlePrint(w)
  \/ LineFeed \/ IND \/ ReverseIndex
  \/ \E n \in Params : CUU(n) \/ CUD(n) \/ CUF(n) \/ CUB(n)
  \/ EraseCharacter \/ ScrollLines
  \/ "tabs" \in Groups /\ \E n \in Params : CHT(n) \/ CBT(n)

\* The functions that return to the left margin and keep the row.
Returning ==
  \/ CR
  \/ \E n \in Params : InsertOrDeleteLine(n)

Absolute ==
  \/ \E n \in Params : CNL(n) \/ CPL(n)
  \/ \E n \in Params : CHA(n) \/ HPA(n) \/ HPR(n) \/ VPA(n) \/ VPR(n)
  \/ \E row, col \in Params : CUP(row, col) \/ HVP(row, col)

Configure ==
  \/ \E top, bottom \in Margins : DECSTBM(top, bottom)
  \/ "lr" \in Groups /\ \E l, r \in Margins : DECSLRM(l, r)
  \/ \E m \in Modes, on \in BOOLEAN :
       (m = "lrmargin" => "lr" \in Groups) /\ SetMode(m, on)
  \/ "tabs" \in Groups /\ (HTS \/ DECST8C \/ \E n \in Params \cup {3} : TBC(n))
  \/ "save" \in Groups /\ (SaveCursor \/ RestoreCursor)
  \/ "alt" \in Groups /\ (LeaveAlt \/ \E save \in BOOLEAN : EnterAlt(save))
  \/ RIS

Next ==
  \/ Relative \/ Returning \/ Absolute \/ Configure
  \/ \E new \in Sizes : Resize(new)

Spec == Init /\ [][Next]_vars

-----------------------------------------------------------------------------
(* Properties *)

\* The states are well typed: positions are integers, every region has at
\* least one column and one row and starts on the screen.
TypeOK ==
  /\ size \in Sizes
  /\ active \in Screens
  /\ cur \in [Screens -> [x : Int, y : Int]]
  /\ saved \in [Screens -> [x : Int, y : Int]]
  /\ scroll \in [Screens -> [left : Nat, top : Nat, right : Nat, bottom : Nat]]
  /\ \A s \in Screens : scroll[s].left < scroll[s].right /\ scroll[s].top < scroll[s].bottom
  /\ phantom \in BOOLEAN
  /\ modes \subseteq Modes
  /\ tabs \subseteq Int

\* Every margin a program asks for lies on every screen it may run on; counts
\* and positions may be as large as they like.
HonestMargins == \A sz \in Sizes, n \in Margins : n <= sz.w /\ n <= sz.h

\* No position is kept across a change of size.
NothingKept == \/ \A s, t \in Sizes : s = t
               \/ Groups \cap {"alt", "save"} = {}

\* Neither the cursor of a screen nor its saved cursor is ever off the screen,
\* and neither are the margins (Screen.setCursor, moveCursor, RestoreCursor,
\* Emulator.Resize): every cell written and every position reported exists.
CursorOnScreen ==
  \A s \in Screens :
    /\ In(cur[s], Bounds(size)) /\ In(saved[s], Bounds(size))
    /\ scroll[s].right <= size.w /\ scroll[s].bottom <= size.h

\* What a program does on one screen never reaches the cursor or the saved
\* cursor of the other (setAltScreenMode and the e.scr pointer): only a reset,
\* and the homing of the alternate cursor on entry, touch a screen that is not
\* shown.
ScreenIsolation ==
  [][\/ \A s \in Screens \ {active} :
          /\ saved'[s] = saved[s]
          /\ cur'[s] = cur[s] \/ (s = "alt" /\ active' = "alt")
     \/ RIS]_vars

\* A cursor between the top and bottom margins stays between them whatever is
\* printed, fed, indexed or moved relatively (index, reverseIndex,
\* moveCursor, handleGrapheme): a program that confines its scrolling to a
\* region cannot drift out of it.
RelativeStaysInRows ==
  [][Relative /\ Region.top <= Cursor.y /\ Cursor.y < Region.bottom
       => Region.top <= cur'[active].y /\ cur'[active].y < Region.bottom]_vars

\* With autowrap, the character printed after another never lands on a cell
\* that the first one occupies (handleGrapheme's pending wrap).
NoSelfOverwrite ==
  Autowrap /\ size.w >= 2 =>
    \A w1, w2 \in CellWidths \ {0} :
      LET first == Printed(Cursor, phantom, w1)
          second == Printed(first.next, first.phantom, w2)
      IN  second.at.y = first.at.y =>
            second.at.x \notin first.at.x..(first.at.x + w1 - 1)
=============================================================================
