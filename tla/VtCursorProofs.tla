--------------------------- MODULE VtCursorProofs ---------------------------
(***************************************************************************)
(* What VtCursor guarantees for every screen size, every parameter and     *)
(* every combination of control functions: the types, the isolation of the *)
(* two screens and, when programs ask for margins that exist and nothing   *)
(* is kept across a resize, that the cursor is always on the screen and    *)
(* relative movement stays within the scrolling region.                    *)
(***************************************************************************)
EXTENDS VtCursor, TLAPS

Positions == [x : Int, y : Int]

-----------------------------------------------------------------------------
(* The position operators *)

\* A clamped number is an integer between its bounds.
LEMMA ClampBounds ==
  ASSUME NEW n \in Int, NEW lo \in Int, NEW hi \in Int
  PROVE  /\ Clamp(n, lo, hi) \in Int
         /\ lo <= hi => lo <= Clamp(n, lo, hi) /\ Clamp(n, lo, hi) <= hi
BY DEF Clamp, Lesser, Greater

\* The size of a screen is a pair of positive numbers.
LEMMA SizeType ==
  ASSUME NEW sz \in Sizes
  PROVE  sz \in [w : Nat \ {0}, h : Nat \ {0}]
BY SizesAssumption

\* What the positions of a well-typed state are made of.
LEMMA CursorType ==
  ASSUME TypeOK
  PROVE  /\ size.w \in Nat \ {0} /\ size.h \in Nat \ {0}
         /\ active \in Screens
         /\ Cursor \in Positions /\ Cursor.x \in Int /\ Cursor.y \in Int
         /\ saved[active] \in Positions
         /\ Region.left \in Nat /\ Region.right \in Nat
         /\ Region.top \in Nat /\ Region.bottom \in Nat
         /\ Region.left < Region.right /\ Region.top < Region.bottom
<1>1. size \in [w : Nat \ {0}, h : Nat \ {0}]
  BY SizeType DEF TypeOK
<1>2. QED
  BY <1>1 DEF TypeOK, Cursor, Region, Positions

\* setCursor without margins ends on the screen.
LEMMA OnScreenFits ==
  ASSUME TypeOK, NEW x \in Int, NEW y \in Int
  PROVE  /\ OnScreen(x, y) \in Positions
         /\ In(OnScreen(x, y), Bounds(size))
<1> DEFINE right == size.w - 1
           bottom == size.h - 1
           X == Clamp(x, 0, right)
           Y == Clamp(y, 0, bottom)
<1>1. size.w \in Nat \ {0} /\ size.h \in Nat \ {0}
  BY CursorType
<1>2. right \in Int /\ 0 <= right /\ bottom \in Int /\ 0 <= bottom
  BY <1>1
<1>3. right < size.w /\ bottom < size.h
  BY <1>1
<1>4. OnScreen(x, y) = Pos(X, Y)
  BY DEF OnScreen
<1> HIDE DEF right, bottom
<1>5. X \in Int /\ 0 <= X /\ X <= right /\ Y \in Int /\ 0 <= Y /\ Y <= bottom
  BY <1>2, ClampBounds
<1> HIDE DEF X, Y
<1>6. QED
  BY <1>1, <1>2, <1>3, <1>4, <1>5 DEF Pos, Positions, In, Bounds

\* setCursor with margins ends in the region.
LEMMA InRegionFits ==
  ASSUME TypeOK, NEW x \in Int, NEW y \in Int
  PROVE  /\ InRegion(x, y) \in Positions
         /\ In(InRegion(x, y), Region)
<1> DEFINE r == Region
           right == r.right - 1
           bottom == r.bottom - 1
           x0 == r.left + x
           y0 == r.top + y
           X == Clamp(x0, r.left, right)
           Y == Clamp(y0, r.top, bottom)
<1>1. /\ r.left \in Nat /\ r.right \in Nat /\ r.left < r.right
      /\ r.top \in Nat /\ r.bottom \in Nat /\ r.top < r.bottom
  BY CursorType
<1>2. /\ right \in Int /\ r.left <= right /\ right < r.right
      /\ bottom \in Int /\ r.top <= bottom /\ bottom < r.bottom
      /\ x0 \in Int /\ y0 \in Int /\ r.left \in Int /\ r.top \in Int
  BY <1>1
<1>3. InRegion(x, y) = Pos(X, Y)
  BY DEF InRegion
<1> HIDE DEF right, bottom, x0, y0
<1>4. X \in Int /\ r.left <= X /\ X <= right /\ Y \in Int /\ r.top <= Y /\ Y <= bottom
  BY <1>2, ClampBounds
<1> HIDE DEF X, Y
<1>5. QED
  BY <1>1, <1>2, <1>3, <1>4 DEF Pos, Positions, In

\* setCursor ends at a position, whatever its margins flag.
LEMMA SetCursorType ==
  ASSUME TypeOK, NEW x \in Int, NEW y \in Int, NEW m \in BOOLEAN
  PROVE  SetCursor(x, y, m) \in Positions
BY OnScreenFits, InRegionFits DEF SetCursor
\* The region of the active screen does not reach past it.
RegionFits == Region.right <= size.w /\ Region.bottom <= size.h

RowIn(p, r) == r.top <= p.y /\ p.y < r.bottom

\* A cursor on a screen whose region fits.
Inside(c) == RegionFits /\ In(c, Bounds(size))

\* An operator that yields p from the cursor c is well behaved: it yields a
\* position, keeps a cursor on the screen there, and in the rows of the region
\* if it was there.
Behaves(c, p) ==
  /\ p \in Positions
  /\ Inside(c) => In(p, Bounds(size))
  /\ Inside(c) /\ RowIn(c, Region) => RowIn(p, Region)

\* moveCursor is well behaved.
LEMMA MoveCursorBehaves ==
  ASSUME TypeOK, NEW c \in Positions, NEW dx \in Int, NEW dy \in Int
  PROVE  Behaves(c, MoveCursor(c, dx, dy))
<1> DEFINE left == IF c.x < Region.left THEN 0 ELSE Region.left
           right == IF c.x >= Region.right THEN size.w ELSE Region.right
           r == [Region EXCEPT !.left = left, !.right = right]
           hiX == right - 1
           hiY == Region.bottom - 1
           x0 == c.x + dx
           y0 == c.y + dy
           X == Clamp(x0, left, hiX)
           Y == Clamp(y0, Region.top, hiY)
<1>1. /\ size.w \in Nat \ {0} /\ size.h \in Nat \ {0}
      /\ Region.left \in Nat /\ Region.right \in Nat /\ Region.left < Region.right
      /\ Region.top \in Nat /\ Region.bottom \in Nat /\ Region.top < Region.bottom
  BY CursorType
<1>2. Region \in [left : Nat, top : Nat, right : Nat, bottom : Nat]
  BY DEF TypeOK, Region
<1>3. c.x \in Int /\ c.y \in Int
  BY DEF Positions
<1>4. /\ r.left = left /\ r.right = right
      /\ r.top = Region.top /\ r.bottom = Region.bottom
  BY <1>2
<1>5. /\ left \in Int /\ right \in Int /\ hiX \in Int /\ hiY \in Int
      /\ x0 \in Int /\ y0 \in Int /\ Region.top \in Int
      /\ hiX < right /\ hiY < Region.bottom /\ Region.top <= hiY /\ 0 <= left
  BY <1>1, <1>3
<1>6. MoveCursor(c, dx, dy) = IF In(c, r) THEN Pos(X, Y) ELSE OnScreen(x0, y0)
  BY <1>4 DEF MoveCursor
<1>7. /\ OnScreen(x0, y0) \in Positions
      /\ In(OnScreen(x0, y0), Bounds(size))
  BY <1>5, OnScreenFits
<1>8. Inside(c) => /\ right <= size.w /\ Region.bottom <= size.h
                   /\ left < right /\ left <= c.x /\ c.x < right
  BY <1>1, <1>3 DEF Inside, RegionFits, In, Bounds
<1>9. Inside(c) /\ RowIn(c, Region) => In(c, r)
  BY <1>4, <1>8 DEF In, RowIn
<1>10. left < right => left <= hiX
  BY <1>5
<1> HIDE DEF left, right, r, hiX, hiY, x0, y0
<1>11. /\ X \in Int /\ (left <= hiX => left <= X /\ X <= hiX)
       /\ Y \in Int /\ Region.top <= Y /\ Y <= hiY
  BY <1>5, ClampBounds
<1> HIDE DEF X, Y
<1>12. CASE In(c, r)
  <2>1. MoveCursor(c, dx, dy) = Pos(X, Y)
    BY <1>6, <1>12
  <2>2. Pos(X, Y) \in Positions
    BY <1>11 DEF Pos, Positions
  <2>3. Inside(c) => In(Pos(X, Y), Bounds(size))
    BY <1>1, <1>5, <1>8, <1>10, <1>11 DEF Pos, In, Bounds
  <2>4. RowIn(Pos(X, Y), Region)
    BY <1>1, <1>5, <1>11 DEF Pos, RowIn
  <2>5. QED
    BY <2>1, <2>2, <2>3, <2>4 DEF Behaves
<1>13. CASE ~In(c, r)
  BY <1>6, <1>7, <1>9, <1>13 DEF Behaves
<1>14. QED
  BY <1>12, <1>13

\* SU and SD put the cursor back where it was, or on the screen.
LEMMA ScrolledBehaves ==
  ASSUME TypeOK, NEW c \in Positions
  PROVE  Behaves(c, Scrolled(c))
<1>1. c.x \in Int /\ c.y \in Int
  BY DEF Positions
<1>2. /\ Scrolled(c) \in Positions
      /\ In(Scrolled(c), Bounds(size))
  BY <1>1, OnScreenFits DEF Scrolled
<1>3. Inside(c) => Scrolled(c).y = c.y
  BY <1>1, CursorType DEF Inside, In, Bounds, Scrolled, OnScreen, Pos, Clamp, Lesser, Greater
<1>4. QED
  BY <1>2, <1>3 DEF Behaves, RowIn

\* index is well behaved.
LEMMA IndexBehaves ==
  ASSUME TypeOK, NEW c \in Positions
  PROVE  Behaves(c, Index(c))
<1>1. Behaves(c, MoveCursor(c, 0, 1))
  BY MoveCursorBehaves
<1>2. Behaves(c, Scrolled(c))
  BY ScrolledBehaves
<1>3. Behaves(c, c)
  BY DEF Behaves, Inside
<1>4. QED
  BY <1>1, <1>2, <1>3 DEF Index

\* carriageReturn is well behaved, and ends on the screen wherever it starts.
LEMMA CarriageReturnBehaves ==
  ASSUME TypeOK, NEW c \in Positions
  PROVE  /\ Behaves(c, CarriageReturn(c))
         /\ RegionFits => In(CarriageReturn(c), Bounds(size))
<1> DEFINE x == IF In(c, Region) THEN Region.left ELSE 0
<1>1. c.x \in Int /\ c.y \in Int
  BY DEF Positions
<1>2. InRegion(0, c.y) \in Positions /\ In(InRegion(0, c.y), Region)
  BY <1>1, InRegionFits
<1>3. RegionFits => In(InRegion(0, c.y), Bounds(size))
  BY <1>2, CursorType DEF RegionFits, In, Bounds, Positions
<1>4. x \in Int
  BY CursorType
<1>5. OnScreen(x, c.y) \in Positions /\ In(OnScreen(x, c.y), Bounds(size))
  BY <1>1, <1>4, OnScreenFits
<1>6. Inside(c) => OnScreen(x, c.y).y = c.y
  BY <1>1, CursorType DEF Inside, In, Bounds, OnScreen, Pos, Clamp, Lesser, Greater
<1>7. CarriageReturn(c) = IF Origin THEN InRegion(0, c.y) ELSE OnScreen(x, c.y)
  BY DEF CarriageReturn, SetCursor
<1> HIDE DEF x
<1>8. CASE Origin
  BY <1>2, <1>3, <1>7, <1>8 DEF Behaves, Inside, In, RowIn
<1>9. CASE ~Origin
  BY <1>5, <1>6, <1>7, <1>9 DEF Behaves, RowIn
<1>10. QED
  BY <1>8, <1>9

\* Well-behaved moves can be chained.
LEMMA BehavesChain ==
  ASSUME NEW a, NEW b, NEW c, Behaves(a, b), Behaves(b, c)
  PROVE  Behaves(a, c)
BY DEF Behaves, Inside

\* Printing is well behaved.
LEMMA PrintedBehaves ==
  ASSUME TypeOK, NEW c \in Positions, NEW ph \in BOOLEAN, NEW w \in CellWidths
  PROVE  /\ Behaves(c, Printed(c, ph, w).next)
         /\ Printed(c, ph, w).phantom \in BOOLEAN
<1> DEFINE at == IF ph /\ Autowrap THEN Pos(0, Index(c).y) ELSE c
           full == Autowrap /\ at.x >= size.w - 1
           x == IF full THEN at.x ELSE at.x + w
<1>1. w \in Int
  BY CellWidthsAssumption
<1>2. c.x \in Int /\ c.y \in Int
  BY DEF Positions
<1>3. Behaves(c, Index(c)) /\ Index(c).y \in Int
  BY IndexBehaves DEF Behaves, Positions
<1>4. at.x \in Int /\ at.y \in Int
  BY <1>2, <1>3 DEF Pos
<1>5. Inside(c) => at.y = c.y \/ at.y = Index(c).y
  BY DEF Pos
<1>6. Inside(c) => 0 <= at.y /\ at.y < size.h
  BY <1>3, <1>5 DEF Behaves, Inside, In, Bounds
<1>7. Inside(c) /\ RowIn(c, Region) => Region.top <= at.y /\ at.y < Region.bottom
  BY <1>3, <1>5 DEF Behaves, RowIn
<1>8. /\ Printed(c, ph, w).next = OnScreen(x, at.y)
      /\ Printed(c, ph, w).phantom = full
  BY DEF Printed
<1>9. x \in Int /\ full \in BOOLEAN
  BY <1>1, <1>4 DEF Autowrap
<1> HIDE DEF x, at, full
<1>10. OnScreen(x, at.y) \in Positions /\ In(OnScreen(x, at.y), Bounds(size))
  BY <1>4, <1>9, OnScreenFits
<1>11. Inside(c) => OnScreen(x, at.y).y = at.y
  BY <1>4, <1>6, CursorType DEF OnScreen, Pos, Clamp, Lesser, Greater
<1>12. QED
  BY <1>7, <1>8, <1>9, <1>10, <1>11 DEF Behaves, RowIn

\* Tab stops are columns.
LEMMA TabType ==
  ASSUME TypeOK, NEW x \in Int, NEW n \in Nat
  PROVE  NextTab(x, n) \in Int /\ PrevTab(x, n) \in Int
<1> DEFINE right == {t \in tabs : /\ x < t /\ t < size.w - 1
                                  /\ Cardinality({u \in tabs : x < u /\ u <= t}) = n}
           left == {t \in tabs : /\ t < x
                                 /\ Cardinality({u \in tabs : t <= u /\ u < x}) = n}
           next == CHOOSE t \in right : TRUE
           prev == CHOOSE t \in left : TRUE
<1>1. right \subseteq Int /\ left \subseteq Int
  BY DEF TypeOK
<1>2. /\ NextTab(x, n) = IF n = 0 \/ x >= size.w - 1 THEN x
                         ELSE IF right = {} THEN size.w - 1 ELSE next
      /\ PrevTab(x, n) = IF n = 0 \/ x < 1 THEN x
                         ELSE IF left = {} THEN 0 ELSE prev
  BY DEF NextTab, PrevTab
<1> HIDE DEF right, left
<1>3. right # {} => next \in right
  <2>1. right # {} => \E t : t \in right
    OBVIOUS
  <2>2. QED
    BY <2>1
<1>4. left # {} => prev \in left
  <2>1. left # {} => \E t : t \in left
    OBVIOUS
  <2>2. QED
    BY <2>1
<1> HIDE DEF next, prev
<1>5. size.w - 1 \in Int
  BY CursorType
<1>6. right = {} \/ next \in Int
  BY <1>1, <1>3
<1>7. left = {} \/ prev \in Int
  BY <1>1, <1>4
<1>8. NextTab(x, n) \in Int
  BY <1>2, <1>5, <1>6
<1>9. PrevTab(x, n) \in Int
  BY <1>2, <1>7
<1>10. QED
  BY <1>8, <1>9

-----------------------------------------------------------------------------
(* The moves of the cursor *)

\* The shape of a step that only moves the active cursor.
Moves(p, ph) == p \in Positions /\ ph \in BOOLEAN /\ Goto(p, ph)

\* A relative move is well behaved.
LEMMA RelativeMoves ==
  ASSUME TypeOK, Relative
  PROVE  \E p, ph : Moves(p, ph) /\ Behaves(Cursor, p)
<1> DEFINE Goal == \E p, ph : Moves(p, ph) /\ Behaves(Cursor, p)
<1>1. Cursor \in Positions /\ phantom \in BOOLEAN
  BY CursorType DEF TypeOK
<1>2. ASSUME NEW p, NEW ph \in BOOLEAN, Behaves(Cursor, p), Goto(p, ph)
      PROVE  Goal
  BY <1>2 DEF Moves, Behaves
<1>3. Behaves(Cursor, Cursor)
  BY <1>1 DEF Behaves, Inside
<1> HIDE DEF Goal
<1>4. ASSUME NEW w \in CellWidths, HandlePrint(w)
      PROVE  Goal
  BY <1>1, <1>2, <1>4, PrintedBehaves DEF HandlePrint
<1>5. Behaves(Cursor, Index(Cursor)) /\ Index(Cursor) \in Positions
  BY <1>1, IndexBehaves DEF Behaves
<1>6. Behaves(Cursor, CarriageReturn(Index(Cursor)))
  BY <1>5, CarriageReturnBehaves, BehavesChain
<1>7. ASSUME LineFeed \/ IND
      PROVE  Goal
  BY <1>2, <1>5, <1>6, <1>7 DEF LineFeed, IND
<1>8. ASSUME ReverseIndex
      PROVE  Goal
  <2>1. Behaves(Cursor, Scrolled(Cursor)) /\ Behaves(Cursor, MoveCursor(Cursor, 0, -1))
    BY <1>1, ScrolledBehaves, MoveCursorBehaves
  <2>2. QED
    BY <1>1, <1>2, <1>8, <2>1 DEF ReverseIndex
<1>9. ASSUME NEW n \in Params, CUU(n) \/ CUD(n) \/ CUF(n) \/ CUB(n)
      PROVE  Goal
  <2>1. n \in Int /\ -n \in Int
    BY ParamsAssumption
  <2>2. /\ Behaves(Cursor, MoveCursor(Cursor, 0, n))
        /\ Behaves(Cursor, MoveCursor(Cursor, 0, -n))
        /\ Behaves(Cursor, MoveCursor(Cursor, n, 0))
        /\ Behaves(Cursor, MoveCursor(Cursor, -n, 0))
    BY <1>1, <2>1, MoveCursorBehaves
  <2>3. QED
    BY <1>2, <1>9, <2>2 DEF CUU, CUD, CUF, CUB
<1>10. ASSUME EraseCharacter \/ ScrollLines
       PROVE  Goal
  BY <1>1, <1>2, <1>3, <1>10, ScrolledBehaves DEF EraseCharacter, ScrollLines
<1>11. ASSUME NEW n \in Params, CHT(n) \/ CBT(n)
       PROVE  Goal
  <2> DEFINE t == NextTab(Cursor.x, n)
             right == IF t >= Region.right THEN Lesser(Region.right - 1, size.w - 1) ELSE t
             left == Greater(PrevTab(Cursor.x, n), IF Origin THEN Region.left ELSE 0)
  <2>1. Cursor.x \in Int /\ Cursor.y \in Int /\ n \in Nat
    BY CursorType, ParamsAssumption
  <2>2. NextTab(Cursor.x, n) \in Int /\ PrevTab(Cursor.x, n) \in Int
    BY <2>1, TabType
  <2>3. right \in Int /\ left \in Int
    BY <2>2, CursorType DEF Lesser, Greater
  <2>4. ASSUME NEW x \in Int
        PROVE  Behaves(Cursor, OnScreen(x, Cursor.y))
    <3>1. OnScreen(x, Cursor.y) \in Positions /\ In(OnScreen(x, Cursor.y), Bounds(size))
      BY <2>1, OnScreenFits
    <3>2. Inside(Cursor) => OnScreen(x, Cursor.y).y = Cursor.y
      BY <2>1, CursorType DEF Inside, In, Bounds, OnScreen, Pos, Clamp, Lesser, Greater
    <3>3. QED
      BY <3>1, <3>2 DEF Behaves, RowIn
  <2>5. CHT(n) => Goto(OnScreen(right, Cursor.y), phantom)
    BY DEF CHT
  <2>6. CBT(n) => Goto(OnScreen(left, Cursor.y), phantom)
    BY DEF CBT
  <2> HIDE DEF right, left
  <2>7. QED
    BY <1>1, <1>2, <1>11, <2>3, <2>4, <2>5, <2>6
<1>12. Goal
  BY <1>4, <1>7, <1>8, <1>9, <1>10, <1>11 DEF Relative
<1>13. QED
  BY <1>12 DEF Goal
\* An absolute move, a carriage return or a line edit ends at a position, on
\* the screen if the region fits.
LEMMA AddressedMoves ==
  ASSUME TypeOK, Absolute \/ Returning
  PROVE  \E p, ph : Moves(p, ph) /\ (Inside(Cursor) => In(p, Bounds(size)))
<1> DEFINE Goal == \E p, ph : Moves(p, ph) /\ (Inside(Cursor) => In(p, Bounds(size)))
<1>1. /\ Cursor \in Positions /\ Cursor.x \in Int /\ Cursor.y \in Int
      /\ phantom \in BOOLEAN /\ size.w \in Int /\ size.h \in Int
  BY CursorType DEF TypeOK
<1>2. ASSUME NEW p \in Positions, NEW ph \in BOOLEAN, Goto(p, ph),
             Inside(Cursor) => In(p, Bounds(size))
      PROVE  Goal
  BY <1>2 DEF Moves
<1> HIDE DEF Goal
<1>3. ASSUME NEW x \in Int, NEW y \in Int, NEW m, NEW ph \in BOOLEAN,
             Goto(SetCursor(x, y, m), ph)
      PROVE  Goal
  <2>1. OnScreen(x, y) \in Positions /\ In(OnScreen(x, y), Bounds(size))
    BY OnScreenFits
  <2>2. InRegion(x, y) \in Positions /\ In(InRegion(x, y), Region)
    BY InRegionFits
  <2>3. Inside(Cursor) => In(InRegion(x, y), Bounds(size))
    BY <2>2, CursorType DEF Inside, RegionFits, In, Bounds, Positions
  <2>4. /\ SetCursor(x, y, m) \in Positions
        /\ Inside(Cursor) => In(SetCursor(x, y, m), Bounds(size))
    BY <2>1, <2>2, <2>3 DEF SetCursor
  <2>5. QED
    BY <1>2, <1>3, <2>4
<1>4. ASSUME NEW x \in Int, NEW y \in Int, Goto(OnScreen(x, y), FALSE)
      PROVE  Goal
  BY <1>3, <1>4 DEF SetCursor
<1>5. ASSUME NEW c \in Positions, Goto(CarriageReturn(c), FALSE)
      PROVE  Goal
  BY <1>2, <1>5, CarriageReturnBehaves DEF Behaves, Inside
<1>6. ASSUME NEW n \in Params, CNL(n) \/ CPL(n)
      PROVE  Goal
  <2>1. n \in Int /\ -n \in Int
    BY ParamsAssumption
  <2>2. MoveCursor(Cursor, 0, n) \in Positions /\ MoveCursor(Cursor, 0, -n) \in Positions
    BY <1>1, <2>1, MoveCursorBehaves DEF Behaves
  <2>3. QED
    BY <1>5, <1>6, <2>2 DEF CNL, CPL
<1>7. ASSUME NEW n \in Params, CHA(n) \/ HPA(n) \/ HPR(n) \/ VPA(n) \/ VPR(n)
      PROVE  Goal
  <2> DEFINE left == n - 1
             hpa == Lesser(size.w - 1, n - 1)
             hpr == Lesser(size.w - 1, Cursor.x + n)
             vpa == Lesser(size.h - 1, n - 1)
             vpr == Lesser(size.h - 1, Cursor.y + n)
  <2>1. n \in Int
    BY ParamsAssumption
  <2>2. left \in Int /\ hpa \in Int /\ hpr \in Int /\ vpa \in Int /\ vpr \in Int
    BY <1>1, <2>1 DEF Lesser
  <2>3. \/ Goto(OnScreen(left, Cursor.y), FALSE)
        \/ Goto(SetCursor(hpa, Cursor.y, Origin), FALSE)
        \/ Goto(SetCursor(hpr, Cursor.y, Origin), FALSE)
        \/ Goto(SetCursor(Cursor.x, vpa, Origin), FALSE)
        \/ Goto(SetCursor(Cursor.x, vpr, Origin), FALSE)
    BY <1>7 DEF CHA, HPA, HPR, VPA, VPR
  <2> HIDE DEF left, hpa, hpr, vpa, vpr
  <2>4. QED
    BY <1>1, <1>3, <1>4, <2>2, <2>3
<1>8. ASSUME NEW row \in Params, NEW col \in Params, CUP(row, col) \/ HVP(row, col)
      PROVE  Goal
  <2> DEFINE x == Lesser(size.w - 1, Greater(col, 1) - 1)
             y == Lesser(size.h - 1, Greater(row, 1) - 1)
             x0 == Lesser(size.w - 1, col - 1)
             y0 == Lesser(size.h - 1, row - 1)
  <2>1. row \in Int /\ col \in Int
    BY ParamsAssumption
  <2>2. x \in Int /\ y \in Int /\ x0 \in Int /\ y0 \in Int
    BY <1>1, <2>1 DEF Lesser, Greater
  <2>3. Goto(SetCursor(x, y, Origin), FALSE) \/ Goto(OnScreen(x0, y0), FALSE)
    BY <1>8 DEF CUP, HVP
  <2> HIDE DEF x, y, x0, y0
  <2>4. QED
    BY <1>3, <1>4, <2>2, <2>3
<1>9. ASSUME CR
      PROVE  Goal
  BY <1>1, <1>5, <1>9 DEF CR
<1>10. ASSUME NEW n \in Params, InsertOrDeleteLine(n)
       PROVE  Goal
  <2>1. Goto(SetCursor(0, Cursor.y, TRUE), phantom)
    BY <1>10 DEF InsertOrDeleteLine
  <2>2. 0 \in Int
    OBVIOUS
  <2>3. QED
    BY <1>1, <1>3, <2>1, <2>2
<1>11. Goal
  BY <1>6, <1>7, <1>8, <1>9, <1>10 DEF Absolute, Returning
<1>12. QED
  BY <1>11 DEF Goal
-----------------------------------------------------------------------------
(* Margins, resets and resizes *)

\* The margins a program asks for: a well-formed region, which fits the screen
\* when the parameters do.
LEMMA MarginsType ==
  ASSUME TypeOK, NEW a \in Margins, NEW b \in Margins,
         DECSTBM(a, b) \/ DECSLRM(a, b)
  PROVE  \E r \in [left : Nat, top : Nat, right : Nat, bottom : Nat] :
           /\ SetMargins(r)
           /\ r.left < r.right /\ r.top < r.bottom
           /\ HonestMargins /\ RegionFits => r.right <= size.w /\ r.bottom <= size.h
<1> DEFINE lo == Greater(a, 1) - 1
           rows == IF b < 1 THEN size.h ELSE b
           cols == IF b < 1 THEN size.w ELSE b
           vertical == [Region EXCEPT !.top = lo, !.bottom = rows]
           horizontal == [Region EXCEPT !.left = lo, !.right = cols]
<1>1. /\ Region \in [left : Nat, top : Nat, right : Nat, bottom : Nat]
      /\ Region.left < Region.right /\ Region.top < Region.bottom
      /\ size.w \in Nat /\ size.h \in Nat /\ size \in Sizes
  BY CursorType DEF TypeOK, Region
<1>2. a \in Nat /\ b \in Nat
  BY MarginsAssumption
<1>3. lo \in Nat /\ rows \in Nat /\ cols \in Nat /\ lo + 1 = Greater(a, 1)
  BY <1>1, <1>2 DEF Greater
<1>4. HonestMargins => rows <= size.h /\ cols <= size.w
  BY <1>1, <1>2 DEF HonestMargins
<1>5. DECSTBM(a, b) => lo + 1 < rows /\ SetMargins(vertical)
  BY <1>2, <1>3 DEF DECSTBM
<1>6. DECSLRM(a, b) => lo + 1 < cols /\ SetMargins(horizontal)
  BY <1>2, <1>3 DEF DECSLRM
<1> HIDE DEF lo, rows, cols
<1>7. CASE DECSTBM(a, b)
  <2>1. /\ vertical \in [left : Nat, top : Nat, right : Nat, bottom : Nat]
        /\ vertical.left = Region.left /\ vertical.right = Region.right
        /\ vertical.top = lo /\ vertical.bottom = rows
    BY <1>1, <1>3
  <2>2. /\ vertical.left < vertical.right /\ vertical.top < vertical.bottom
        /\ HonestMargins /\ RegionFits =>
             vertical.right <= size.w /\ vertical.bottom <= size.h
    BY <1>1, <1>3, <1>4, <1>5, <1>7, <2>1 DEF RegionFits
  <2>3. QED
    BY <1>5, <1>7, <2>1, <2>2
<1>8. CASE DECSLRM(a, b)
  <2>1. /\ horizontal \in [left : Nat, top : Nat, right : Nat, bottom : Nat]
        /\ horizontal.left = lo /\ horizontal.right = cols
        /\ horizontal.top = Region.top /\ horizontal.bottom = Region.bottom
    BY <1>1, <1>3
  <2>2. /\ horizontal.left < horizontal.right /\ horizontal.top < horizontal.bottom
        /\ HonestMargins /\ RegionFits =>
             horizontal.right <= size.w /\ horizontal.bottom <= size.h
    BY <1>1, <1>3, <1>4, <1>6, <1>8, <2>1 DEF RegionFits
  <2>3. QED
    BY <1>6, <1>8, <2>1, <2>2
<1>9. QED
  BY <1>7, <1>8

\* The full region of a screen is well formed, and the origin lies in it.
LEMMA BoundsType ==
  ASSUME NEW sz \in Sizes
  PROVE  /\ Bounds(sz) \in [left : Nat, top : Nat, right : Nat, bottom : Nat]
         /\ Bounds(sz).left < Bounds(sz).right /\ Bounds(sz).top < Bounds(sz).bottom
         /\ Bounds(sz).right = sz.w /\ Bounds(sz).bottom = sz.h
         /\ Pos(0, 0) \in Positions /\ In(Pos(0, 0), Bounds(sz))
         /\ DefaultTabStops(sz.w) \subseteq Int
BY SizeType DEF Bounds, Pos, Positions, In, DefaultTabStops

\* Where a resize puts the active cursor: on the new screen.
LEMMA ResizeFits ==
  ASSUME TypeOK, NEW new \in Sizes, Resize(new)
  PROVE  \E p \in Positions : /\ cur' = [cur EXCEPT ![active] = p]
                              /\ In(p, Bounds(new))
<1> DEFINE x == IF phantom /\ Cursor.x < new.w - 1 THEN Cursor.x + 1 ELSE Cursor.x
           y == Cursor.y
           right == new.w - 1
           bottom == new.h - 1
           X == Clamp(x, 0, right)
           Y == Clamp(y, 0, bottom)
<1>1. new.w \in Nat \ {0} /\ new.h \in Nat \ {0}
  BY SizeType
<1>2. x \in Int /\ y \in Int
  BY <1>1, CursorType
<1>3. /\ right \in Int /\ 0 <= right /\ right < new.w
      /\ bottom \in Int /\ 0 <= bottom /\ bottom < new.h
  BY <1>1
<1>4. cur' = [cur EXCEPT ![active] = Pos(X, Y)]
  BY DEF Resize
<1>5. 0 \in Int
  OBVIOUS
<1> HIDE DEF x, y, right, bottom
<1>6. X \in Int /\ 0 <= X /\ X <= right
  BY <1>2, <1>3, <1>5, ClampBounds
<1>7. Y \in Int /\ 0 <= Y /\ Y <= bottom
  BY <1>2, <1>3, <1>5, ClampBounds
<1> HIDE DEF X, Y
<1>8. Pos(X, Y) \in Positions /\ In(Pos(X, Y), Bounds(new))
  BY <1>1, <1>3, <1>6, <1>7 DEF Pos, Positions, In, Bounds
<1>9. QED
  BY <1>4, <1>8
-----------------------------------------------------------------------------
(* The invariants *)

\* The kinds of step: the actions grouped by what they may change.
LEMMA StepKinds ==
  ASSUME TypeOK, Next
  PROVE  \/ \E p, ph : Moves(p, ph) /\ (Inside(Cursor) => In(p, Bounds(size)))
         \/ "save" \in Groups /\ RestoreCursor
         \/ \E a, b \in Margins : DECSTBM(a, b) \/ DECSLRM(a, b)
         \/ \E m \in Modes, on \in BOOLEAN : SetMode(m, on)
         \/ \E new \in SUBSET Int : SetTabs(new)
         \/ "save" \in Groups /\ SaveCursor
         \/ "alt" \in Groups /\ LeaveAlt
         \/ "alt" \in Groups /\ \E save \in BOOLEAN : EnterAlt(save)
         \/ RIS
         \/ \E new \in Sizes : Resize(new)
<1>1. CASE Relative
  BY <1>1, RelativeMoves DEF Behaves
<1>2. CASE Absolute \/ Returning
  BY <1>2, AddressedMoves
<1>3. CASE HTS \/ DECST8C \/ \E n \in Params \cup {3} : TBC(n)
  <2>1. /\ tabs \cup {Cursor.x} \in SUBSET Int
        /\ DefaultTabStops(size.w) \in SUBSET Int
        /\ tabs \ {Cursor.x} \in SUBSET Int /\ {} \in SUBSET Int
    BY CursorType, BoundsType DEF TypeOK
  <2>2. QED
    BY <1>3, <2>1 DEF HTS, DECST8C, TBC
<1>4. QED
  BY <1>1, <1>2, <1>3 DEF Next, Configure

\* Every step keeps the types.
LEMMA TypePreserved ==
  ASSUME TypeOK, [Next]_vars
  PROVE  TypeOK'
<1> USE DEF Screens
<1>1. ASSUME NEW p, NEW ph, Moves(p, ph)
      PROVE  TypeOK'
  BY <1>1 DEF Moves, Goto, TypeOK, Positions
<1>2. ASSUME RestoreCursor
      PROVE  TypeOK'
  BY <1>2 DEF RestoreCursor, Goto, TypeOK
<1>3. ASSUME NEW a \in Margins, NEW b \in Margins, DECSTBM(a, b) \/ DECSLRM(a, b)
      PROVE  TypeOK'
  <2>1. PICK r \in [left : Nat, top : Nat, right : Nat, bottom : Nat] :
          SetMargins(r) /\ r.left < r.right /\ r.top < r.bottom
    BY <1>3, MarginsType
  <2>2. Pos(r.left, r.top) \in Positions /\ Pos(0, 0) \in Positions
    BY DEF Pos, Positions
  <2>3. QED
    BY <2>1, <2>2 DEF SetMargins, TypeOK, Positions
<1>4. ASSUME NEW m \in Modes, NEW on \in BOOLEAN, SetMode(m, on)
      PROVE  TypeOK'
  BY <1>4 DEF SetMode, TypeOK
<1>5. ASSUME NEW new \in SUBSET Int, SetTabs(new)
      PROVE  TypeOK'
  BY <1>5 DEF SetTabs, TypeOK
<1>6. ASSUME SaveCursor
      PROVE  TypeOK'
  BY <1>6, CursorType DEF SaveCursor, TypeOK, Positions
<1>7. ASSUME LeaveAlt
      PROVE  TypeOK'
  BY <1>7 DEF LeaveAlt, TypeOK
<1>8. ASSUME NEW save \in BOOLEAN, EnterAlt(save)
      PROVE  TypeOK'
  <2>1. Cursor \in Positions /\ Pos(0, 0) \in Positions
    BY CursorType DEF Pos, Positions
  <2>2. QED
    BY <1>8, <2>1 DEF EnterAlt, TypeOK, Positions
<1>9. ASSUME RIS
      PROVE  TypeOK'
  BY <1>9, BoundsType DEF RIS, TypeOK, Positions, Modes
<1>10. ASSUME NEW new \in Sizes, Resize(new)
       PROVE  TypeOK'
  <2>1. PICK p \in Positions : cur' = [cur EXCEPT ![active] = p]
    BY <1>10, ResizeFits
  <2>2. /\ size' = new /\ scroll' = [s \in Screens |-> Bounds(new)]
        /\ phantom' = FALSE /\ tabs' = DefaultTabStops(new.w)
        /\ UNCHANGED <<active, saved, modes>>
    BY <1>10 DEF Resize
  <2>3. cur' \in [Screens -> [x : Int, y : Int]]
    BY <2>1 DEF TypeOK, Positions
  <2>4. QED
    BY <2>2, <2>3, BoundsType DEF TypeOK
<1>11. CASE UNCHANGED vars
  BY <1>11 DEF vars, TypeOK
<1>12. QED
  BY <1>1, <1>2, <1>3, <1>4, <1>5, <1>6, <1>7, <1>8, <1>9, <1>10, <1>11, StepKinds

\* The types hold in every reachable state.
THEOREM TypeCorrect == Spec => []TypeOK
<1>1. Init => TypeOK
  BY BoundsType DEF Init, TypeOK, Positions, Modes, Screens
<1>2. TypeOK /\ [Next]_vars => TypeOK'
  BY TypePreserved
<1>3. QED
  BY <1>1, <1>2, PTL DEF Spec

-----------------------------------------------------------------------------
(* The cursor is on the screen *)

\* Without alternate screen and saved cursors, nothing but the cursor of the
\* main screen ever leaves the origin.
Kept ==
  Groups \cap {"alt", "save"} = {} =>
    /\ active = "main" /\ cur["alt"] = Pos(0, 0)
    /\ \A s \in Screens : saved[s] = Pos(0, 0)

IInv == TypeOK /\ CursorOnScreen /\ Kept

\* The cursor and the region of the active screen.
LEMMA ActiveOnScreen ==
  ASSUME TypeOK, CursorOnScreen
  PROVE  Inside(Cursor) /\ In(saved[active], Bounds(size))
BY CursorType DEF CursorOnScreen, Inside, RegionFits, Cursor, Region

\* A step that moves the active cursor to a place on the screen.
LEMMA GotoOnScreen ==
  ASSUME IInv, NEW p \in Positions, NEW ph, Goto(p, ph), In(p, Bounds(size))
  PROVE  CursorOnScreen' /\ Kept'
<1>1. /\ size' = size /\ active' = active /\ saved' = saved /\ scroll' = scroll
      /\ cur' = [cur EXCEPT ![active] = p] /\ cur \in [Screens -> [x : Int, y : Int]]
      /\ active \in Screens
  BY DEF Goto, IInv, TypeOK
<1>2. \A s \in Screens : cur'[s] = cur[s] \/ cur'[s] = p
  BY <1>1
<1>3. CursorOnScreen'
  BY <1>1, <1>2 DEF IInv, CursorOnScreen, In, Bounds
<1>4. active = "main" => cur'["alt"] = cur["alt"]
  BY <1>1 DEF Screens
<1>5. Kept'
  BY <1>1, <1>4 DEF IInv, Kept, Pos
<1>6. QED
  BY <1>3, <1>5

\* A resize, if nothing is kept across it.
LEMMA ResizeOnScreen ==
  ASSUME IInv, NothingKept, NEW new \in Sizes, Resize(new)
  PROVE  CursorOnScreen' /\ Kept'
<1>1. PICK p \in Positions : cur' = [cur EXCEPT ![active] = p] /\ In(p, Bounds(new))
  BY ResizeFits DEF IInv
<1>2. /\ size' = new /\ scroll' = [s \in Screens |-> Bounds(new)]
      /\ active' = active /\ saved' = saved
      /\ cur \in [Screens -> [x : Int, y : Int]] /\ active \in Screens
      /\ size \in Sizes
  BY DEF Resize, IInv, TypeOK
<1>3. \A s \in Screens : /\ cur'[s] = IF s = active THEN p ELSE cur[s]
                         /\ scroll'[s] = Bounds(new)
  BY <1>1, <1>2
<1>4. \A s \in Screens : In(saved[s], Bounds(new)) /\ In(cur'[s], Bounds(new))
  <2>1. CASE \A s, t \in Sizes : s = t
    <3>1. new = size
      BY <1>2, <2>1
    <3>2. QED
      BY <1>1, <1>3, <3>1 DEF IInv, CursorOnScreen
  <2>2. CASE Groups \cap {"alt", "save"} = {}
    BY <1>1, <1>3, <2>2, BoundsType DEF IInv, Kept, Screens
  <2>3. QED
    BY <2>1, <2>2 DEF NothingKept
<1>5. CursorOnScreen'
  BY <1>2, <1>3, <1>4, BoundsType DEF CursorOnScreen
<1>6. active = "main" => cur'["alt"] = cur["alt"]
  BY <1>3 DEF Screens
<1>7. Kept'
  BY <1>2, <1>6 DEF IInv, Kept, Pos
<1>8. QED
  BY <1>5, <1>7

\* The margins a program asks for, if they exist.
LEMMA MarginsOnScreen ==
  ASSUME IInv, HonestMargins, NEW a \in Margins, NEW b \in Margins,
         DECSTBM(a, b) \/ DECSLRM(a, b)
  PROVE  CursorOnScreen' /\ Kept'
<1>1. PICK r \in [left : Nat, top : Nat, right : Nat, bottom : Nat] :
        /\ SetMargins(r)
        /\ r.left < r.right /\ r.top < r.bottom
        /\ RegionFits => r.right <= size.w /\ r.bottom <= size.h
  BY MarginsType DEF IInv
<1>2. r.right <= size.w /\ r.bottom <= size.h
  BY <1>1, ActiveOnScreen DEF IInv, Inside
<1> DEFINE p == IF Origin THEN Pos(r.left, r.top) ELSE Pos(0, 0)
<1>3. size.w \in Nat \ {0} /\ size.h \in Nat \ {0}
  BY CursorType DEF IInv
<1>4. In(p, Bounds(size))
  BY <1>1, <1>2, <1>3 DEF In, Bounds, Pos
<1>5. /\ size' = size /\ active' = active /\ saved' = saved
      /\ scroll' = [scroll EXCEPT ![active] = r]
      /\ cur' = [cur EXCEPT ![active] = p]
      /\ cur \in [Screens -> [x : Int, y : Int]] /\ active \in Screens
      /\ scroll \in [Screens -> [left : Nat, top : Nat, right : Nat, bottom : Nat]]
  BY <1>1 DEF SetMargins, IInv, TypeOK
<1> HIDE DEF p
<1>6. \A s \in Screens : /\ cur'[s] = cur[s] \/ cur'[s] = p
                         /\ scroll'[s] = scroll[s] \/ scroll'[s] = r
  BY <1>5
<1>7. CursorOnScreen'
  BY <1>2, <1>4, <1>5, <1>6 DEF IInv, CursorOnScreen, In, Bounds
<1>8. active = "main" => cur'["alt"] = cur["alt"]
  BY <1>5 DEF Screens
<1>9. Kept'
  BY <1>5, <1>8 DEF IInv, Kept, Pos
<1>10. QED
  BY <1>7, <1>9

\* When programs ask for margins that exist and nothing is kept across a
\* change of size, every step keeps the cursors and the regions on the screen.
LEMMA StepOnScreen ==
  ASSUME HonestMargins, NothingKept, IInv, [Next]_vars
  PROVE  CursorOnScreen' /\ Kept'
<1> DEFINE Goal == CursorOnScreen' /\ Kept'
<1>1. TypeOK /\ CursorOnScreen /\ Kept
  BY DEF IInv
<1>2. Inside(Cursor) /\ In(saved[active], Bounds(size)) /\ saved[active] \in Positions
  BY <1>1, ActiveOnScreen, CursorType
<1> HIDE DEF Goal
<1>3. ASSUME NEW p, NEW ph, Moves(p, ph), Inside(Cursor) => In(p, Bounds(size))
      PROVE  Goal
  BY <1>2, <1>3, GotoOnScreen DEF Moves, Goal
<1>4. ASSUME RestoreCursor
      PROVE  Goal
  BY <1>2, <1>4, GotoOnScreen DEF RestoreCursor, Goal
<1>5. ASSUME NEW a \in Margins, NEW b \in Margins, DECSTBM(a, b) \/ DECSLRM(a, b)
      PROVE  Goal
  BY <1>5, MarginsOnScreen DEF Goal
<1>6. ASSUME UNCHANGED <<size, active, cur, saved, scroll>>
      PROVE  Goal
  BY <1>1, <1>6 DEF CursorOnScreen, Kept, In, Bounds, Pos, Goal
<1>7. ASSUME "save" \in Groups, SaveCursor
      PROVE  Goal
  <2>1. /\ saved' = [saved EXCEPT ![active] = cur[active]]
        /\ UNCHANGED <<size, active, cur, scroll>>
        /\ saved \in [Screens -> [x : Int, y : Int]]
    BY <1>1, <1>7 DEF SaveCursor, Cursor, TypeOK
  <2>2. \A s \in Screens : saved'[s] = saved[s] \/ saved'[s] = cur[s]
    BY <2>1
  <2>3. QED
    BY <1>1, <1>7, <2>1, <2>2 DEF CursorOnScreen, Kept, In, Bounds, Goal
<1>8. ASSUME "alt" \in Groups, LeaveAlt
      PROVE  Goal
  BY <1>1, <1>8 DEF LeaveAlt, CursorOnScreen, Kept, In, Bounds, Goal
<1>9. ASSUME "alt" \in Groups, NEW save \in BOOLEAN, EnterAlt(save)
      PROVE  Goal
  <2>1. /\ UNCHANGED <<size, scroll>> /\ size \in Sizes
        /\ saved \in [Screens -> [x : Int, y : Int]]
        /\ cur \in [Screens -> [x : Int, y : Int]]
        /\ saved' = saved \/ saved' = [saved EXCEPT ![active] = cur[active]]
        /\ cur' = cur \/ cur' = [cur EXCEPT !["alt"] = Pos(0, 0)]
    BY <1>1, <1>9 DEF EnterAlt, Cursor, TypeOK
  <2>2. \A s \in Screens : /\ saved'[s] = saved[s] \/ saved'[s] = cur[s]
                           /\ cur'[s] = cur[s] \/ cur'[s] = Pos(0, 0)
    BY <2>1
  <2>3. In(Pos(0, 0), Bounds(size))
    BY <2>1, BoundsType
  <2>4. QED
    BY <1>1, <1>9, <2>1, <2>2, <2>3 DEF CursorOnScreen, Kept, In, Bounds, Goal
<1>10. ASSUME RIS
       PROVE  Goal
  <2>1. \A s \in Screens : /\ cur'[s] = Pos(0, 0) /\ saved'[s] = Pos(0, 0)
                           /\ scroll'[s] = Bounds(size)
    BY <1>10 DEF RIS
  <2>2. size' = size /\ size \in Sizes /\ active' = "main"
    BY <1>1, <1>10 DEF RIS, TypeOK
  <2>3. QED
    BY <2>1, <2>2, BoundsType DEF CursorOnScreen, Kept, Screens, Goal
<1>11. ASSUME NEW new \in Sizes, Resize(new)
       PROVE  Goal
  BY <1>11, ResizeOnScreen DEF Goal
<1>12. CASE UNCHANGED vars
  BY <1>6, <1>12 DEF vars, Goal
<1>13. (\E m \in Modes, on \in BOOLEAN : SetMode(m, on)) => Goal
  BY <1>6 DEF SetMode
<1>14. (\E new \in SUBSET Int : SetTabs(new)) => Goal
  BY <1>6 DEF SetTabs
<1>15. Next => Goal
  BY <1>1, <1>3, <1>4, <1>5, <1>7, <1>8, <1>9, <1>10, <1>11, <1>13, <1>14, StepKinds
<1>16. QED
  BY <1>12, <1>15 DEF Goal

\* When programs ask for margins that exist and no position is kept across a
\* change of size, the cursors, the saved cursors and the margins are always on
\* the screen.
THEOREM OnScreenAlways ==
  ASSUME HonestMargins, NothingKept
  PROVE  Spec => []CursorOnScreen
<1>1. Init => IInv
  <2> SUFFICES ASSUME Init
               PROVE  IInv
    OBVIOUS
  <2>1. TypeOK
    BY BoundsType DEF Init, TypeOK, Positions, Modes, Screens
  <2>2. CursorOnScreen
    BY BoundsType DEF Init, CursorOnScreen
  <2>3. Kept
    BY DEF Init, Kept, Screens
  <2>4. QED
    BY <2>1, <2>2, <2>3 DEF IInv
<1>2. IInv /\ [Next]_vars => IInv'
  BY StepOnScreen, TypePreserved DEF IInv
<1>3. IInv => CursorOnScreen
  BY DEF IInv
<1>4. QED
  BY <1>1, <1>2, <1>3, PTL DEF Spec

\* Under the same hypotheses a program that confines its scrolling to a region
\* cannot drift out of its rows by printing or moving relatively.
THEOREM RowsKept ==
  ASSUME HonestMargins, NothingKept
  PROVE  Spec => RelativeStaysInRows
<1> DEFINE Step == Relative /\ Region.top <= Cursor.y /\ Cursor.y < Region.bottom
                     => Region.top <= cur'[active].y /\ cur'[active].y < Region.bottom
<1>1. TypeOK /\ CursorOnScreen /\ [Next]_vars => [Step]_vars
  <2> SUFFICES ASSUME TypeOK, CursorOnScreen, Relative, RowIn(Cursor, Region)
               PROVE  RowIn(cur'[active], Region)
    BY DEF RowIn
  <2>1. PICK p, ph : Moves(p, ph) /\ Behaves(Cursor, p)
    BY RelativeMoves
  <2>2. RowIn(p, Region)
    BY <2>1, ActiveOnScreen DEF Behaves
  <2>3. cur'[active] = p
    BY <2>1 DEF Moves, Goto, TypeOK
  <2>4. QED
    BY <2>2, <2>3
<1>2. Spec => []TypeOK /\ []CursorOnScreen
  BY TypeCorrect, OnScreenAlways
<1>3. QED
  BY <1>1, <1>2, PTL DEF Spec, RelativeStaysInRows

\* With narrow characters, for every screen size: with autowrap a character
\* never lands on the cell of the one printed before it.  (A wide character
\* that ends in the last column leaves no wrap pending, so the hypothesis is
\* needed.)
THEOREM PrintingMovesOn ==
  ASSUME CellWidths \subseteq {0, 1}
  PROVE  Spec => []NoSelfOverwrite
<1>1. TypeOK => NoSelfOverwrite
  <2> SUFFICES ASSUME TypeOK, Autowrap, size.w >= 2,
                      NEW w1 \in CellWidths \ {0}, NEW w2 \in CellWidths \ {0}
               PROVE  LET first == Printed(Cursor, phantom, w1)
                          second == Printed(first.next, first.phantom, w2)
                      IN  second.at.x \notin first.at.x..(first.at.x + w1 - 1)
    BY DEF NoSelfOverwrite
  <2> DEFINE first == Printed(Cursor, phantom, w1)
             second == Printed(first.next, first.phantom, w2)
             x == first.at.x
             y == first.at.y
  <2>1. w1 = 1 /\ size.w \in Nat
    BY CursorType
  <2>2. x \in Int /\ y \in Int
    <3>1. first.at = Pos(0, Index(Cursor).y) \/ first.at = Cursor
      BY DEF Printed
    <3>2. Cursor \in Positions /\ Index(Cursor) \in Positions
      BY CursorType, IndexBehaves DEF Behaves
    <3>3. QED
      BY <3>1, <3>2 DEF Pos, Positions
  <2>3. CASE x >= size.w - 1
    <3>1. first.phantom = TRUE
      BY <2>3 DEF Printed
    <3>2. second.at = Pos(0, Index(first.next).y)
      BY <3>1 DEF Printed
    <3>3. second.at.x = 0
      BY <3>2 DEF Pos
    <3>4. QED
      BY <2>1, <2>2, <2>3, <3>3
  <2>4. CASE ~(x >= size.w - 1)
    <3>1. first.phantom = FALSE /\ first.next = OnScreen(x + 1, y)
      BY <2>1, <2>4 DEF Printed
    <3>2. second.at = OnScreen(x + 1, y)
      BY <3>1 DEF Printed
    <3>3. second.at.x = Clamp(x + 1, 0, size.w - 1)
      BY <3>2 DEF OnScreen, Pos
    <3>4. Clamp(x + 1, 0, size.w - 1) # x
      BY <2>1, <2>2, <2>4 DEF Clamp, Lesser, Greater
    <3>5. x..(x + w1 - 1) = {x}
      BY <2>1, <2>2
    <3>6. QED
      BY <3>3, <3>4, <3>5
  <2>5. QED
    BY <2>3, <2>4
<1>2. QED
  BY <1>1, TypeCorrect, PTL

-----------------------------------------------------------------------------
(* The two screens *)

\* A step leaves the screen that is not shown alone, or is a reset.
Isolated ==
  \/ \A s \in Screens \ {active} :
       /\ saved'[s] = saved[s]
       /\ cur'[s] = cur[s] \/ (s = "alt" /\ active' = "alt")
  \/ RIS

\* What a program does on one screen never reaches the cursor or the saved
\* cursor of the other, except for a reset and for the homing of the cursor of
\* the alternate screen.
THEOREM Isolation == Spec => ScreenIsolation
<1>1. TypeOK /\ [Next]_vars => [Isolated]_vars
  <2> SUFFICES ASSUME TypeOK, Next
               PROVE  Isolated
    OBVIOUS
  <2>1. /\ cur \in [Screens -> [x : Int, y : Int]]
        /\ saved \in [Screens -> [x : Int, y : Int]]
        /\ active \in Screens
    BY DEF TypeOK
  <2>2. ASSUME NEW p, cur' = [cur EXCEPT ![active] = p], saved' = saved
        PROVE  Isolated
    BY <2>1, <2>2 DEF Isolated
  <2>3. ASSUME cur' = cur, NEW p, saved' = saved \/ saved' = [saved EXCEPT ![active] = p]
        PROVE  Isolated
    BY <2>1, <2>3 DEF Isolated
  <2>4. ASSUME NEW p, NEW ph, Goto(p, ph)
        PROVE  Isolated
    BY <2>2, <2>4 DEF Goto
  <2>5. ASSUME NEW a \in Margins, NEW b \in Margins, DECSTBM(a, b) \/ DECSLRM(a, b)
        PROVE  Isolated
    BY <2>2, <2>5, MarginsType DEF SetMargins
  <2>6. ASSUME NEW new, Resize(new)
        PROVE  Isolated
    BY <2>2, <2>6 DEF Resize
  <2>7. ASSUME NEW save \in BOOLEAN, EnterAlt(save)
        PROVE  Isolated
    <3>1. /\ active' = "alt"
          /\ saved' = saved \/ saved' = [saved EXCEPT ![active] = Cursor]
          /\ cur' = cur \/ cur' = [cur EXCEPT !["alt"] = Pos(0, 0)]
      BY <2>7 DEF EnterAlt
    <3>2. \A s \in Screens \ {active} :
            saved'[s] = saved[s] /\ (cur'[s] = cur[s] \/ s = "alt")
      BY <2>1, <3>1
    <3>3. QED
      BY <3>1, <3>2 DEF Isolated
  <2>8. ASSUME SaveCursor
        PROVE  Isolated
    BY <2>3, <2>8 DEF SaveCursor
  <2>9. ASSUME LeaveAlt
        PROVE  Isolated
    BY <2>3, <2>9 DEF LeaveAlt
  <2>10. ASSUME NEW m \in Modes, NEW on \in BOOLEAN, SetMode(m, on)
         PROVE  Isolated
    BY <2>3, <2>10 DEF SetMode
  <2>11. ASSUME NEW new, SetTabs(new)
         PROVE  Isolated
    BY <2>3, <2>11 DEF SetTabs
  <2>12. (\E p, ph : Moves(p, ph)) => Isolated
    BY <2>4 DEF Moves
  <2>13. RestoreCursor => Isolated
    BY <2>4 DEF RestoreCursor
  <2>14. QED
    BY <2>5, <2>6, <2>7, <2>8, <2>9, <2>10, <2>11, <2>12, <2>13, StepKinds DEF Isolated
<1>2. QED
  BY <1>1, TypeCorrect, PTL DEF Spec, ScreenIsolation, Isolated
=============================================================================
