---------------------------- MODULE PonyElements ----------------------------
(***************************************************************************)
(* The elements of pony (src/pony), the sizes they ask for and how they are*)
(* drawn. An element is a record of its kind, its identifier, its children *)
(* and the attributes of the kind; colours, text styles, the alignment of a*)
(* text within its lines and the characters drawn are left out. A text is  *)
(* the widths of its lines.                                                *)
(***************************************************************************)
EXTENDS Integers, Sequences, SequencesExt, FiniteSetsExt, TLC

\* f of v, where v is worked out once.
With(v, f(_)) == CHOOSE result \in {f(value) : value \in {v}} : TRUE

AtLeast(a, b) == IF a < b THEN b ELSE a
AtMost(a, b) == IF a < b THEN a ELSE b

-----------------------------------------------------------------------------
(* Constraints *)

Extents(w, h) == [w |-> w, h |-> h]
NoSize == Extents(0, 0)
Limits(minW, maxW, minH, maxH) == [minW |-> minW, maxW |-> maxW, minH |-> minH, maxH |-> maxH]
UpTo(w, h) == Limits(0, w, 0, h)

\* 1 << 30 and 1 << 31 - 1: more than any content has.
Endless == 10000
Unbounded == UpTo(Endless, Endless)

Clamped(n, least, most) == AtMost(AtLeast(n, least), most)
Constrain(c, size) ==
  With(size, LAMBDA asked : Extents(Clamped(asked.w, c.minW, c.maxW), Clamped(asked.h, c.minH, c.maxH)))

\* SizeConstraint: a number of cells, a percentage, or a word.
InUnits(value, unit) == [value |-> value, unit |-> unit]
Auto == InUnits(0, "")
Fixed(n) == InUnits(n, "")
Percent(n) == InUnits(n, "%")
IsAuto(sc) == sc.unit = "auto" \/ (sc.unit = "" /\ sc.value = 0)
Share(n, of, whole) == IF n >= 0 THEN (n * of) \div whole ELSE -((-n * of) \div whole)
Apply(sc, available, content) ==
  CASE IsAuto(sc) -> AtMost(content, available)
    [] sc.unit = "%" -> LET part == Share(available, sc.value, 100)
                        IN  IF part < 0 THEN 0 ELSE AtMost(part, available)
    [] sc.unit = "min" -> AtLeast(0, content)
    [] sc.unit = "max" -> available
    [] OTHER -> Clamped(sc.value, 0, available)

\* The width and height of an element, where they are given, in place of its own; and
\* what the constraints make of that.
Sized(e, c, size) ==
  With(size, LAMBDA own :
    Constrain(c, Extents(IF IsAuto(e.width) THEN own.w ELSE Apply(e.width, c.maxW, own.w),
                         IF IsAuto(e.height) THEN own.h ELSE Apply(e.height, c.maxH, own.h))))

-----------------------------------------------------------------------------
(* The elements, as their constructors leave them *)

NewText(lines) == [kind |-> "text", id |-> "", kids |-> <<>>, lines |-> lines, wrap |-> FALSE]
NewVStack(kids) ==
  [kind |-> "vstack", id |-> "", kids |-> kids, spacing |-> 0, width |-> Auto, height |-> Auto, alignment |-> ""]
NewHStack(kids) ==
  [kind |-> "hstack", id |-> "", kids |-> kids, spacing |-> 0, width |-> Auto, height |-> Auto, alignment |-> ""]
NewZStack(kids) ==
  [kind |-> "zstack", id |-> "", kids |-> kids, width |-> Auto, height |-> Auto, alignment |-> "center",
   verticalAlignment |-> "center"]
NewBox(kids) ==
  [kind |-> "box", id |-> "", kids |-> kids, border |-> "none", width |-> Auto, height |-> Auto, padding |-> 0,
   margin |-> 0, sides |-> [top |-> 0, right |-> 0, bottom |-> 0, left |-> 0]]
NewFlex(kids) == [kind |-> "flex", id |-> "", kids |-> kids, grow |-> 0, basis |-> 0]
NewSpacer == [kind |-> "spacer", id |-> "", kids |-> <<>>, size |-> 0]
NewFixedSpacer(n) == [NewSpacer EXCEPT !.size = n]
NewDivider == [kind |-> "divider", id |-> "", kids |-> <<>>, upright |-> FALSE]
NewVerticalDivider == [NewDivider EXCEPT !.upright = TRUE]
NewPositioned(kids, x, y) ==
  [kind |-> "positioned", id |-> "", kids |-> kids, x |-> x, y |-> y, right |-> -1, bottom |-> -1,
   width |-> Auto, height |-> Auto]
NewSlot(name) == [kind |-> "slot", id |-> "", kids |-> <<>>, name |-> name]
NewScrollView(kids) ==
  [kind |-> "scroll", id |-> "", kids |-> kids, offsetX |-> 0, offsetY |-> 0, width |-> Auto, height |-> Auto,
   bar |-> TRUE, horizontal |-> FALSE, vertical |-> TRUE]
NewButton(lines) ==
  [kind |-> "button", id |-> "", kids |-> <<>>, lines |-> lines, border |-> "rounded", padding |-> 1,
   width |-> Auto, height |-> Auto]
NewBadge(n) == [kind |-> "badge", id |-> "", kids |-> <<>>, length |-> n]
NewProgressView(width) == [kind |-> "progress", id |-> "", kids |-> <<>>, width |-> width]

(* Trees put together from others *)
Panel(child, border, padding) == [NewBox(<<child>>) EXCEPT !.border = border, !.padding = padding]
PanelWithMargin(child, border, padding, margin) == [Panel(child, border, padding) EXCEPT !.margin = margin]
Card(title, kids) ==
  [NewBox(<<NewVStack(<<NewText(title), NewDivider, NewVStack(kids)>>)>>) EXCEPT !.border = "rounded", !.padding = 1]
Section(header, kids) == NewVStack(<<NewText(header)>> \o kids)
Separated(kids) ==
  NewVStack([i \in 1 .. AtLeast(0, 2 * Len(kids) - 1) |-> IF i % 2 = 1 THEN kids[(i + 1) \div 2] ELSE NewDivider])
FlexGrow(child, grow) == [NewFlex(<<child>>) EXCEPT !.grow = grow]
PositionRight(child, right, y) == [NewPositioned(<<child>>, 0, y) EXCEPT !.right = right]
PositionBottom(child, x, bottom) == [NewPositioned(<<child>>, x, 0) EXCEPT !.bottom = bottom]
PositionCorner(child, right, bottom) == [NewPositioned(<<child>>, 0, 0) EXCEPT !.right = right, !.bottom = bottom]

-----------------------------------------------------------------------------
(* Layout: the size an element asks for *)

RECURSIVE Layout(_, _)

GetFlexGrow(e) == IF e.kind = "flex" THEN e.grow ELSE IF e.kind = "spacer" /\ e.size = 0 THEN 1 ELSE 0
Total(f) == FoldLeft(+, 0, f)
Longest(f) == Max(Range(f) \cup {0})

\* Along a stack, and across it.
Along(size, down) == IF down THEN size.h ELSE size.w
Across(size, down) == IF down THEN size.w ELSE size.h
Most(c, down) == IF down THEN c.maxH ELSE c.maxW
Span(c, down, least, most) ==
  IF down THEN Limits(0, c.maxW, least, most) ELSE Limits(least, most, 0, c.maxH)
Gap(e, i) == IF i < Len(e.kids) THEN e.spacing ELSE 0

\* The first pass: the children that do not grow, each in what the ones before it
\* leave, and what they and the gaps use.
RECURSIVE FixedSizes(_, _, _, _)
FixedSizes(e, c, down, done) ==
  LET i == Len(done.sizes) + 1
      size == IF GetFlexGrow(e.kids[i]) > 0 THEN NoSize
              ELSE Layout(e.kids[i], Span(c, down, 0, Most(c, down) - done.used))
  IN  IF i > Len(e.kids) THEN done
      ELSE With(size, LAMBDA own :
             With([sizes |-> Append(done.sizes, own), used |-> done.used + Along(own, down) + Gap(e, i)],
                   LAMBDA more : FixedSizes(e, c, down, more)))
NonePlaced == [sizes |-> <<>>, used |-> 0]

\* The second pass: the children that grow share what is left.
Shared(e, c, down, fixed) ==
  LET left == Most(c, down) - fixed.used
      grows == Total([i \in DOMAIN e.kids |-> GetFlexGrow(e.kids[i])])
      Sizes(i) ==
        IF GetFlexGrow(e.kids[i]) > 0 /\ left > 0
        THEN With(Share(left, GetFlexGrow(e.kids[i]), grows), LAMBDA n : Layout(e.kids[i], Span(c, down, n, n)))
        ELSE fixed.sizes[i]
  IN  [i \in DOMAIN e.kids |-> Sizes(i)]

StackSizes(e, c, down) == With(FixedSizes(e, c, down, NonePlaced), LAMBDA fixed : Shared(e, c, down, fixed))

\* The height of a column and the width of a row.
StackLength(e, sizes, down) ==
  Total([i \in DOMAIN sizes |-> Along(sizes[i], down) + Gap(e, i)])
StackBreadth(sizes, down) == Longest([i \in DOMAIN sizes |-> Across(sizes[i], down)])

VStackLayout(e, c) ==
  With(StackSizes(e, c, TRUE), LAMBDA sizes :
    Sized(e, c, Extents(StackBreadth(sizes, TRUE), StackLength(e, sizes, TRUE))))
HStackLayout(e, c) ==
  With(StackSizes(e, c, FALSE), LAMBDA sizes :
    Sized(e, c, Extents(StackLength(e, sizes, FALSE), StackBreadth(sizes, FALSE))))
ZStackLayout(e, c) ==
  With([i \in DOMAIN e.kids |-> Layout(e.kids[i], c)], LAMBDA sizes :
    Sized(e, c, Extents(StackBreadth(sizes, TRUE), StackBreadth(sizes, FALSE))))

\* What a box has around its child: its margins, where a side that is 0 is the
\* margin of all, its border and its padding.
Side(e, side) == IF e.sides[side] = 0 THEN e.margin ELSE e.sides[side]
MarginWidth(e) == Side(e, "left") + Side(e, "right")
MarginHeight(e) == Side(e, "top") + Side(e, "bottom")
Bordered(e) == e.border \notin {"", "none"}
BorderSize(e) == IF Bordered(e) THEN 2 ELSE 0
OnlyChild(e, c) == IF e.kids = <<>> THEN NoSize ELSE Layout(e.kids[1], c)

AroundWidth(e) == MarginWidth(e) + BorderSize(e) + 2 * e.padding

\* A slip: one side of the padding is forgotten.
AroundHeightHalf(e) == MarginHeight(e) + BorderSize(e) + e.padding
AroundHeight(e) == MarginHeight(e) + BorderSize(e) + 2 * e.padding

BoxLayout(e, c) ==
  LET w == AroundWidth(e)
      h == AroundHeight(e)
      Less(n, by) == AtLeast(0, n - by)
      within == Limits(Less(c.minW, w), Less(c.maxW, w), Less(c.minH, h), Less(c.maxH, h))
  IN  With(OnlyChild(e, within), LAMBDA child : Sized(e, c, Extents(child.w + w, child.h + h)))

\* The length of a text's content: its characters and the ends of its lines.
ContentLength(lines) == Total(lines) + Len(lines) - 1

\* A wrapped text is as many lines as its content fills; of no width, it divides by
\* zero.
TextLayout(e, c) ==
  LET width == Longest(e.lines)
  IN  IF e.lines = <<>> THEN NoSize
      ELSE IF e.wrap /\ width > c.maxW
      THEN Constrain(c, Extents(c.maxW, (ContentLength(e.lines) + c.maxW - 1) \div c.maxW))
      ELSE Constrain(c, Extents(width, Len(e.lines)))

\* A basis is the least width and height of what a flex wraps.
FlexLayout(e, c) ==
  OnlyChild(e, IF e.basis > 0 THEN [c EXCEPT !.minW = AtMost(e.basis, c.maxW), !.minH = AtMost(e.basis, c.maxH)] ELSE c)

SpacerLayout(e, c) == IF e.size > 0 THEN Constrain(c, Extents(e.size, e.size)) ELSE Extents(c.maxW, c.maxH)
DividerLayout(e, c) == IF e.upright THEN Extents(1, c.maxH) ELSE Extents(c.maxW, 1)
BadgeLayout(e, c) == Constrain(c, Extents(e.length + 2, 1))
ProgressLayout(e, c) == Extents(IF IsAuto(e.width) THEN c.maxW ELSE Apply(e.width, c.maxW, 20), 1)
ButtonLayout(e, c) ==
  LET text == TextLayout(NewText(e.lines), Unbounded)
      more == (IF e.border \in {"none", "hidden"} THEN 0 ELSE 2) + 2 * e.padding
  IN  Sized(e, c, Extents(text.w + more, text.h + more))

\* A scroll view takes all it can, or what it is told to.
ScrollLayout(e, c) ==
  Extents(AtMost(IF IsAuto(e.width) THEN c.maxW ELSE Apply(e.width, c.maxW, c.maxW), c.maxW),
          AtMost(IF IsAuto(e.height) THEN c.maxH ELSE Apply(e.height, c.maxH, c.maxH), c.maxH))
ContentSize(e) == OnlyChild(e, Unbounded)

\* An empty stack has no size; what is positioned takes no room; a slot has its child's.
LayoutOf(e, c) ==
  CASE e.kind = "text" -> TextLayout(e, c)
    [] e.kind \in {"vstack", "hstack", "zstack"} /\ e.kids = <<>> -> NoSize
    [] e.kind = "vstack" /\ e.kids # <<>> -> VStackLayout(e, c)
    [] e.kind = "hstack" /\ e.kids # <<>> -> HStackLayout(e, c)
    [] e.kind = "zstack" /\ e.kids # <<>> -> ZStackLayout(e, c)
    [] e.kind = "box" -> BoxLayout(e, c)
    [] e.kind = "flex" -> FlexLayout(e, c)
    [] e.kind = "spacer" -> SpacerLayout(e, c)
    [] e.kind = "divider" -> DividerLayout(e, c)
    [] e.kind = "positioned" -> NoSize
    [] e.kind = "slot" -> OnlyChild(e, c)
    [] e.kind = "scroll" -> ScrollLayout(e, c)
    [] e.kind = "button" -> ButtonLayout(e, c)
    [] e.kind = "badge" -> BadgeLayout(e, c)
    [] e.kind = "progress" -> ProgressLayout(e, c)
Layout(e, c) == With(<<e, c>>, LAMBDA given : LayoutOf(given[1], given[2]))

-----------------------------------------------------------------------------
(***************************************************************************)
(* Drawing a tree of elements into a buffer of cells (the Draw methods of  *)
(* src/pony). What is drawn is which element drew each cell last; elements *)
(* are known by their place in the tree, those that a program fills a slot *)
(* with by their place under the slot's name.                              *)
(***************************************************************************)

(* Rectangles: from x0, y0 up to x1, y1 *)
Area(x, y, w, h) == [x0 |-> x, y0 |-> y, x1 |-> x + w, y1 |-> y + h]
NoArea == Area(0, 0, 0, 0)
Dx(a) == a.x1 - a.x0
Dy(a) == a.y1 - a.y0
IsEmpty(a) == Dx(a) <= 0 \/ Dy(a) <= 0
Intersect(a, b) ==
  LET both == [x0 |-> AtLeast(a.x0, b.x0), y0 |-> AtLeast(a.y0, b.y0), x1 |-> AtMost(a.x1, b.x1), y1 |-> AtMost(a.y1, b.y1)]
  IN  IF IsEmpty(both) THEN NoArea ELSE both
Inside(a, b) == IsEmpty(a) \/ (a.x0 >= b.x0 /\ a.y0 >= b.y0 /\ a.x1 <= b.x1 /\ a.y1 <= b.y1)
CellsOf(a) == (a.x0 .. a.x1 - 1) \X (a.y0 .. a.y1 - 1)
\* The cells of a border.
RimOf(a) == {p \in CellsOf(a) : p[1] \in {a.x0, a.x1 - 1} \/ p[2] \in {a.y0, a.y1 - 1}}
\* A rectangle of a size at a side, a corner or the middle of another.
RectAt(a, w, h, horizontally, vertically) ==
  Area(CASE horizontally = "leading" -> a.x0
         [] horizontally = "center" -> a.x0 + (Dx(a) \div 2) - (w \div 2)
         [] horizontally = "trailing" -> a.x1 - w,
       CASE vertically = "top" -> a.y0
         [] vertically = "center" -> a.y0 + (Dy(a) \div 2) - (h \div 2)
         [] vertically = "bottom" -> a.y1 - h,
       w, h)

(* Places in the tree *)
Child(path, e, i) == IF e.kind = "slot" THEN <<e.name>> ELSE Append(path, ToString(i))

\* A tree's elements, each before its children, with its place and those above it.
RECURSIVE Walk(_, _, _)
Walk(e, path, above) ==
  <<[at |-> path, e |-> e, above |-> above]>>
    \o FlattenSeq([i \in DOMAIN e.kids |-> Walk(e.kids[i], Child(path, e, i), Append(above, path))])

-----------------------------------------------------------------------------
(* A drawing: layers, each the cells that an element drew, the later over the earlier *)
(* ones; the bounds that elements were given; and which were drawn                     *)
SetCells(s, path, cells) == [s EXCEPT !.layers = Append(@, [by |-> path, cells |-> cells])]
SetBounds(s, path, area) == [s EXCEPT !.bounds = (path :> area) @@ @, !.drawn = @ \cup {path}]

RECURSIVE Draw(_, _, _, _)

\* Where a child of a stack begins across it.
Aligned(e, a, breadth, down) ==
  LET from == IF down THEN a.x0 ELSE a.y0
      room == IF down THEN Dx(a) ELSE Dy(a)
  IN  IF breadth >= room THEN from
      ELSE IF e.alignment = "center" THEN from + (room - breadth) \div 2
      ELSE IF e.alignment = (IF down THEN "trailing" ELSE "bottom") THEN from + room - breadth
      ELSE from

\* The children of a stack one after another, cut to the stack's area, until the
\* area is full.
RECURSIVE DrawNext(_, _, _, _, _, _, _, _)
DrawNext(e, path, a, sizes, down, i, at, s) ==
  LET size == sizes[i]
      across == Aligned(e, a, Across(size, down), down)
      place == IF down THEN Area(across, at, size.w, size.h) ELSE Area(at, across, size.w, size.h)
  IN  IF i > Len(e.kids) \/ at >= (IF down THEN a.y1 ELSE a.x1) THEN s
      ELSE With(<<Draw(e.kids[i], Child(path, e, i), Intersect(place, a), s), at + Along(size, down) + Gap(e, i)>>,
                 LAMBDA then : DrawNext(e, path, a, sizes, down, i + 1, then[2], then[1]))

VStackDraw(e, path, a, s) ==
  With(StackSizes(e, UpTo(Dx(a), Dy(a)), TRUE), LAMBDA sizes : DrawNext(e, path, a, sizes, TRUE, 1, a.y0, s))
HStackDraw(e, path, a, s) ==
  With(StackSizes(e, UpTo(Dx(a), Dy(a)), FALSE), LAMBDA sizes : DrawNext(e, path, a, sizes, FALSE, 1, a.x0, s))

\* The children of a layered stack, the later ones over the earlier ones. Alignments
\* that are not known go to the top left.
RECURSIVE DrawOver(_, _, _, _, _)
DrawOver(e, path, a, i, s) ==
  LET known == e.alignment \in {"leading", "center", "trailing"} /\ e.verticalAlignment \in {"top", "center", "bottom"}
      Place(size) == RectAt(a, size.w, size.h, IF known THEN e.alignment ELSE "leading", IF known THEN e.verticalAlignment ELSE "top")
      area == IF e.kids[i].kind = "positioned" THEN a ELSE With(Layout(e.kids[i], UpTo(Dx(a), Dy(a))), Place)
  IN  IF i > Len(e.kids) THEN s
      ELSE With(Draw(e.kids[i], Child(path, e, i), area, s), LAMBDA then : DrawOver(e, path, a, i + 1, then))
ZStackDraw(e, path, a, s) == DrawOver(e, path, a, 1, s)

\* What is left of an area inside margins, a border and padding; each only if it leaves something.
WithoutMargins(e, a) ==
  IF Dx(a) > MarginWidth(e) /\ Dy(a) > MarginHeight(e)
  THEN Area(a.x0 + Side(e, "left"), a.y0 + Side(e, "top"), Dx(a) - MarginWidth(e), Dy(a) - MarginHeight(e))
  ELSE a
Shrunk(a, by) ==
  IF Dx(a) > 2 * by /\ Dy(a) > 2 * by THEN Area(a.x0 + by, a.y0 + by, Dx(a) - 2 * by, Dy(a) - 2 * by) ELSE a
Inner(e, a) == Shrunk(IF Bordered(e) THEN Shrunk(a, 1) ELSE a, e.padding)
DrawFrame(e, path, a, s) == IF Bordered(e) THEN SetCells(s, path, RimOf(a)) ELSE s
DrawOnly(e, path, a, s) == IF e.kids = <<>> THEN s ELSE Draw(e.kids[1], Child(path, e, 1), a, s)

BoxDraw(e, path, a, s) ==
  With(WithoutMargins(e, a), LAMBDA b : DrawOnly(e, path, Inner(e, b), DrawFrame(e, path, b, s)))

\* A button draws a text within a box of its own.
ButtonDraw(e, path, a, s) ==
  LET framed == DrawFrame(e, path, a, s)
  IN  IF e.lines = <<>> THEN framed ELSE SetCells(framed, path, CellsOf(Inner(e, a)))

\* A slip: what is positioned is not cut to the area.
PositionedUncut(e, a, size) ==
  Area(IF e.right >= 0 THEN a.x1 - e.right - size.w ELSE a.x0 + e.x,
       IF e.bottom >= 0 THEN a.y1 - e.bottom - size.h ELSE a.y0 + e.y, size.w, size.h)

\* A positioned child: from the right and the bottom where they are given, cut to the area.
PositionedPlace(e, a, size) ==
  Intersect(Area(IF e.right >= 0 THEN a.x1 - e.right - size.w ELSE a.x0 + e.x,
                 IF e.bottom >= 0 THEN a.y1 - e.bottom - size.h ELSE a.y0 + e.y, size.w, size.h), a)
PositionedDraw(e, path, a, s) ==
  LET w == Apply(e.width, Dx(a), Dx(a))
      h == Apply(e.height, Dy(a), Dy(a))
      c == Limits(IF IsAuto(e.width) THEN 0 ELSE w, IF IsAuto(e.width) THEN Dx(a) ELSE w,
                  IF IsAuto(e.height) THEN 0 ELSE h, IF IsAuto(e.height) THEN Dy(a) ELSE h)
  IN  DrawOnly(e, path, PositionedPlace(e, a, OnlyChild(e, c)), s)

DividerDraw(e, path, a, s) ==
  SetCells(s, path, IF e.upright THEN {a.x0} \X (a.y0 .. a.y1 - 1) ELSE (a.x0 .. a.x1 - 1) \X {a.y0})
ProgressDraw(path, a, s) == SetCells(s, path, (a.x0 .. a.x1 - 1) \X {a.y0})

\* A text, and a badge, clear the whole of their area.
TextDraw(e, path, a, s) == IF e.lines = <<>> THEN s ELSE SetCells(s, path, CellsOf(a))
BadgeDraw(e, path, a, s) == IF e.length = 0 THEN s ELSE SetCells(s, path, CellsOf(a))

-----------------------------------------------------------------------------
(* Scroll views *)

Barred(e, n) == IF e.bar THEN n ELSE 0
ViewportWidth(e, a) == Dx(a) - Barred(e, IF e.vertical THEN 1 ELSE 0)
ViewportHeight(e, a) == Dy(a) - Barred(e, IF e.horizontal THEN 1 ELSE 0)

\* The thumb of a scrollbar: how long it is, and where on the track it is, kept within it.
ThumbLength(content, viewport, track) == AtLeast(1, (viewport * track) \div content)

\* A slip: the thumb moves as if the whole content were to be scrolled past.
ThumbPlaceShort(content, viewport, track, offset) ==
  LET length == ThumbLength(content, viewport, track)
      place == (offset * (track - length)) \div content
  IN  AtLeast(0, IF place + length > track THEN track - length ELSE place)

ThumbPlace(content, viewport, track, offset) ==
  LET length == ThumbLength(content, viewport, track)
      place == (offset * (track - length)) \div (content - viewport)
  IN  AtLeast(0, IF place + length > track THEN track - length ELSE place)

DrawVerticalScrollbar(e, path, a, content, s) ==
  IF content.h <= ViewportHeight(e, a) THEN s ELSE SetCells(s, path, {a.x1 - 1} \X (a.y0 .. a.y1 - 1))
DrawHorizontalScrollbar(e, path, a, content, s) ==
  IF content.w <= ViewportWidth(e, a) THEN s ELSE SetCells(s, path, (a.x0 .. a.x1 - 1) \X {a.y1 - 1})

Moved(b, dx, dy) == [x0 |-> b.x0 + dx, y0 |-> b.y0 + dy, x1 |-> b.x1 + dx, y1 |-> b.y1 + dy]

\* A slip: the offset is forgotten when the bounds are put in place.
AdjustDownOnly(bounds, e, path, dx, dy) ==
  With({n.at : n \in Range(Walk(e, path, <<>>))}, LAMBDA under :
    [p \in DOMAIN bounds |-> IF p \in under THEN Moved(bounds[p], dx, AtLeast(0, dy)) ELSE bounds[p]])

\* All that is under a place of the tree moves.
AdjustChildBounds(bounds, e, path, dx, dy) ==
  With({n.at : n \in Range(Walk(e, path, <<>>))}, LAMBDA under :
    [p \in DOMAIN bounds |-> IF p \in under THEN Moved(bounds[p], dx, dy) ELSE bounds[p]])

\* The whole content is drawn in a buffer of its own, of which the viewport shows a
\* part; cells of it that nobody drew are the scroll view's.
Viewed(layers, a, e, content) ==
  LET viewport == CellsOf(Area(a.x0, a.y0, ViewportWidth(e, a), ViewportHeight(e, a)))
      From(p) == <<p[1] - a.x0 + e.offsetX, p[2] - a.y0 + e.offsetY>>
  IN  [n \in DOMAIN layers |->
         [by |-> layers[n].by,
          cells |-> {p \in viewport : From(p)[1] < content.w /\ From(p)[2] < content.h /\ From(p) \in layers[n].cells}]]

Bars(e, path, a, content, s) ==
  LET down == IF e.bar /\ e.vertical THEN DrawVerticalScrollbar(e, path, a, content, s) ELSE s
  IN  IF e.bar /\ e.horizontal THEN DrawHorizontalScrollbar(e, path, a, content, down) ELSE down

DrawContent(e, path, a, content, s) ==
  LET all == Area(0, 0, content.w, content.h)
      inner == Child(path, e, 1)
  IN  With(Draw(e.kids[1], inner, all, [s EXCEPT !.layers = <<[by |-> path, cells |-> CellsOf(all)]>>]), LAMBDA alone :
        Bars(e, path, a, content,
          [layers |-> s.layers \o Viewed(alone.layers, a, e, content),
           bounds |-> AdjustChildBounds(alone.bounds, e.kids[1], inner, a.x0 - e.offsetX, a.y0 - e.offsetY),
           drawn |-> alone.drawn]))
ScrollDraw(e, path, a, s) ==
  IF e.kids = <<>> THEN s ELSE With(ContentSize(e), LAMBDA content : DrawContent(e, path, a, content, s))

-----------------------------------------------------------------------------
\* Draw: an element notes its bounds and draws itself and its children.
DrawElement(e, path, a, s) ==
  CASE e.kind = "vstack" -> VStackDraw(e, path, a, s)
    [] e.kind = "hstack" -> HStackDraw(e, path, a, s)
    [] e.kind = "zstack" -> ZStackDraw(e, path, a, s)
    [] e.kind = "box" -> BoxDraw(e, path, a, s)
    [] e.kind \in {"flex", "slot"} -> DrawOnly(e, path, a, s)
    [] e.kind = "spacer" -> s
    [] e.kind = "divider" -> DividerDraw(e, path, a, s)
    [] e.kind = "progress" -> ProgressDraw(path, a, s)
    [] e.kind = "positioned" -> PositionedDraw(e, path, a, s)
    [] e.kind = "scroll" -> ScrollDraw(e, path, a, s)
    [] e.kind = "button" -> ButtonDraw(e, path, a, s)
    [] e.kind = "badge" -> BadgeDraw(e, path, a, s)
    [] e.kind = "text" -> TextDraw(e, path, a, s)
Draw(e, path, a, s) ==
  With(<<e, path, a, SetBounds(s, path, a)>>, LAMBDA g : DrawElement(g[1], g[2], g[3], g[4]))
=============================================================================
