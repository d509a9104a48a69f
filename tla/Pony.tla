-------------------------------- MODULE Pony --------------------------------
(***************************************************************************)
(* A program that shows documents with pony (src/pony/template.go, bounds. *)
(* go, scrollview.go): it renders them into windows of several sizes, fills*)
(* their slots with elements of its own, which stay from one frame to the  *)
(* next, scrolls those, and looks up what was clicked in the last frame's  *)
(* bounds.                                                                 *)
(***************************************************************************)
EXTENDS PonyElements

-----------------------------------------------------------------------------
(***************************************************************************)
(* From markup to elements (src/pony/parser.go, template.go). A document is*)
(* the tree that the XML decoder makes of it: tags, attributes, children   *)
(* and text; its form says whether it is a tag with nothing around it      *)
(* ("plain"), with spaces around it ("spaced"), or begins with text, for   *)
(* which the parser adds a tag of its own ("bare"). An attribute's value is*)
(* a number, a percentage, a word or a text of lines.                      *)
(***************************************************************************)

IntValue(n) == [as |-> "number", n |-> n]
PercentSign(n) == [as |-> "percent", n |-> n]
Word(w) == [as |-> "word", word |-> w]
LinesValue(lines) == [as |-> "lines", lines |-> lines]
Tag(tag, props, kids) == [tag |-> tag, props |-> props, kids |-> kids, text |-> <<>>]
TextTag(tag, props, lines) == [Tag(tag, props, <<>>) EXCEPT !.text = lines]
NoProps == <<>>
Document(form, root) == [form |-> form, root |-> root]

HasProp(n, key) == key \in DOMAIN n.props

\* parseIntAttr: the digits a value begins with.
IntAttr(n, key, default) ==
  IF HasProp(n, key) /\ n.props[key].as \in {"number", "percent"} THEN n.props[key].n ELSE default
BoolAttr(n, key, default) == IF HasProp(n, key) THEN n.props[key] \in {Word("true"), Word("yes"), IntValue(1)} ELSE default
WordAttr(n, key, default) == IF HasProp(n, key) THEN n.props[key].word ELSE default

\* parseSizeConstraint, of which what is automatic is not passed on.
ParseSizeConstraint(v) ==
  CASE v.as = "number" -> Fixed(v.n)
    [] v.as = "percent" -> Percent(v.n)
    [] v.as = "word" -> InUnits(0, IF v.word \in {"min", "max"} THEN v.word ELSE "auto")
SizeAttr(n, key) ==
  LET size == IF HasProp(n, key) THEN ParseSizeConstraint(n.props[key]) ELSE Auto
  IN  IF IsAuto(size) THEN Auto ELSE size

-----------------------------------------------------------------------------
(* Elements by their tags *)

RECURSIVE ToElement(_)
ChildElements(n) == [i \in DOMAIN n.kids |-> ToElement(n.kids[i])]
\* Tags that wrap one element take the first of their children.
FirstChild(n) == IF n.kids = <<>> THEN <<>> ELSE <<ToElement(n.kids[1])>>
Positive(n, key) == AtLeast(0, IntAttr(n, key, 0))
AlignmentBut(n, default) == LET a == WordAttr(n, "alignment", default) IN IF a = default THEN "" ELSE a

ToVStack(n) ==
  [NewVStack(ChildElements(n)) EXCEPT
     !.spacing = Positive(n, "spacing"), !.width = SizeAttr(n, "width"), !.height = SizeAttr(n, "height"),
     !.alignment = AlignmentBut(n, "leading")]
ToHStack(n) ==
  [NewHStack(ChildElements(n)) EXCEPT
     !.spacing = Positive(n, "spacing"), !.width = SizeAttr(n, "width"), !.height = SizeAttr(n, "height"),
     !.alignment = AlignmentBut(n, "top")]
ToZStack(n) ==
  [NewZStack(ChildElements(n)) EXCEPT
     !.width = SizeAttr(n, "width"), !.height = SizeAttr(n, "height"),
     !.alignment = WordAttr(n, "alignment", "center"), !.verticalAlignment = WordAttr(n, "vertical-alignment", "center")]
ToText(n) == [NewText(n.text) EXCEPT !.wrap = BoolAttr(n, "wrap", FALSE)]

\* A slip: the margin of all sides is taken for the sides that are not given.
ToBoxSameMargins(n) ==
  [NewBox(FirstChild(n)) EXCEPT
     !.border = WordAttr(n, "border", "none"), !.width = SizeAttr(n, "width"), !.height = SizeAttr(n, "height"),
     !.padding = Positive(n, "padding"), !.margin = Positive(n, "padding")]

ToBox(n) ==
  [NewBox(FirstChild(n)) EXCEPT
     !.border = WordAttr(n, "border", "none"), !.width = SizeAttr(n, "width"), !.height = SizeAttr(n, "height"),
     !.padding = Positive(n, "padding"), !.margin = Positive(n, "margin"),
     !.sides = [top |-> Positive(n, "margin-top"), right |-> Positive(n, "margin-right"),
                bottom |-> Positive(n, "margin-bottom"), left |-> Positive(n, "margin-left")]]
ToSpacer(n) == NewFixedSpacer(Positive(n, "size"))
ToFlex(n) == [NewFlex(FirstChild(n)) EXCEPT !.grow = Positive(n, "grow"), !.basis = Positive(n, "basis")]
ToPositioned(n) ==
  [NewPositioned(FirstChild(n), IntAttr(n, "x", 0), IntAttr(n, "y", 0)) EXCEPT
     !.right = AtLeast(-1, IntAttr(n, "right", -1)), !.bottom = AtLeast(-1, IntAttr(n, "bottom", -1)),
     !.width = SizeAttr(n, "width"), !.height = SizeAttr(n, "height")]
ToDivider(n) == IF BoolAttr(n, "vertical", FALSE) THEN NewVerticalDivider ELSE NewDivider
ToSlot(n) == NewSlot(WordAttr(n, "name", "unnamed"))
ToScrollView(n) ==
  [NewScrollView(FirstChild(n)) EXCEPT
     !.offsetX = IntAttr(n, "offset-x", 0), !.offsetY = IntAttr(n, "offset-y", 0),
     !.width = SizeAttr(n, "width"), !.height = SizeAttr(n, "height"), !.bar = BoolAttr(n, "scrollbar", TRUE),
     !.vertical = BoolAttr(n, "vertical", TRUE), !.horizontal = BoolAttr(n, "horizontal", FALSE)]

\* The text of a component: its attribute, or else its first child's if that is a text.
ComponentText(n) ==
  IF HasProp(n, "text") THEN n.props["text"].lines
  ELSE IF n.kids # <<>> /\ n.kids[1].tag = "text" THEN n.kids[1].text ELSE <<>>
NewButtonFromProps(n) ==
  LET button == NewButton(ComponentText(n))
      padding == IntAttr(n, "padding", 0)
  IN  [button EXCEPT
         !.border = WordAttr(n, "border", @), !.padding = IF padding > 0 THEN padding ELSE @,
         !.width = SizeAttr(n, "width"), !.height = SizeAttr(n, "height")]
NewBadgeFromProps(n) == NewBadge(IF ComponentText(n) = <<>> THEN 0 ELSE ContentLength(ComponentText(n)))
NewProgressFromProps(n) == NewProgressView(SizeAttr(n, "width"))

\* The components that are registered come first; a tag nobody knows is a column.
Untagged(n) ==
  CASE n.tag = "button" -> NewButtonFromProps(n)
    [] n.tag = "badge" -> NewBadgeFromProps(n)
    [] n.tag = "progressview" -> NewProgressFromProps(n)
    [] n.tag = "vstack" -> ToVStack(n)
    [] n.tag = "hstack" -> ToHStack(n)
    [] n.tag = "zstack" -> ToZStack(n)
    [] n.tag = "text" -> ToText(n)
    [] n.tag = "box" -> ToBox(n)
    [] n.tag = "spacer" -> ToSpacer(n)
    [] n.tag = "flex" -> ToFlex(n)
    [] n.tag = "positioned" -> ToPositioned(n)
    [] n.tag = "divider" -> ToDivider(n)
    [] n.tag = "slot" -> ToSlot(n)
    [] n.tag = "scrollview" -> ToScrollView(n)
    [] OTHER -> NewVStack(ChildElements(n))
ToElement(n) == [Untagged(n) EXCEPT !.id = WordAttr(n, "id", "")]

-----------------------------------------------------------------------------
(* Documents *)

\* What is not exactly one tag is taken to have been wrapped, and unwrapped.
Parse(d) == IF d.form # "plain" /\ Len(d.root.kids) = 1 THEN d.root.kids[1] ELSE d.root

RECURSIVE FillSlots(_, _)
FillSlots(e, slots) ==
  IF e.kind = "slot" THEN [e EXCEPT !.kids = IF e.name \in DOMAIN slots THEN <<slots[e.name]>> ELSE <<>>]
  ELSE [e EXCEPT !.kids = [i \in DOMAIN @ |-> FillSlots(@[i], slots)]]

-----------------------------------------------------------------------------
CONSTANTS
  Pages,    \* what the programs show: documents, the elements for their slots, and
            \* markup with the elements it is to build
  WindowsOf \* the sizes of the windows

VARIABLES
  page,   \* the program
  slots,  \* its elements, by the slots they fill
  kept,   \* the bounds that these elements were given, by their places
  frame   \* the last frame: its tree, cells, bounds map and what was drawn of it

ponyVars == <<page, slots, kept, frame>>

NoFrame == [cells |-> <<>>, map |-> <<>>, drawn |-> {}, window |-> NoSize, root |-> NoSize]

PonyInit ==
  /\ page \in Pages
  /\ slots = page.slots
  /\ kept = <<>>
  /\ frame = NoFrame

-----------------------------------------------------------------------------
(* Rendering *)

\* walkAndRegister: every element of the tree, parents first, with its last bounds.
Registered(root, bounds) ==
  LET all == Walk(root, <<"page">>, <<>>)
  IN  [i \in DOMAIN all |->
         [at |-> all[i].at, e |-> all[i].e, above |-> all[i].above,
          rect |-> IF all[i].at \in DOMAIN bounds THEN bounds[all[i].at] ELSE NoArea]]

\* Who drew each cell of a buffer last; cells that nobody drew are left out.
Flattened(layers, w, h) ==
  LET Over(p) == {n \in DOMAIN layers : p \in layers[n].cells}
  IN  [p \in {q \in (0 .. w - 1) \X (0 .. h - 1) : Over(q) # {}} |-> layers[Max(Over(p))].by]

\* RenderWithBounds: a new tree of the document, laid out in the window, is drawn in
\* a buffer of the size it asks for.
Framed(root, window, w, h, s) ==
  [cells |-> Flattened(s.layers, w, h), map |-> Registered(root, s.bounds), drawn |-> s.drawn, window |-> window, root |-> root]
DrawnIn(root, w, h) == Draw(root, <<"page">>, Area(0, 0, w, h), [layers |-> <<>>, bounds |-> kept, drawn |-> {}])
RenderWithBounds(d, window) ==
  /\ \E root \in {FillSlots(ToElement(Parse(d)), slots)} :
       \E size \in {Constrain(UpTo(window.w, window.h), Layout(root, UpTo(window.w, window.h)))} :
         \E s \in {DrawnIn(root, size.w, size.h)} :
           /\ frame' = Framed(root, window, size.w, size.h, s)
           /\ kept' = [p \in {q \in DOMAIN s.bounds : q[1] # "page"} |-> s.bounds[p]]
  /\ UNCHANGED <<page, slots>>

-----------------------------------------------------------------------------
(* Scrolling: the program says how large the content and the viewport are. *)

ScrolledUp(e, amount) == [e EXCEPT !.offsetY = AtLeast(0, @ - amount)]
ScrolledDown(e, amount, content, viewport) ==
  [e EXCEPT !.offsetY = AtMost(AtLeast(0, content - viewport), @ + amount)]
ScrolledLeft(e, amount) == [e EXCEPT !.offsetX = AtLeast(0, @ - amount)]
ScrolledRight(e, amount, content, viewport) ==
  [e EXCEPT !.offsetX = AtMost(AtLeast(0, content - viewport), @ + amount)]

Wheel(name, amount) ==
  LET e == slots[name]
      area == kept[<<name>>]
      content == ContentSize(e)
  IN  /\ e.kind = "scroll" /\ <<name>> \in DOMAIN kept
      /\ slots' \in {[slots EXCEPT ![name] = scrolled] :
                       scrolled \in (IF e.vertical
                                     THEN {ScrolledUp(e, amount), ScrolledDown(e, amount, content.h, ViewportHeight(e, area))}
                                     ELSE {})
                              \cup (IF e.horizontal
                                    THEN {ScrolledLeft(e, amount), ScrolledRight(e, amount, content.w, ViewportWidth(e, area))}
                                    ELSE {})}
      /\ UNCHANGED <<page, kept, frame>>

PonyNext ==
  \/ \E d \in page.documents, window \in WindowsOf : RenderWithBounds(d, window)
  \/ \E name \in DOMAIN slots : Wheel(name, 1)

-----------------------------------------------------------------------------
(* Looking up what is at a cell: the elements' numbers in the bounds map *)

PointInRect(p, r) == p[1] >= r.x0 /\ p[1] < r.x1 /\ p[2] >= r.y0 /\ p[2] < r.y1
HitTestAll(p) == {i \in DOMAIN frame.map : PointInRect(p, frame.map[i].rect)}
Explicit(i) == frame.map[i].e.id # ""

\* A slip: the search is from the first that was drawn.
HitTestFromFirst(p) ==
  LET hits == HitTestAll(p)
      explicit == {i \in hits : Explicit(i)}
  IN  IF explicit # {} THEN Min(explicit) ELSE IF hits # {} THEN Min(hits) ELSE 0

\* The last that has an identifier of its own, or else the last of all; 0 if there is none.
HitTest(p) ==
  LET hits == HitTestAll(p)
      explicit == {i \in hits : Explicit(i)}
  IN  IF explicit # {} THEN Max(explicit) ELSE IF hits # {} THEN Max(hits) ELSE 0
HitTestWithContainer(p) ==
  LET hits == HitTestAll(p)
      under == {i \in hits : i # Max(hits) /\ Explicit(i)}
  IN  IF hits = {} THEN <<0, 0>> ELSE <<Max(hits), IF under = {} THEN 0 ELSE Max(under)>>

-----------------------------------------------------------------------------
(* Properties *)

EntryAt(path) == CHOOSE i \in DOMAIN frame.map : frame.map[i].at = path
Above(i) == frame.map[i].above
\* One of two elements holds the other, or they are the same.
Related(i, j) == i = j \/ frame.map[i].at \in Range(Above(j)) \/ frame.map[j].at \in Range(Above(i))
KindsAbove(i, from) == {frame.map[EntryAt(Above(i)[n])].e.kind : n \in from .. Len(Above(i))}
\* Elements that scroll views may leave outside of their viewports, or that were left
\* over from a frame before.
Astray(i) == "scroll" \in KindsAbove(i, 1) \/ frame.map[i].at \notin frame.drawn

\* What is shown at a cell can be clicked there: the element that drew the cell is
\* among those that the bounds map finds at it (Draw, SetBounds, adjustChildBounds and
\* HitTestAll agree), however deep it is in boxes, stacks and scrolled views.
ShownIsFound ==
  \A p \in DOMAIN frame.cells :
    EntryAt(frame.cells[p]) \in HitTestAll(p)

\* What can be clicked is shown: the elements drawn in this frame lie within those that
\* hold them, unless they are scrolled; and what was not drawn is found nowhere,
\* unless it is the program's own and was drawn in a frame before (Intersect in the
\* stacks, Box, Positioned and ZStack.Draw; walkAndRegister).
FoundIsShown ==
  \A i \in DOMAIN frame.map :
    LET m == frame.map[i] IN
    \/ IsEmpty(m.rect)
    \/ m.at \in frame.drawn /\ (Above(i) = <<>> \/ Astray(i) \/ Inside(m.rect, frame.map[EntryAt(Above(i)[Len(Above(i))])].rect))
    \/ m.at \notin frame.drawn /\ m.at[1] # "page"

\* A click on what an element shows goes to a component it is part of, or that is part
\* of it, as HitTest documents; only layers of a ZStack, scrolled elements and those of
\* frames before may come between.
ClickIsTheComponents ==
  \A p \in DOMAIN frame.cells :
    LET i == EntryAt(frame.cells[p])
        hit == HitTest(p)
        found == HitTestWithContainer(p)
        owners == {j \in HitTestAll(p) : Explicit(j) /\ frame.map[j].at \in Range(Append(Above(i), frame.map[i].at))}
    IN  \/ /\ Related(i, hit) /\ (owners = {} \/ (Explicit(hit) /\ hit >= Max(owners)))
           /\ found[2] # 0 => frame.map[found[2]].at \in Range(Above(found[1]))
        \/ \E j \in HitTestAll(p) : Astray(j) \/ "zstack" \in KindsAbove(j, 1)

\* Elements whose size is that of their content, and trees of them.
Rigid(e) ==
  /\ e.kind \in {"text", "vstack", "hstack", "zstack", "box", "flex", "slot", "badge", "button"}
  /\ e.kind = "text" => ~e.wrap
  /\ e.kind = "flex" => e.grow = 0 /\ e.basis = 0
  /\ "width" \in DOMAIN e => IsAuto(e.width) /\ IsAuto(e.height)

\* What fits is shown whole: if a tree of elements as large as their content fits the
\* window, each is drawn in an area of the size that its content has, under all its
\* margins, borders, padding and gaps (the Layout and Draw of every element agree).
WhatFitsIsWhole ==
  LET natural == Layout(frame.root, Unbounded)
  IN  frame.map # <<>> /\ (\A i \in DOMAIN frame.map : Rigid(frame.map[i].e))
        /\ natural.w <= frame.window.w /\ natural.h <= frame.window.h
      => \A i \in DOMAIN frame.map :
           LET m == frame.map[i]
               size == Layout(m.e, Unbounded)
           IN  m.e.kind \in {"text", "badge", "button"} /\ size.w > 0 => Extents(Dx(m.rect), Dy(m.rect)) = size

\* The thumb of a scroll view tells where it is: it is on the track, at its first cell
\* when nothing is scrolled and at its last when all is, never farther when less is scrolled.
ThumbTells ==
  \A i \in DOMAIN frame.map :
    LET m == frame.map[i]
        content == ContentSize(m.e).h
        viewport == ViewportHeight(m.e, m.rect)
        track == Dy(m.rect)
        Place(offset) == ThumbPlace(content, viewport, track, offset)
    IN  m.e.kind = "scroll" /\ m.e.bar /\ m.e.vertical /\ track > 0 /\ content > viewport =>
          /\ Place(0) = 0
          /\ Place(content - viewport) + ThumbLength(content, viewport, track) = track
          /\ \A o \in 0 .. content - viewport - 1 : Place(o) <= Place(o + 1)

\* Markup builds what the constructors and helpers of Go build (the to... methods of
\* parser.go with helpers.go).
MarkupAgrees == \A pair \in page.same : ToElement(Parse(pair[1])) = pair[2]

\* What a frame shows and what a click finds are the same elements (Draw,
\* SetBounds, walkAndRegister, HitTest).
ClicksFindElements == ShownIsFound /\ FoundIsShown /\ ClickIsTheComponents

\* Elements are built, measured and drawn by the same numbers (toElement,
\* Layout, Draw, drawScrollbar).
ElementsAreWhole == WhatFitsIsWhole /\ ThumbTells /\ MarkupAgrees
=============================================================================
