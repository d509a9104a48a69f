------------------------------ MODULE MCInput -------------------------------
(***************************************************************************)
(* The programs that exchange sequences and read input, one at a time: a   *)
(* program in the emulator with its user, a program at a Windows console,  *)
(* and inputs of every kind one by one.                                    *)
(***************************************************************************)
EXTENDS Conversation, Console, InputCases, Pony

VARIABLE program

vars == <<program, talkVars, conVars, caseVars, ponyVars>>

Init == /\ TalkInit /\ ConInit /\ CaseInit /\ PonyInit
        /\ program \in {"talk", "console", "cases", "pages"}
        /\ program # "talk" => topic = 1
        /\ program # "pages" => page = CHOOSE p \in Pages : TRUE

Next == \/ program = "talk" /\ TalkNext /\ UNCHANGED <<program, conVars, caseVars, ponyVars>>
        \/ program = "console" /\ ConNext /\ UNCHANGED <<program, talkVars, caseVars, ponyVars>>
        \/ program = "cases" /\ CaseNext /\ UNCHANGED <<program, talkVars, conVars, ponyVars>>
        \/ program = "pages" /\ PonyNext /\ UNCHANGED <<program, talkVars, conVars, caseVars>>

Spec == Init /\ [][Next]_vars

-----------------------------------------------------------------------------
\* Topics: arrows and the keypad, other keys, the mouse, pastes, and questions.
Topic == [modes |-> {}, keys |-> {}, mice |-> {}, texts |-> {}, places |-> {}, sizes |-> {}, colors |-> {}]
MCSpecs == {<<114>>}
MCTopics ==
  <<[Topic EXCEPT
       !.modes = {ModeCursorKeys, ModeNumericKeypad},
       !.keys = {Key(Named.Up, 0), Key(Named.Left, ModAlt), Key(Named.Kp5, 0), Key(Named.KpPlus, 0), TextKey(233, <<233>>)}],
    [Topic EXCEPT
       !.modes = {ModeLineFeedNewLine},
       !.keys = {TextKey(97, <<97>>), Key(Named.Home, 0), Key(F(1), 0), Key(F(5), ModAlt), Key(99, ModCtrl),
                 Key(99, ModCtrl + ModAlt), Key(Named.Tab, ModShift), Key(Named.Space, ModCtrl), Key(Named.Enter, 0),
                 Key(97, ModAlt)}],
    [Topic EXCEPT
       !.modes = {ModeMouseX10, ModeMouseAnyEvent, ModeMouseExtSgr},
       !.mice = {Mouse("MouseClick", 0, 1, MouseLeft, 0), Mouse("MouseRelease", 2, 1, MouseRight, ModCtrl),
                 Mouse("MouseMotion", 94, 0, MouseNone, 0), Mouse("MouseWheel", 0, 94, MouseWheelUp, ModAlt + ModShift)}],
    [Topic EXCEPT
       !.modes = {ModeFocusEvent, ModeBracketedPaste}, !.texts = {<<97, 195, 169, 32>>}, !.keys = {Key(Named.Up, 0)}],
    [Topic EXCEPT
       !.modes = {ModeInBandResize, ModeLineFeedNewLine}, !.sizes = {[w |-> 4, h |-> 3], [w |-> 5, h |-> 2]},
       !.colors = {10, 11}, !.places = {[x |-> 2, y |-> 1], [x |-> 1, y |-> 0]}, !.keys = {Key(F(3), 0)}]>>

\* The console: letters of all cases, an arrow, a control character.
StrokeOf(vk, base, plain, shifted, altgr) ==
  [vk |-> vk, base |-> base, plain |-> plain, shifted |-> shifted, altgr |-> altgr]
MCStrokes == {StrokeOf(65, 97, 97, 65, 97), StrokeOf(81, 113, 113, 81, 64), StrokeOf(37, Named.Left, 0, 0, 0),
              StrokeOf(13, 13, 13, 13, 13)}
StringOfUnits(units, events) == [units |-> units, means |-> events]
MCStrings ==
  {StringOfUnits(<<233>>, <<Press([TextKey(233, <<233>>) EXCEPT !.base = 233])>>),
   StringOfUnits(<<55357, 56842>>, <<Press(TextKey(128522, <<128522>>))>>),
   StringOfUnits(<<Esc, 91, Ch.A>>, <<Press(Key(Named.Up, 0))>>),
   StringOfUnits(<<Esc, 91, 49, Semicolon, 50, Ch.R>>, <<Press(Key(F(3), ModShift)), [type |-> "CursorPosition", x |-> 1, y |-> 0]>>),
   StringOfUnits(<<Esc, 93, 49, 49, Semicolon, 114, Esc, 92>>, <<[type |-> "Color", of |-> 11, spec |-> <<114>>]>>)}
MCSizes == {<<80, 24>>, <<100, 30>>}

\* Keys of the kitty protocol by their numbers in it.
KittyKeyOf(n, code, upper) == [n |-> n, code |-> code, upper |-> upper]
MCKittyKeys ==
  {KittyKeyOf(97, 97, 65), KittyKeyOf(233, 233, 201), KittyKeyOf(49, 49, 33), KittyKeyOf(32, 32, 0), KittyKeyOf(27, 27, 0),
   KittyKeyOf(13, 13, 0), KittyKeyOf(9, 9, 0), KittyKeyOf(127, Named.Backspace, 0), KittyKeyOf(57358, Named.CapsLock, 0),
   KittyKeyOf(57363, Named.Menu, 0), KittyKeyOf(57376, F(13), 0), KittyKeyOf(57398, F(35), 0), KittyKeyOf(57399, Named.Kp0, 0),
   KittyKeyOf(57417, Named.KpLeft, 0), KittyKeyOf(57427, Named.KpBegin, 0), KittyKeyOf(57441, Named.LeftShift, 0),
   KittyKeyOf(57447, Named.RightShift, 0), KittyKeyOf(57454, Named.IsoLevel5Shift, 0)}
\* Bytes: a few for each kind of sequence, with one that ends it badly.
MCAlphabets ==
  {{Esc, 91, 49, Semicolon, Ch.A, Tilde, Dollar}, {Esc, 93, 49, Semicolon, Bel, 92}, {Esc, Ch.P, 49, 43, Ch.r, 92},
   {Esc, Ch.O, 49, Ch.A, 195, 169}, {Esc, Ch.X, 95, 71, Can, C1.St}, {C1.Csi, C1.Osc, C1.Dcs, C1.Ss3, 49, Ch.B}}

-----------------------------------------------------------------------------
\* Pages of pony: documents, the elements that fill their slots, and markup with the
\* elements it should build.
Line(n) == TextTag("text", NoProps, <<n>>)
WithId(e, id) == [e EXCEPT !.id = id]
T(n) == NewText(<<n>>)
Plain(root) == Document("plain", root)
PageOf(documents, filled, same) == [documents |-> documents, slots |-> filled, same |-> same]
\* A form: a title, inputs in boxes, buttons in a row, a footer; shorter and longer.
FormPage ==
  LET Input(id) == WithId(NewVStack(<<T(2), Panel(T(3), "rounded", 1)>>), id)
      ButtonRow == Tag("hstack", "spacing" :> IntValue(1),
                      <<Tag("button", ("text" :> LinesValue(<<2>>)) @@ ("id" :> Word("ok")) @@ ("padding" :> IntValue(1)), <<>>),
                        Tag("badge", "text" :> LinesValue(<<1>>), <<>>)>>)
      Form(head) == Plain(Tag("vstack", ("alignment" :> Word("center")) @@ ("id" :> Word("form")), head \o <<Tag("slot", "name" :> Word("in"), <<>>), ButtonRow>>))
  IN  PageOf({Form(<<>>), Form(<<TextTag("text", "id" :> Word("title"), <<4, 2>>), Line(1)>>)},
             "in" :> Input("name"), {})
\* A list that scrolls, in a box with a header; its items can be clicked.
ListPage ==
  LET Item(i) == WithId(T(2 + i), ToString(i))
      List == [WithId(NewScrollView(<<NewVStack([i \in 1 .. 4 |-> Item(i)])>>), "list") EXCEPT !.height = Fixed(3)]
      Shown(head) == Plain(Tag("vstack", NoProps, head \o <<Tag("box", ("border" :> Word("normal")) @@ ("margin-left" :> IntValue(1)),
                                                              <<Tag("slot", "name" :> Word("list"), <<>>)>>)>>))
  IN  PageOf({Shown(<<>>), Shown(<<TextTag("text", "id" :> Word("head"), <<3>>)>>)}, "list" :> List, {})
\* A table wider and higher than its view, between a divider and a flexible space.
TablePage ==
  LET Sheet == [NewScrollView(<<NewHStack(<<T(1), NewVStack(<<T(1), T(3), WithId(T(2), "cell")>>)>>)>>) EXCEPT !.horizontal = TRUE]
      Grow(n, kid) == Tag("flex", "grow" :> IntValue(n), <<kid>>)
  IN  PageOf({Plain(Tag("vstack", "spacing" :> IntValue(1),
                        <<Tag("divider", NoProps, <<>>), Grow(2, Tag("slot", "name" :> Word("table"), <<>>)), Grow(1, Line(2))>>)),
              Plain(Tag("hstack", NoProps,
                        <<Grow(3, Tag("slot", "name" :> Word("table"), <<>>)), Tag("divider", "vertical" :> Word("true"), <<>>),
                          Tag("spacer", NoProps, <<>>), Tag("progressview", "width" :> IntValue(2), <<>>)>>))},
             "table" :> Sheet, {})
\* Layers: a page, a dialog in the middle, a badge in the corner.
LayerPage ==
  LET Dialog == PanelWithMargin(NewVStack(<<T(2), WithId(NewButton(<<1>>), "yes")>>), "double", 0, 1)
      Corner == Tag("positioned", ("right" :> IntValue(0)) @@ ("bottom" :> IntValue(4)), <<Tag("badge", "text" :> LinesValue(<<1>>), <<>>)>>)
      Wrapped == TextTag("text", ("wrap" :> Word("yes")) @@ ("id" :> Word("page")), <<9>>)
  IN  PageOf({Plain(Tag("zstack", "width" :> PercentSign(100), <<Wrapped, Tag("slot", "name" :> Word("dialog"), <<>>), Corner>>)),
              Plain(Tag("zstack", "alignment" :> Word("trailing"), <<Wrapped, Tag("slot", "name" :> Word("dialog"), <<>>)>>))},
             "dialog" :> Dialog, {})
\* What helpers and markup build.
SamePage ==
  PageOf({Plain(Line(2))}, <<>>,
    {<<Plain(Tag("box", ("border" :> Word("thick")) @@ ("padding" :> IntValue(1)) @@ ("margin" :> IntValue(2)), <<Line(3)>>)),
       PanelWithMargin(T(3), "thick", 1, 2)>>,
     <<Plain(Tag("box", ("border" :> Word("rounded")) @@ ("padding" :> IntValue(1)),
                 <<Tag("vstack", NoProps, <<Line(5), Tag("divider", NoProps, <<>>), Tag("vstack", NoProps, <<Line(1), Line(2)>>)>>)>>)),
       Card(<<5>>, <<T(1), T(2)>>)>>,
     <<Document("spaced", Tag("vstack", NoProps, <<Line(5), Line(1)>>)), Section(<<5>>, <<T(1)>>)>>,
     <<Document("bare", Tag("root", NoProps, <<Tag("vstack", NoProps, <<Line(1), Tag("divider", NoProps, <<>>), Line(2)>>)>>)),
       Separated(<<T(1), T(2)>>)>>,
     <<Plain(Tag("flex", "grow" :> IntValue(2), <<Line(1)>>)), FlexGrow(T(1), 2)>>,
     <<Plain(Tag("zstack", NoProps, <<Line(1)>>)), NewZStack(<<T(1)>>)>>,
     <<Plain(Tag("positioned", ("right" :> IntValue(1)) @@ ("y" :> IntValue(2)), <<Line(1)>>)), PositionRight(T(1), 1, 2)>>,
     <<Plain(Tag("positioned", ("bottom" :> IntValue(1)) @@ ("x" :> IntValue(2)), <<Line(1)>>)), PositionBottom(T(1), 2, 1)>>,
     <<Plain(Tag("positioned", ("right" :> IntValue(0)) @@ ("bottom" :> IntValue(1)), <<Line(1)>>)), PositionCorner(T(1), 0, 1)>>,
     <<Plain(Tag("spacer", "size" :> IntValue(3), <<>>)), NewFixedSpacer(3)>>,
     <<Plain(Tag("scrollview", ("height" :> IntValue(4)) @@ ("offset-y" :> IntValue(2)), <<Line(1)>>)),
       [NewScrollView(<<T(1)>>) EXCEPT !.height = Fixed(4), !.offsetY = 2]>>})
AllPages == {FormPage, ListPage, TablePage, LayerPage, SamePage}
AllWindows == {Extents(5, 4), Extents(8, 9), Extents(11, 12)}
=============================================================================
