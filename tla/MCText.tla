------------------------------- MODULE MCText -------------------------------
(***************************************************************************)
(* The programs that work on text, one at a time: a reader of escape       *)
(* sequences, a writer that goes from style to style, a text that is       *)
(* wrapped, cut and drawn.                                                 *)
(***************************************************************************)
EXTENDS AnsiReaders, Pen, Texts

VARIABLE program

vars == <<program, readerVars, penVars, textVars>>

NoReader == /\ reading = "neither" /\ alphabet = {} /\ p = NewParser /\ fresh = NewParser
            /\ text = <<>> /\ came = 0 /\ ds = "Normal"
NoText == tokens = {} /\ typed = <<>>

Init == \/ program = "reader" /\ ReadersInit /\ PenInit /\ NoText
        \/ program = "pen" /\ NoReader /\ PenInit /\ NoText
        \/ program = "text" /\ NoReader /\ PenInit /\ TextInit

Next == \/ program = "reader" /\ ReadersNext /\ UNCHANGED <<program, penVars, textVars>>
        \/ program = "pen" /\ PenNext /\ UNCHANGED <<program, readerVars, textVars>>
        \/ program = "text" /\ TextNext /\ UNCHANGED <<program, readerVars, penVars>>

Spec == Init /\ [][Next]_vars

-----------------------------------------------------------------------------
\* Bytes: one set for each kind of sequence, with a byte that ends it badly.
MCAlphabets == {{Esc, 91, 63, 49, 59, 65}, {C1Csi, 58, 49, 32, 65, 10}, {Esc, 93, 49, 59, Bel, 92},
                {Esc, 80, 49, 97, 92, Can}, {C1Dcs, 49, 97, C1St, 195}, {Esc, 88, 97, 92, 195}}

MCSamples ==
  {<<155, 59, 65>>, <<27, 91, 65>>, <<27, 91, 63, 49, 59, 50, 65>>, <<27, 91, 49, 58, 50, 109>>,
   <<27, 91, 49, 32, 65>>, <<27, 65>>, <<27, 35, 56>>, <<27, 93, 50, 59, 97, 7>>,
   <<27, 93, 50, 59, 97, 27, 92>>, <<27, 80, 49, 59, 50, 113, 97, 27, 92>>,
   <<27, 80, 113, 27, 92>>, <<27, 95, 97, 27, 92>>}

\* Styles: two attributes with an underline, or three colours of every kind.
Colors == {NoColor, Basic(1), Indexed(200), Rgb(1, 2, 3)}
Attrs == {a \in SUBSET Range(AttrOrder): Cardinality(a) <= 2}
MCStyles ==
  {[EmptyStyle EXCEPT !.attrs = a, !.ulStyle = u]: a \in Attrs, u \in {0, 1, 3}}
  \cup {[EmptyStyle EXCEPT !.fg = f, !.bg = b, !.ul = u]:
          f \in Colors \cup {Basic(9)}, b \in Colors, u \in Colors}

\* Texts: without styles, and with them.
Inverted == Sgr(Pars(<<7>>))
MCTokens == {{Ch("a"), Ch("W"), Ch("-"), Space, NL, Tab},
             {Ch("a"), Ch("W"), Space, NL, Tab, Inverted, ResetStyle, SetLink("u")}}
=============================================================================
