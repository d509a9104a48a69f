-------------------------------- MODULE Pen ---------------------------------
(***************************************************************************)
(* A writer that goes from style to style, each written as the difference  *)
(* from the one before, and a reader of what it writes                     *)
(* (cellbuf/screen.go updatePen, cellbuf/writer.go RenderLine; the reader  *)
(* is ReadStyle).                                                          *)
(***************************************************************************)
EXTENDS Styles

CONSTANTS StyleSet,     \* the styles the writer uses
          AllSwitches   \* bound: FALSE leaves out the switches Entangled

VARIABLES at,           \* the style the writer has asked for
          pen           \* the style the reader has arrived at

penVars == <<at, pen>>

PenInit == at = EmptyStyle /\ pen = EmptyStyle

\* Of a pair one code turns off together, one goes and the other is on
\* afterwards: it was on already, or its own code comes first.
Entangled(s, o) ==
  \E p \in {<<"Bold", "Faint">>, <<"SlowBlink", "RapidBlink">>}:
    \/ p[1] \in s.attrs /\ p[2] \in o.attrs \ s.attrs
    \/ p[2] \in s.attrs \cap o.attrs /\ p[1] \in o.attrs \ s.attrs

\* What updatePen writes to go from o to s: no style at all is a reset.
SwitchSequence(s, o) == IF s = EmptyStyle THEN <<>> ELSE DiffSequence(s, o)

Switch(s) ==
  /\ ~StyleEqual(s, at)
  /\ AllSwitches \/ ~Entangled(s, at)
  /\ pen' = ReadStyle(SwitchSequence(s, at), pen)
  /\ at' = s

PenNext == \E s \in StyleSet: Switch(s)

\* "DiffSequence returns the ANSI sequence that sets the style as a diff from
\* another style": after any run of switches, the reader of the sequences is
\* at the writer's style.
PenFollows == StyleEqual(pen, at)
=============================================================================
