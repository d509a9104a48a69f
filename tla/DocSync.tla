------------------------------- MODULE DocSync -------------------------------
(* A program's open documents and the server's copies of them                *)
(* (src/powernap/pkg/lsp/sync.go, TextDocumentSyncManager). The manager keeps*)
(* its own copy of every open document, applies each change to it by offsets *)
(* into the text, and notifies the server, which applies the same change by  *)
(* lines. Notifications travel in order and may still be on their way when   *)
(* the connection ends.                                                      *)
(*                                                                           *)
(* A text is a sequence of characters, one of which ends a line. Every call  *)
(* of the manager is one action: what it does to its documents, what it      *)
(* sends, and whether it returns an error.                                   *)
EXTENDS Naturals, Sequences, SequencesExt, FiniteSets

CONSTANTS
  Docs,         \* the documents' URIs
  Kinds,        \* the kinds of synchronisation servers ask for
  Letters,      \* the characters of a text, but for the end of a line
  MaxText,      \* bound: the length of a text
  MaxVersion,   \* bound: the version of a document
  MaxWire       \* bound: the notifications on their way

ASSUME BoundsAssumption ==
  {MaxText, MaxWire} \subseteq Nat /\ MaxVersion \in Nat \ {0}
ASSUME KindsAssumption == Kinds \subseteq {"None", "Full", "Incremental"}

VARIABLES
  kind,      \* syncKind
  link,      \* the client: "new", then "initialized", then "closed"
  documents, \* the manager's documents: Absent, or their version and text
  sound,     \* the documents of which no call has failed since they were opened
  ignored,   \* of these, the ones of which the manager passed on a change that it
             \* did not make itself
  wire,      \* the notifications that the server has not read
  server     \* the server's documents

vars == <<kind, link, documents, sound, ignored, wire, server>>

Newline == "\n"
Absent == [version |-> 0, text |-> <<>>]

Texts == BoundedSeq(Letters \cup {Newline}, MaxText)
Known(d) == documents[d] # Absent

Init ==
  /\ kind \in Kinds
  /\ link = "new"
  /\ documents = [d \in Docs |-> Absent]
  /\ sound = {} /\ ignored = {}
  /\ wire = <<>>
  /\ server = [d \in Docs |-> Absent]

----------------------------------------------------------------------------
(* Positions *)

\* strings.Split(text, "\n"), as the offsets at which the lines begin.
Breaks(text) == {i \in DOMAIN text : text[i] = Newline}
LineCount(text) == Cardinality(Breaks(text)) + 1
LineStart(text, line) ==
  IF line = 0 THEN 0
  ELSE CHOOSE i \in Breaks(text) : Cardinality({j \in Breaks(text) : j <= i}) = line
LineLength(text, line) ==
  (IF line + 1 = LineCount(text) THEN Len(text) ELSE LineStart(text, line + 1) - 1)
    - LineStart(text, line)

\* A slip: the ends of the lines before are not counted.
OffsetWithoutBreaks(text, p) == LineStart(text, p.line) - p.line + p.character

\* The offset of a position: the lines before it, their ends, the character.
Offset(text, p) == LineStart(text, p.line) + p.character

Before(p, q) == p.line < q.line \/ (p.line = q.line /\ p.character <= q.character)

\* The positions of a text, and those of a line just past its end.
Positions(text) ==
  {p \in [line : 0 .. LineCount(text), character : 0 .. MaxText] :
     p.line < LineCount(text) => p.character <= LineLength(text, p.line)}

----------------------------------------------------------------------------
(* Changes *)

\* A change event is one of two forms: a whole document, which is what
\* CreateFullDocumentChange makes, or a partial one, of a range or of none. What is
\* sent of a partial event without a range is what is sent of a whole document.
Whole(text) == [form |-> "whole", range |-> <<>>, text |-> text]
Replacing(text) == [form |-> "partial", range |-> <<>>, text |-> text]
Part(from, to, text) == [form |-> "partial", range |-> <<from, to>>, text |-> text]

\* The changes a program makes to a text of its own: in order, within lines, and
\* now and then in a line that is not there.
Pieces == BoundedSeq(Letters \cup {Newline}, 1)
Edits(text) ==
  {Part(p, q, t) : p \in Positions(text), q \in Positions(text), t \in Pieces}
Inserts(text) == {Part(p, p, t) : p \in Positions(text), t \in Pieces \ {<<>>}}
Ordered(e) == Before(e.range[1], e.range[2])

\* applyIncrementalChange refuses lines that do not exist.
InRange(e, text) ==
  e.range # <<>> =>
    e.range[1].line < LineCount(text) /\ e.range[2].line < LineCount(text)

\* applyFullDocumentChange of the first change alone, and of no partial one.
Replaced(text, changes) ==
  IF changes # <<>> /\ changes[1].form = "whole" THEN changes[1].text ELSE text

\* applyIncrementalChange does nothing for a whole document; otherwise
\* doc.Content[:startPos] + text + doc.Content[endPos:]
Spliced(text, e) ==
  IF e.form = "whole" THEN text
  ELSE IF e.range = <<>> THEN e.text
  ELSE SubSeq(text, 1, Offset(text, e.range[1])) \o e.text
         \o SubSeq(text, Offset(text, e.range[2]) + 1, Len(text))

\* The changes of one call: the first that is refused ends it, and what was
\* applied before stays applied.
AppliedInTurn(text, edits) ==
  LET done[n \in 0 .. Len(edits)] ==
        IF n = 0 THEN [ok |-> TRUE, text |-> text]
        ELSE IF done[n - 1].ok /\ InRange(edits[n], done[n - 1].text)
        THEN [ok |-> TRUE, text |-> Spliced(done[n - 1].text, edits[n])]
        ELSE [ok |-> FALSE, text |-> done[n - 1].text]
  IN  done[Len(edits)]

\* What a server makes of a change, by the protocol: a text without a range is
\* all that it has then; of another it keeps the lines before
\* and after the range and what stands before and after it in its first and in
\* its last line. A position that its text does not have is an error to it.
Line(text, n) ==
  SubSeq(text, LineStart(text, n) + 1, LineStart(text, n) + LineLength(text, n))
Lines(text, a, b) ==
  LET first[n \in 0 .. (b - a)] ==
        IF n = 0 THEN <<>> ELSE first[n - 1] \o Line(text, a + n - 1) \o <<Newline>>
  IN  first[b - a]
HasRange(e, text) ==
  /\ InRange(e, text)
  /\ \A i \in DOMAIN e.range : e.range[i].character <= LineLength(text, e.range[i].line)

Edited(text, e) ==
  IF e.range = <<>> THEN e.text
  ELSE IF ~HasRange(e, text) THEN text
  ELSE LET p == e.range[1]
           q == e.range[2]
           last == LineCount(text) - 1
           rest == SubSeq(Line(text, q.line), q.character + 1, LineLength(text, q.line))
       IN  Lines(text, 0, p.line) \o SubSeq(Line(text, p.line), 1, p.character) \o e.text
             \o rest
             \o (IF q.line = last THEN <<>>
                 ELSE <<Newline>> \o Lines(text, q.line + 1, last) \o Line(text, last))

\* The changes of one notification, one after another.
EditedInTurn(text, edits) ==
  LET after[n \in 0 .. Len(edits)] ==
        IF n = 0 THEN text ELSE Edited(after[n - 1], edits[n])
  IN  after[Len(edits)]

----------------------------------------------------------------------------
(* The manager *)

\* The manager makes the changes that it passes on: for a server of kind Full one
\* whole document (or none), for an Incremental one any partial events.
MakesAll(changes) ==
  CASE kind = "Full" -> changes = <<>> \/ (Len(changes) = 1 /\ changes[1].form = "whole")
    [] OTHER -> \A i \in DOMAIN changes : changes[i].form = "partial"

\* A change that is only passed on leaves the two texts apart, until both sides
\* take a whole one.
Passed(d, changes) ==
  ignored' = IF ~MakesAll(changes) THEN ignored \cup {d}
             ELSE IF kind = "Full" /\ changes # <<>> THEN ignored \ {d} ELSE ignored

\* The notification is sent, or the call returns an error; sends that need the
\* client to be initialized say so.
Sent(m, ready) ==
  IF link = "closed" \/ (ready /\ link # "initialized")
  THEN UNCHANGED wire /\ sound' = sound \ {m.doc}
  ELSE /\ Len(wire) < MaxWire
       /\ wire' = Append(wire, m)
       /\ sound' = IF m.op = "open" THEN sound \cup {m.doc} ELSE sound

\* A slip: the client need not be initialized.
OpenUnready(d, text) ==
  /\ ~Known(d)
  /\ documents' = [documents EXCEPT ![d] = [version |-> 1, text |-> text]]
  /\ Sent([op |-> "open", doc |-> d, version |-> 1, text |-> text], FALSE)
  /\ ignored' = ignored \ {d}
  /\ UNCHANGED <<kind, link, server>>

\* Open stores the document first and then notifies the server.
Open(d, text) ==
  /\ ~Known(d)
  /\ documents' = [documents EXCEPT ![d] = [version |-> 1, text |-> text]]
  /\ Sent([op |-> "open", doc |-> d, version |-> 1, text |-> text], TRUE)
  /\ ignored' = ignored \ {d}
  /\ UNCHANGED <<kind, link, server>>

\* A slip: a new text has no new version.
ApplyUnversioned(d, text, edits) ==
  /\ documents' = [documents EXCEPT ![d].text = text]
  /\ Sent([op |-> "change", doc |-> d, version |-> documents[d].version,
           edits |-> edits], TRUE)

\* The new text and version are kept, and the server is told of all changes.
Apply(d, text, edits) ==
  /\ documents' = [documents EXCEPT ![d] = [version |-> @.version + 1, text |-> text]]
  /\ Sent([op |-> "change", doc |-> d, version |-> documents[d].version + 1,
           edits |-> edits], TRUE)

\* Change: a server of kind None is told nothing, and the document is not
\* changed; for Full the manager makes the first change, for Incremental all of
\* them, in turn. Either server is sent all of them.
ChangeNothing(d) ==
  /\ Known(d) /\ kind = "None"
  /\ UNCHANGED vars

ChangeWhole(d, changes) ==
  /\ Known(d) /\ kind = "Full" /\ documents[d].version < MaxVersion
  /\ Apply(d, Replaced(documents[d].text, changes), changes)
  /\ Passed(d, changes)
  /\ UNCHANGED <<kind, link, server>>

ChangeParts(d, edits) ==
  LET after == AppliedInTurn(documents[d].text, edits)
  IN  /\ Known(d) /\ kind = "Incremental" /\ documents[d].version < MaxVersion
      /\ Len(after.text) <= MaxText
      /\ IF after.ok THEN Apply(d, after.text, edits) /\ Passed(d, edits)
         ELSE /\ documents' = [documents EXCEPT ![d].text = after.text]
              /\ sound' = sound \ {d}
              /\ UNCHANGED <<ignored, wire>>
      /\ UNCHANGED <<kind, link, server>>

\* A slip: the server is not told of a document that is closed.
CloseSilently(d) ==
  /\ Known(d)
  /\ documents' = [documents EXCEPT ![d] = Absent]
  /\ sound' = sound \ {d}
  /\ UNCHANGED <<kind, link, ignored, wire, server>>

\* Close forgets the document and then notifies the server.
Close(d) ==
  /\ Known(d)
  /\ documents' = [documents EXCEPT ![d] = Absent]
  /\ IF link = "closed" THEN UNCHANGED wire
     ELSE Len(wire) < MaxWire /\ wire' = Append(wire, [op |-> "close", doc |-> d])
  /\ sound' = sound \ {d}
  /\ UNCHANGED <<kind, link, ignored, server>>

Save(d) ==
  /\ Known(d)
  /\ Sent([op |-> "save", doc |-> d, text |-> documents[d].text], FALSE)
  /\ UNCHANGED <<kind, link, documents, ignored, server>>

----------------------------------------------------------------------------
(* The client and the server *)

Initialize ==
  /\ link = "new" /\ link' = "initialized"
  /\ UNCHANGED <<kind, documents, sound, ignored, wire, server>>

\* The connection ends, with what was on its way.
Lose ==
  /\ link' = "closed" /\ wire' = <<>>
  /\ UNCHANGED <<kind, documents, sound, ignored, server>>

\* The server reads a notification; one about a document that it does not have
\* is ignored.
Read ==
  /\ wire # <<>>
  /\ wire' = Tail(wire)
  /\ LET m == Head(wire)
         d == m.doc
     IN  server' = CASE m.op = "open" ->
                          [server EXCEPT ![d] = [version |-> m.version, text |-> m.text]]
                     [] m.op = "change" /\ server[d] # Absent ->
                          [server EXCEPT ![d] =
                             [version |-> m.version, text |-> EditedInTurn(@.text, m.edits)]]
                     [] m.op = "close" -> [server EXCEPT ![d] = Absent]
                     [] OTHER -> server
  /\ UNCHANGED <<kind, link, documents, sound, ignored>>

\* What programs pass to Change for a server of kind Full: a whole document, as
\* they should, or nothing, an event of the other form, a second event.
Origin == [line |-> 0, character |-> 0]
Replacements ==
  {<<>>, <<Replacing(<<>>)>>} \cup {<<Whole(t)>> : t \in Texts}
    \cup {<<Part(Origin, Origin, t)>> : t \in Pieces}
    \cup {<<Whole(t), Whole(<<>>)>> : t \in Texts}

\* And for an Incremental one: one change of a range, or two of which the second
\* inserts something into the result of the first; a whole text, in either form,
\* alone or after a change of a range.
Batches(text) ==
  LET ones == {e \in Edits(text) : Ordered(e)}
      Result(e) == IF InRange(e, text) THEN Spliced(text, e) ELSE text
  IN  {<<>>, <<Replacing(<<>>)>>, <<Whole(<<>>)>>} \cup {<<e>> : e \in ones} \cup
      {<<e, Whole(<<>>)>> : e \in Inserts(text)} \cup
      UNION {{<<e, f>> : f \in Inserts(Result(e))} :
               e \in {e \in ones : e.range[1] # e.range[2] /\ e.text = <<>>}}

Next ==
  \/ \E d \in Docs :
       \/ \E t \in Texts : Open(d, t)
       \/ ChangeNothing(d)
       \/ \E c \in Replacements : ChangeWhole(d, c)
       \/ kind = "Incremental" /\ \E b \in Batches(documents[d].text) : ChangeParts(d, b)
       \/ Close(d) \/ Save(d)
  \/ Initialize \/ Lose \/ Read

Spec == Init /\ [][Next]_vars

----------------------------------------------------------------------------
(* Properties *)

\* The states are well typed; a document that is sound is open.
TypeOK ==
  /\ kind \in Kinds /\ link \in {"new", "initialized", "closed"}
  /\ \A d \in Docs :
       /\ documents[d].version \in 0 .. MaxVersion /\ server[d].version \in 0 .. MaxVersion
       /\ documents[d].text \in Texts
       /\ server[d].text \in Seq(Letters \cup {Newline})
       /\ d \in sound => Known(d)
  /\ ignored \subseteq Docs /\ Len(wire) <= MaxWire
  /\ link = "new" => \A i \in DOMAIN wire : wire[i].op \in {"close", "save"}

\* A server that has read all it was sent has the version that the manager has of
\* every document of which no call has returned an error, and it has its text
\* unless the manager passed on a change that it did not make: the splicing by
\* offsets and the protocol's editing by lines come to the same
\* (applyFullDocumentChange, applyIncrementalChange, Change, Open, Close).
InStep ==
  wire = <<>> /\ link # "closed" =>
    \A d \in sound :
      /\ server[d].version = documents[d].version
      /\ d \notin ignored => server[d].text = documents[d].text

\* What is to be read of d after the i-th notification says that it is closed.
ClosedAfter(d, i) == \E j \in DOMAIN wire : j > i /\ wire[j].op = "close" /\ wire[j].doc = d

\* No document is opened that the server has open, and every change is of a
\* document it has, unless a call had failed since this document was opened
\* (Open, Change, Close).
OpenedOnce ==
  wire # <<>> =>
    LET m == Head(wire)
    IN  /\ m.op = "open" => server[m.doc] = Absent
        /\ m.op = "change" /\ m.doc \in sound /\ ~ClosedAfter(m.doc, 1)
             => server[m.doc] # Absent

\* The versions that the server sees of an open document increase with every
\* change of it.
VersionsRise ==
  [][\A d \in Docs :
       server[d] # Absent /\ server'[d] # Absent /\ server'[d] # server[d]
         => server'[d].version > server[d].version]_vars
=============================================================================
