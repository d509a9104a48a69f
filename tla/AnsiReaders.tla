---------------------------- MODULE AnsiReaders -----------------------------
(***************************************************************************)
(* A program that reads escape sequences, in one of two ways.  "stream":   *)
(* every byte that arrives goes through Parser.Advance, as the terminal    *)
(* emulator reads its input.  "decode": bytes arrive in chunks and         *)
(* DecodeSequence is called on what has arrived until nothing is left, its *)
(* state and its parser handed from call to call, as its documentation     *)
(* shows.  The bytes are any bytes of an alphabet.                         *)
(***************************************************************************)
EXTENDS AnsiParser

-----------------------------------------------------------------------------
(***************************************************************************)
(* DecodeSequence (ansi/parser_decode.go) with the parser it leaves its    *)
(* results in.  A call runs over the rest of the text until a sequence     *)
(* ends, and returns the bytes it took and the state to pass to the next   *)
(* call; the width of printed text is left out.                            *)
(***************************************************************************)

DecodeStates == {"Normal", "Prefix", "Params", "Intermed", "EscapeSeq", "String"}

\* One byte either goes on in a state or ends the sequence after n bytes.
Continue(st, p) == [over |-> FALSE, n |-> 0, state |-> st, p |-> p]
Over(n, p) == [over |-> TRUE, n |-> n, state |-> "Normal", p |-> p]
\* p.params is indexed past its end.
Panic(p) == [over |-> TRUE, n |-> 0, state |-> "Panic", p |-> p]

HasOscPrefix(b) == b[1] = C1Osc \/ IsPrefix(<<Esc, 93>>, b)
HasDcsPrefix(b) == b[1] = C1Dcs \/ IsPrefix(<<Esc, 80>>, b)
HasStPrefix(b, i) == b[i] = C1St \/ (i < Len(b) /\ b[i] = Esc /\ b[i + 1] = 92)

\* The first cluster of text: one rune, or one byte of an invalid one.
Cluster(b) ==
  LET k == Utf8Len(b[1])
  IN IF k <= Len(b) /\ \A j \in 2..k: b[j] \in 128..191 THEN k ELSE 1

KeepCount(p) == [p EXCEPT !.params[1] = Missing, !.cmd = 0, !.data = <<>>]   \* A slip: no reset of n.
Reset(p) == [p EXCEPT !.params[1] = Missing, !.cmd = 0, !.n = 0, !.data = <<>>]
StartString(p) == [p EXCEPT !.cmd = MissingCommand, !.data = <<>>]

Normal(b, c, p) ==
  CASE c = Esc -> Continue("EscapeSeq", Reset(p))
    [] c \in {C1Csi, C1Dcs} -> Continue("Prefix", Reset(p))
    [] c \in {C1Osc, C1Apc, C1Sos, C1Pm} -> Continue("String", StartString(p))
    [] OTHER -> Over(IF c < 192 THEN 1 ELSE Cluster(b),
                     [p EXCEPT !.data = <<>>, !.n = 0, !.cmd = 0])

Final(b, i, p) ==
  LET q == LastParam(p)
      r == [q EXCEPT !.cmd = WithByte(@, 0, b[i])]
  IN CASE b[i] \notin Finals -> Over(i - 1, q)
       [] b[i] \in Finals /\ HasDcsPrefix(b) -> Continue("String", [r EXCEPT !.data = <<>>])
       [] OTHER -> Over(i, r)

Intermed(b, i, p) ==
  IF b[i] \in Intermediates THEN Continue("Intermed", [p EXCEPT !.cmd = WithByte(@, 2, b[i])])
                            ELSE Final(b, i, p)

\* Only the buffer's length, known to the slice alone, bounds the parameters.
Separator(p, c) ==
  CASE p.n < ParamsSize -> Continue("Params", CloseParam(p, c))
    [] p.n >= ParamsSize /\ c = 59 -> Continue("Params", [p EXCEPT !.n = @ + 1])
    [] p.n >= ParamsSize /\ c # 59 -> Panic(p)

ParamsOf(b, i, p) ==
  CASE b[i] \in 48..57 -> IF p.n < ParamsSize THEN Continue("Params", AddDigit(p, b[i])) ELSE Panic(p)
    [] b[i] \in {58, 59} -> Separator(p, b[i])
    [] OTHER -> Intermed(b, i, p)

PrefixOf(b, i, p) ==
  IF b[i] \in 60..63 THEN Continue("Prefix", [p EXCEPT !.cmd = WithByte(@, 1, b[i])])
                     ELSE ParamsOf(b, i, p)

EscapeSeq(b, i, p) ==
  CASE b[i] \in {91, 80} -> Continue("Prefix", [p EXCEPT !.params[1] = Missing, !.n = 0, !.cmd = 0])
    [] b[i] \in {93, 88, 94, 95} -> Continue("String", StartString(p))
    [] b[i] \in Intermediates -> Continue("EscapeSeq", [p EXCEPT !.cmd = WithByte(@, 2, b[i])])
    [] b[i] \in (48..126) \ {91, 80, 93, 88, 94, 95} -> Over(i, [p EXCEPT !.cmd = WithByte(@, 0, b[i])])
    [] OTHER -> Over(i - 1, p)

OscCmd(b, p) == IF HasOscPrefix(b) THEN ParseStringCmd(p) ELSE p

StringByte(b, p, c) ==
  LET q == PutByte(p, c) IN IF c = 59 /\ Len(p.data) < DataSize THEN OscCmd(b, q) ELSE q

StayCancelled(b, i, p) ==                  \* A slip: a cancelled string is not left.
  IF b[i] \in {Can, Sub} THEN [Over(i - 1, p) EXCEPT !.state = "String"]
                         ELSE Continue("String", PutByte(p, b[i]))
StringOf(b, i, p) ==
  CASE b[i] = Bel /\ HasOscPrefix(b) -> Over(i, OscCmd(b, p))
    [] b[i] \in {Can, Sub} -> Over(i - 1, OscCmd(b, p))
    [] b[i] = C1St -> Over(i, OscCmd(b, p))
    [] b[i] = Esc /\ HasStPrefix(b, i) -> Over(i + 1, OscCmd(b, p))
    [] b[i] = Esc /\ ~HasStPrefix(b, i) -> Over(i - 1, p)
    [] OTHER -> Continue("String", StringByte(b, p, b[i]))

OneByte(b, i, st, p) ==
  CASE st = "Normal" -> Normal(b, b[i], p)
    [] st = "Prefix" -> PrefixOf(b, i, p)
    [] st = "Params" -> ParamsOf(b, i, p)
    [] st = "Intermed" -> Intermed(b, i, p)
    [] st = "EscapeSeq" -> EscapeSeq(b, i, p)
    [] st = "String" -> StringOf(b, i, p)

\* What the bytes up to the i-th do; the first that ends the sequence is the last.
DecodeSequence(b, st, p) ==
  LET after[i \in 0..Len(b)] ==
        IF i = 0 THEN Continue(st, p)
        ELSE LET r == after[i - 1] IN IF r.over THEN r ELSE OneByte(b, i, r.state, r.p)
      end == after[Len(b)]
  IN IF end.over THEN end ELSE [over |-> TRUE, n |-> Len(b), state |-> end.state, p |-> end.p]

-----------------------------------------------------------------------------
CONSTANTS Alphabets,     \* sets of bytes, one of which the program receives
          Samples,       \* well-formed sequences
          MaxParam,      \* bound: of a parameter that gets another digit
          MaxBytes       \* bound: the bytes DecodeSequence gets, in all chunks

ASSUME ReadersAssumption == /\ Alphabets \subseteq SUBSET (0..255)
                            /\ MaxParam \in Nat
                            /\ MaxBytes \in Nat

VARIABLES reading,       \* "stream" or "decode"
          alphabet,      \* the bytes that arrive
          p,             \* the parser
          fresh,         \* a new parser, given what p got from the last ESC on
          text,          \* what has arrived and DecodeSequence has not taken
          came,          \* the bytes that have arrived for it
          ds             \* DecodeSequence's state

readerVars == <<reading, alphabet, p, fresh, text, came, ds>>

\* Bound: a parameter that is large gets no further digit.
Short(b) == \/ b \notin 48..57
            \/ \A i \in 1..ParamsSize: p.params[i].v < MaxParam

\* An ESC starts a sequence in every state but two: a rune that waits for more
\* bytes swallows it, and a device control string that has said nothing yet
\* takes it as its data (the table's provision for passing sequences through).
Restarts(b) == b = Esc /\ p.state \notin {"Utf8", "DcsEntry"}

Silent(q) == [q EXCEPT !.out = <<>>]

ReadersInit ==
  /\ reading \in {"stream", "decode"}
  /\ alphabet \in Alphabets
  /\ p = NewParser
  /\ fresh = NewParser
  /\ text = <<>>
  /\ came = 0
  /\ ds = "Normal"

\* Parser.Advance of one byte.
Receive(b) ==
  /\ reading = "stream"
  /\ Short(b)
  /\ p' = Silent(Advance(p, b))
  /\ fresh' = Silent(Advance(IF Restarts(b) THEN NewParser ELSE fresh, b))
  /\ UNCHANGED <<reading, alphabet, text, came, ds>>

\* One more byte of the chunk the next call gets.
Arrive(b) ==
  /\ reading = "decode"
  /\ came < MaxBytes
  /\ came' = came + 1
  /\ text' = Append(text, b)
  /\ UNCHANGED <<reading, alphabet, p, fresh, ds>>

\* One call of DecodeSequence; a call that panics ends the program.
Decode ==
  /\ reading = "decode"
  /\ text # <<>>
  /\ ds # "Panic"
  /\ LET d == DecodeSequence(text, ds, p)
     IN /\ text' = SubSeq(text, d.n + 1, Len(text))
        /\ ds' = d.state
        /\ p' = d.p
  /\ UNCHANGED <<reading, alphabet, fresh, came>>

ReadersNext ==
  \/ \E b \in alphabet: Receive(b) \/ Arrive(b)
  \/ Decode

ReadersSpec == ReadersInit /\ [][ReadersNext]_readerVars

-----------------------------------------------------------------------------
\* The buffers are never overrun: the parser counts no more parameters than
\* it holds, or the bytes of a rune; DecodeSequence counts on, one for a byte.
ReadersTypeOK ==
  /\ p.state \in States
  /\ p.n \in Nat
  /\ reading = "stream" => p.n <= IF p.state = "Utf8" THEN 4 ELSE ParamsSize
  /\ reading = "decode" => p.n <= ParamsSize + MaxBytes
  /\ Len(p.data) <= DataSize
  /\ p.cmd \in Nat
  /\ ds \in DecodeStates \cup {"Panic"}

\* Whatever was received before an ESC, and wherever that was cut off, what
\* follows it is read as a new parser reads it: the same bytes call the same
\* handlers with the same commands, parameters and data.
ReadsAfresh ==
  reading = "stream"
    => \A b \in alphabet: /\ Advance(p, b).out = Advance(fresh, b).out
                          /\ Advance(p, b).state = Advance(fresh, b).state

\* Nothing interrupts a sequence before its last byte.  (A control character,
\* or the start of another sequence, inside one is an event for Advance; the
\* decoder ends the sequence before it.)
Uninterrupted(s) ==
  \A i \in 2..Len(s): \/ s[i] \in (32..126) \cup (160..255)
                      \/ i = Len(s) /\ s[i] \in {Bel, C1St}

\* A text that is one sequence for Parser.Advance: its last byte dispatches
\* it, or the ESC of the string terminator that follows does.
IsOneSequence(s) ==
  LET f == Feed(NewParser, s)
      body == IF IsSuffix(<<Esc, 92>>, s) /\ Len(f.out) = 2 THEN Front(Front(s)) ELSE s
  IN /\ f.state = "Ground" /\ f.out # <<>>
     /\ f.out[1][1] \notin {"Execute", "Print", "print"}
     /\ Feed(NewParser, IF body = s THEN Front(s) ELSE body).out = <<>>
     /\ Uninterrupted(body)

\* What the two read differently by themselves.
ReadApart(s) ==
  \* the decoder forgets the intermediate byte of an escape sequence
  \/ \E i \in 2..Len(s) - 1: s[i] \in Intermediates /\ s[i + 1] \in {80, 88, 91, 93, 94, 95}
  \* a prefix byte out of its place: Advance skips it, the decoder ends there or keeps the last
  \/ \E i \in 3..Len(s): s[i] \in PrefixBytes /\ s[i - 1] \in ParamBytes \cup PrefixBytes

\* What the decoder leaves in its parser, in the form of the handler's event.
Left(e, q) ==
  CASE e[1] = "csi" -> <<"csi", q.cmd, Params(q)>>
    [] e[1] = "esc" -> <<"esc", q.cmd>>
    [] e[1] = "dcs" -> <<"dcs", q.cmd, Params(q), q.data>>
    [] e[1] = "osc" -> <<"osc", q.cmd, q.data>>
    [] e[1] \in {"SosString", "PmString", "ApcString"} -> <<e[1], q.data>>
    [] OTHER -> e

Agree(s) ==
  LET d == DecodeSequence(s, "Normal", p)
      e == Feed(NewParser, s).out[1]
  IN d.n = Len(s) /\ d.state = "Normal" /\ Left(e, d.p) = e

\* The two readers agree: a text that is one sequence for Parser.Advance is
\* one for DecodeSequence, with the same command, parameters and data, and
\* nothing of what the decoder read before shows through.
ReadersAgree ==
  (reading = "decode" /\ ds = "Normal")
    => /\ text # <<>> /\ IsOneSequence(text) /\ ~ReadApart(text) => Agree(text)
       /\ text = <<>> => \A s \in Samples: Agree(s)

\* A call takes bytes, or goes back from a sequence to plain text, of which
\* the next call takes some: a program that loops until nothing is left ends.
DecodeProgresses ==
  (reading = "decode" /\ ds # "Panic" /\ text # <<>>)
    => LET d == DecodeSequence(text, ds, p)
       IN \/ d.n > 0
          \/ ds # "Normal" /\ d.state = "Normal"
          \/ d.state = "Panic"

\* Both readers take every sequence for what it is, within their buffers, and
\* get to the end of every text (Parser.Advance and DecodeSequence).
SequencesAreRead ==
  ReadersTypeOK /\ ReadsAfresh /\ DecodeProgresses
=============================================================================
