# Verification of charmbracelet/x

TLA+ models of this repository's core logic, TLC runs that check them on small
instances, and TLAPS proofs of what matters most for instances of any size.
The repository is a collection of Go modules for terminal programs; the models
cover the seven of them that keep state of their own: the virtual terminal
(`vt`) and the test terminal around it (`vttest`), the language-server client
(`powernap`), the screen renderer (`cellbuf`), escape sequences (`ansi`), the
input reader (`input`) and the layout language (`pony`).

## 1. Inventory

| Part | State | Operations | Interacts with |
| --- | --- | --- | --- |
| `vt` cursor, margins, modes, tab stops | two screens with cursor, saved cursor, region; pending wrap, modes, tab stops shared by both | one handler per character, control or sequence; `Resize` | `ansi` parser (calls the handlers), embedding program |
| `vt` lines and scrollback | cells of two screens, a scrollback per screen with its limit | write, insert, delete, scroll, erase, switch, reset, resize, limit | the cursor part (where), callbacks |
| `vt` `SafeEmulator` | a read-write mutex, the `closed` flag, an unbuffered input pipe | every method of `Emulator`, wrapped or promoted; `Read` | any goroutines |
| `vt` commands, reports, keys, mouse | modes, titles, colours, character sets | handlers; `SendKey`, `SendMouse`, `Paste`, `Focus`, `Resize` | programs that read with `input` |
| `vttest` | `Terminal.mu`, copies of modes, title, cursor; a PTY | `Snapshot`, `Resize`, `SendText`, `SendKey`, `Paste`, `Close`; callbacks; two copying goroutines | `SafeEmulator`, the program on the PTY |
| `powernap` registry, client, transport | clients by name; process, connection, handlers by method | start, stop, restart, get; initialize, request, shutdown, exit, kill, close; route | language-server processes |
| `powernap` document sync | open documents, their texts and versions | open, change, save, close | client, server's copies |
| `cellbuf` screen | displayed and wanted buffer, cursor, pen, lines to insert, modes | draw, render, scroll, resize, redraw, switch, insert above, close | a real terminal |
| `cellbuf` buffers, styles, wrapping | cells | line and cell operations, styles and their differences, wrapping | `ansi` |
| `ansi` parser, decoder | state, parameters, data, limits | read one byte; read a chunk | handlers of `vt`, `input`, `cellbuf` |
| `ansi` text and sequences | - | wrap, truncate, cut, width; write one sequence | - |
| `input` reader | bytes not yet parsed, paste buffer; surrogate and sequence buffers of a console | read, parse | a terminal or a Windows console |
| `pony` | scroll offsets, computed bounds, slots | layout, draw, scroll, hit test; markup | Bubble Tea |
| `exp/teatest` | program, output, done flag | wait, final output, quit | Bubble Tea |
| `xpty`, `conpty` | process, pipes | start, wait, close, resize | the system |
| `gitignore`, `vcr`, `etag`, `json`, `sshkey`, `editor`, `errors`, `colors`, `term`, `termios`, `wcwidth`, `mosaic`, `exp/*` | little or none | single functions | - |

What is hard here, and what makes each part correct:

- **cursor**: absolute and region-relative coordinates, two screens, a pending
  wrap that is neither; margins are bounded on one side only. Correct when the
  cursor is always on the screen, cannot drift out of its region, and no
  character overwrites its predecessor.
- **lines**: a line that scrolls off is copied by one object and removed by
  another. Correct when no line is lost, doubled or reordered, and the
  scrollback is a bounded log.
- **`SafeEmulator`**: calls hold the lock while they write to a pipe without a
  buffer, and some methods bypass the lock. Correct when nobody works on state
  another is changing, a paste stays in one piece, and calls return.
- **`vttest`**: two locks, taken in both orders. Correct when calls return and
  a snapshot shows one moment.
- **`powernap` registry**: processes that crash or never answer while the
  registry's lock is held, and an operation in two halves (`RestartServer`).
  Correct when every server that works is the one in the registry under its name,
  nobody is given a server that is not ready, and calls return.
- **`powernap` documents**: the same change applied in two ways, over a
  connection that may end at any moment. Correct when the copies agree.
- **`cellbuf`**: what it believes the terminal shows must be what it shows.
- **`ansi`, `input`**: two readers of the same sequences, input that arrives in
  pieces, limits. Correct when what is written is read back as what was meant.
- **`pony`**: bounds kept from one frame to the next. Correct when a click finds
  the element that is seen, and an element is drawn whole where there is room.

`PROJECT.json` lists the places where this bites, each with the properties that
would catch it going wrong, or with the reason why none does: some of these places
the code gets wrong, and the properties say what they leave out.

## 2. Modules

| Module | Models | Source |
| --- | --- | --- |
| `Geometry` | positions, rectangles, `ordered.Clamp` | `ultraviolet` (external), `src/exp/ordered` |
| `VtCursor` | cursor, margins, modes, tab stops, screens, resizing | `src/vt/{handlers,screen,cc,csi_cursor,csi_mode,csi_screen,utf8,esc,emulator}.go` |
| `VtHistory` | cells, line operations, scrollback | `src/vt/{screen,scrollback,handlers,cc,csi_mode,esc}.go` |
| `ScrollLog` | abstract: a bounded log | what `src/vt/scrollback.go` promises |
| `RWMutex` | Go's read-write mutex, as operators on a record | `sync` (external) |
| `SafeEmulator` | the lock, calls, pipe, `Close`, reader | `src/vt/{safe_emulator,emulator,mouse,callbacks}.go` |
| `VtTest` | `EXTENDS SafeEmulator`: the terminal around it | `src/vttest/vttest.go` |
| `LspRegistry` | registry, clients, connections, router, processes | `src/powernap/pkg/{registry,lsp,transport}` |
| `DocSync` | the manager's documents and the server's | `src/powernap/pkg/lsp/sync.go` |
| `CellBuffer`, `CellScreen`, `CellTransform`, `CellRender` | buffers; moving, putting, erasing; a line into another; a program and its screen | `src/cellbuf/{buffer,cell,screen,hardscroll,hashmap,tabstop}.go` |
| `Terminal` | the terminal that `cellbuf` draws on | external |
| `AnsiParser`, `AnsiReaders` | the parser, the decoder, and two programs that read with them | `src/ansi/{parser,parser_decode,...}.go`, `src/ansi/parser/*` |
| `Styles`, `Pen` | styles, written as differences and read back | `src/cellbuf/{cell,style,sequence,pen}.go`, `src/ansi/style.go` |
| `TextEdit`, `Texts` | wrapping, truncating, cutting, drawing, rendering | `src/ansi/{wrap,truncate,width}.go`, `src/cellbuf/{wrap,writer}.go` |
| `KeyCodes`, `InputParser`, `InputSequences`, `InputReader` | what bytes from a terminal mean | `src/input/{parse,kitty,table,key,mouse,xterm,driver,...}.go` |
| `AnsiSequences` | the sequences programs write | `src/ansi/{cursor,mode,screen,...}.go` |
| `VtCommands`, `Conversation` | what the emulator makes of them; a program, its user, and what is read | `src/vt/{handlers,csi_mode,osc,key,mouse,charset,...}.go` |
| `Console` | the records of a Windows console | `src/input/driver_windows.go` |
| `InputCases` | inputs one by one: keys of the table, Kitty keys, short strings, calls | the same |
| `PonyElements`, `Pony` | sizes, drawing and bounds, a program that renders, scrolls and clicks | `src/pony/*.go` |
| `MC*` | instances of these for TLC | - |
| `*Proofs` | the theorems about them | - |

`MCText` and `MCInput` put several programs into one specification, one of which
is chosen in the initial state: three for text (a reader, a pen, a text), four
for input (a conversation, a console, single cases, pages of `pony`).

In the modules of data (`TextEdit`, `Pen`, `InputParser`, `PonyElements` and
others) a definition commented "A slip:" is a plausible mistake in the operator
above it. It belongs to the mutants listed in `PROJECT.json`; nothing uses it.

### VtCursor

Every action is one handler run to its end; a program's bytes reach handlers one
at a time, and `Emulator.Resize` comes between any two. `cur`, `saved`, `scroll`
are functions of the screen, `active` is the `e.scr` pointer, `phantom` is
`e.atPhantom`. Operators `OnScreen`, `InRegion` and `MoveCursor` are
`Screen.setCursor` and `moveCursor`; `Index`, `CarriageReturn`, `Printed` are
the emulator's methods of these names (`handleGrapheme` for the last). Actions
have the names of the control functions. The parameters of a sequence are the
set `Params`, those of DECSTBM and DECSLRM the set `Margins`; `Groups` turns families of functions on and off, so that a run
need not pay for state it does not ask about. REP is a run of prints, BS is CUB.
Colours, charsets, titles and the contents of cells are left out.

### VtHistory

A cell holds the number of the write that filled it, so a line keeps its
identity while it moves. Each action is a handler run at a position `c` chosen
freely, since a program can always address the cursor first. Regions may end up
to `Past` rows or columns past the screen, which the handlers of DECSTBM and
DECSLRM do not look at. The buffer (a library's) then indexes rows and columns that
are not there, and the handler does not return: `RowsExist` and `ColumnsExist` are
the guards that leave such a call out. Blank cells are one
value: the code fills with the current background colour, which no property
tells apart. Scrollback lines are trimmed of blanks at their end, as `Push` does.

### SafeEmulator and VtTest

A call goes `outside` - `lock` - `body` - `effects` - `outside`. The lock is
`SafeEmulator.mu`; `RWMutex` has Go's announced writer (a waiting writer keeps
new readers out). The body decides which effects the call has: chunks for the
pipe, callbacks, the closing of the pipe. An effect is done in a step of its
own, with whatever lock the call holds, because `io.Pipe` has no buffer. A chunk
is a whole pipe write; a reader's buffer is taken to be long enough for it.
`SendKey`, `SendMouse` and `Focus` are one action, getters are `Query`, and the
setters are represented by `SetForegroundColor`. `Readers` says whether a
goroutine keeps calling `Read`: the run has behaviours of both kinds.

`VtTest` adds `Terminal.mu` and the test's goroutines: `Ask`, `TakeMutex`,
`CallEmulator` (once per cell for a snapshot), `Finish` - the body of each method
under `t.mu.Lock()`. `TellTerminal` is every callback set by `NewTerminal`: it
takes the same mutex. The cell is read while `CellAt` holds the emulator's lock,
which is kinder than the code, where the caller reads it through the returned
pointer afterwards.

### LspRegistry

Each goroutine's call is a record whose `at` says where in its method it stands:
at the registry's lock, inside, waiting for a server, leaving. A client is a
record of its process, its output, its link (the connection), its inbox (what
the server wrote and the read loop has not delivered), its read loop and the
holder of its router's lock. What moves on its own: servers answer, notify,
crash, hang up; contexts end; read loops deliver and run handlers under the
router's lock. A *world* fixes what calls rely on (servers that answer, or
contexts that end), what handlers do, how many notifications come, and what each
goroutine calls. The many request methods of the client are one, `Request`.

### DocSync

One action per call of the manager: what it does to its documents, what it puts
on the wire, whether it returns an error. `Lose` ends the connection with what was
on its way. The manager's side applies a change by offsets, the
server's side by lines; the two share only where lines begin. Which kind of change
the server asked for (`None`, `Full`, `Incremental`) is chosen at the start.
A change event is a whole document (`Whole`, what `CreateFullDocumentChange` makes)
or a partial one, with a range (`Part`) or without (`Replacing`). Under `Full` the
manager makes the first event if it is a whole document and no other; under
`Incremental` it makes the partial ones. It counts the version up and sends all
of them in either case. `ignored` is a record for the properties: the documents of which
such a change was only passed on. Positions are positions of the manager's own text,
which is all that a program can see.

### Cell family

A screen is a record of the fields of the Go structure, and every operator is a
method: it takes the record as the method finds it and returns it as the method
leaves it, with the control functions written so far in `out`. `Refresh` is
`Render` followed by `Flush`; `Terminal` then performs what came out. Where the
code picks the shortest of several sequences, so does the model, which counts
their bytes. A hash of a line is its characters. The mapping of newlines, colour
profiles and hyperlinks are left out. A call is one step; the setters
(`EnterAltScreen`, `ExitAltScreen`, `SetRelativeCursor`, `ShowCursor`, `HideCursor`)
do not take the screen's lock in the code, and are called where the program draws.
A program moves absolutely (`SetRelativeCursor`) on the alternate screen only, and
takes that back before it leaves. Excluded from the instances, because the
code gets them wrong (section 5): frames of an inline screen that are all blank
(they have a run of their own), windows that grow wider while text stands in
them, and lines ending in wide characters that shrink.

### Text family

Both readers work byte by byte, with their buffers and limits. Beside the
parser `p` runs a twin, `fresh`: a parser that was new at the last ESC and got the
same bytes from there on. `MaxBytes` bounds what the decoder reads; the parser
reads without end, where a parameter that has reached `MaxParam` gets no further
digit (the code's numbers have 31 bits and overflow). Grapheme clusters of more than
one character come from outside. A style is a record; a difference is a list of parameters
with the mark that the parser keeps for ':'. The pairs of attributes that one
parameter turns off together (`Entangled`) are left out of the switches where
`AllSwitches` is FALSE, because the code gets them wrong. In `TextEdit` a step is
a whole character, control or sequence (a token), where the code goes over bytes.
A cell of `Texts` holds a character after the control characters (a tab, say) that came
before it; those after the last character become a cell of width 0, which `Render`
leaves out. `ContentIsTruncated` and `RenderReadsBack` are stated so: a text with
control characters shows the same characters in the same cells, and keeps the
control characters themselves where each is in a cell with something to be seen.

### Input family

A conversation is a program, the emulator, a user, and the `Reader` that reads
what the emulator sends. The pipe is a queue here, whose synchronous side is
`SafeEmulator`'s subject. Reads take whole writes, one or several together; only
a pasted text is split. `owed` collects what questions and the user's doings must
be reported as, and `Told` leaves out what no sequence can carry (releases
without SGR mouse mode, combinations without a sequence of their own). A
console's records come one by one; mouse, window and focus records come between
those of one sequence. Runes have up to two bytes; colours are specifications of
one byte; URxvt's keys ending in '$' are left out where a paste would show the
byte they overwrite; unknown CSI '_' is read as on builds other than Windows.

### Pony family

An element is a record of its kind, identifier, children and attributes; a text
is the widths of its lines. What is drawn is which element drew each cell last.
Colours, text styles and alignment within lines are omitted, and a drawn text
owns its whole area. `Endless` (10000) stands for the `1<<30` and `1<<31-1` the
code gives to endless sizes; EXCEPT stands for the fluent setters; the decoder of
XML and `text/template` are external. Pages exclude the same element in two
slots, greedy elements inside scroll views, texts wrapped at width 0 and negative
sizes, which the code gets wrong or does not define.

## 3. Runs

| Run | Checks | Instance | Shows |
| --- | --- | --- | --- |
| `cursor_margins` | `TypeOK`, `CursorOnScreen`, `NoSelfOverwrite`, `RelativeStaysInRows` | sizes 4x3 and 3x4, counts and positions 0..3 and 9, margins 0..3, characters of width 0 and 1, left/right margins | the cursor stays on the screen and in the rows of its region across resizes, margins, modes |
| `cursor_alt` | `ScreenIsolation` | 2x2, counts and positions 0, 1 and 9, margins 0..2, alternate screen, saved cursors, tab stops | nothing leaks between the screens' cursors |
| `history_log` | `ReadInOrder`, `AlternateLeavesMain`, `IsScrollLog` | 1x2 and 1x3, bottom margins up to one past them, three writes, scrollback of 1 or 2 | history reads in order; the scrollback implements `ScrollLog`; the alternate screen leaves the main one alone |
| `history_margins` | `TypeOK`, `WrittenOnce`, `ScrollingConserves` | 2x2, regions of rows and columns up to one past the screen, three writes | no cell twice; scrolling loses nothing but the oldest lines of a full scrollback |
| `emulator` | `TypeOK`, `RaceFree`, `PasteIsWhole`, `CallsReturn`, `CloseReleases` | a goroutine that resizes, types, sets and looks; one that writes, pastes and renders; one that closes; with and without a reader | the lock does its work; calls return while somebody reads; closing frees everybody |
| `vttest_stuck` | `TermTypeOK`, `OnlyCallbacksBlock` | a printing program, two test goroutines, all requests, two cells | the only way a terminal that is read stops is a callback and the holder of `Terminal.mu` waiting for each other |
| `language_servers` | `TypeOK`, `NoServerLost`, `CallersAreServed`, `RestartIsFresh`, `CallsReturn`, `RemovedServersEnd` | two goroutines, one name, two clients, four worlds | no server is lost or handed out unready; calls return when servers answer or contexts end; removed servers end |
| `documents` | `TypeOK`, `InStep`, `OpenedOnce`, `VersionsRise` | one document of up to two characters, two versions, three notifications on their way | a server that has read everything has the manager's versions, and its texts unless a change was passed on that the manager did not make |
| `screens` | `FramesAreShown`, `KeepsWhatIsAbove`, `LeavesTheTerminal` | thirteen programs, on terminals with all, some and no capabilities | after a render the terminal shows the frame and the screen knows it; what is above an inline screen stays |
| `screen_cleared` | `KeepsWhatIsAbove` (violated) | one program that clears | the finding of section 5 |
| `text` | `SequencesAreRead`, `ReadersAgree`, `PenFollows`, `TextsAreRight` | every stream of the bytes of six alphabets to the parser, up to five to the decoder; 300 styles; all texts of five tokens, limits 2 and 3 | the buffers of both readers are never overrun, what follows an ESC is read as by a new parser, the decoder gets to the end of a text; the two agree; styles arrive; lines fit and lose nothing; cuts are exact |
| `input` | `ProgramIsTold`, `ConsoleIsRead`, `MeaningsAgree`, `ClicksFindElements`, `ElementsAreWhole` | five topics of three acts, a console of five doings, the whole key table, strings of up to five bytes, five pages in three windows | what is written is read back as what was meant; a click finds the element that is seen |

**Bounds, and why they are enough.** Every behaviour of the cursor depends on
which side of a margin or an edge it stands; with three or four rows a region can
have rows above, inside and below it, and a movement of 3 crosses all of them.
`HonestMargins` (all margins fit both sizes; counts go far past them) holds in `cursor_margins`, and so
does `NothingKept`: `save` and `alt` are off where the size changes.
`NoSelfOverwrite` is about characters of width 0 and 1. `cursor_alt` needs few
positions, but all orders of switches. In the history runs `MaxWrites` bounds the
marked cells: three lines against a scrollback of one or two make every kind of
overflow happen, two columns suffice for a region that does not span them all.
Top margins are 0 in `history_log`: a log that keeps a header above a scrolling
region is not read back in order. `Past` is 1: whether a region ends past the screen is
all that is asked. `MaxEffects = 2` lets a write both answer and
call back, in either order; three goroutines are a writer, a waiter and a third
that must not overtake.

In `language_servers` one name and two clients are a server and the one that
takes its place, which is what races are about; the four worlds pair the calls
that meet at the lock (a restart with a start; a lookup for a file with stops; a
start and a registered handler with a lookup and a request; a start with a lookup
and a kill, while a handler asks back). In `documents`, texts of two characters
with line ends have up to three lines, three notifications are an open, a change
and a close; a batch is empty, one event of each form, or two of which the second
depends on the first or is ignored. The frames of `screens` are chosen so that every branch of the line
transformation, of the scroll optimisation and of the clearing is taken; the
sets of capabilities are those the code gives to xterm, to linux and to an
unknown terminal. Alphabets of `text` and `input` hold, for each kind of
sequence, its introducer, a parameter, a separator, a final byte and something
that ends it badly; `ParamsSize` and `DataSize` are small so that both limits are
passed. Three acts of a conversation set a mode, ask and press. Windows of 5x4,
8x9 and 11x12 cut pages, just hold them and leave space.

**Deadlock** is checked in the cursor and history runs and in `documents`. It is off in
`emulator`, where without a reader and without `Close` the calls may really stop (an
answer waits in the pipe for somebody to take it); in `vttest_stuck`, where
`OnlyCallbacksBlock` says exactly how it stops (`Stuck` spells out that no
step's guard holds); in `language_servers`, where
nothing is left to do when all clients have been made; and in the last four,
whose programs end.

**Fairness** is used by the liveness properties of `emulator` and
`language_servers`. A goroutine that can run runs: weak fairness for every step
inside a call, for the reader, for a client's read loop and for the end of a
killed process. A mutex that is free again and again is handed to whoever waits
(Go's starvation mode): strong fairness for taking `SafeEmulator.mu`, the
mutex in line of which `io.Pipe` puts its writers, `Registry.mu` and the
router's. What a language server does is fair only in the worlds that
rely on answers, and contexts end only where calls rely on deadlines. Nothing
obliges anybody to make another call, a program to print, a test to close, or a
server to stay alive.

## 4. Proofs

| Theorem | Says, for every value of the constants |
| --- | --- |
| `VtCursorProofs!TypeCorrect` | `TypeOK`: the types, and every region has a row and a column |
| `VtCursorProofs!OnScreenAlways` | `HonestMargins /\ NothingKept => (Spec => []CursorOnScreen)`, for counts and positions of any size |
| `VtCursorProofs!RowsKept` | relative movement by any count, and printing, stay in the region's rows, under the same hypotheses |
| `VtCursorProofs!Isolation` | `ScreenIsolation`, without hypotheses |
| `VtCursorProofs!PrintingMovesOn` | `NoSelfOverwrite`, for characters of width 0 and 1 |
| `VtHistoryProofs!HistoryTyped` | `TypeOK`: buffers have the cells of the screen and the scrollback is never above its limit, wherever regions end |
| `VtHistoryProofs!CellsStayUnique` | `WrittenOnce`: no written cell is in two places |
| `VtHistoryProofs!LogsReadInOrder` | `ReadInOrder`, if top margins are 0 and columns have no margins |
| `VtHistoryProofs!ScrollbackIsLog` | `IsScrollLog`: the scrollback of the main screen implements `ScrollLog` |
| `VtHistoryProofs!ScrollingKeepsLines` | `ScrollingConserves` |
| `VtHistoryProofs!MainUntouched` | `AlternateLeavesMain`, without hypotheses |
| `SafeEmulatorProofs!LockHeld` | `TypeOK`: a call holds its method's lock from body to return |
| `SafeEmulatorProofs!WrappedIsRaceFree` | `RaceFree`: the wrapped methods never meet, whatever others are called beside them |
| `SafeEmulatorProofs!PastesAreWhole` | `PasteIsWhole`, for callers of wrapped methods and `Close` |
| `SafeEmulatorProofs!NobodyWaitsInCircles` | `SomebodyMoves`, the safety half of `CallsReturn`: while a call is under way and somebody reads, or the emulator is closed, the reader or some call has a step it may take, or a call waits for its callback to run |
| `VtTestProofs!TerminalTyped` | `TermTypeOK`: both mutexes are held by the calls at the steps that hold them |
| `VtTestProofs!TerminalIsRaceFree` | `RaceFree`, of the terminal for tests |
| `VtTestProofs!OnlyCallbacksStop` | `OnlyCallbacksBlock`: a terminal that is read and cannot go on is a callback that waits for the holder of `Terminal.mu`, who waits for the emulator's lock |
| `LspRegistryProofs!RegistryTyped` | `TypeOK` |
| `LspRegistryProofs!ServersAreKept` | `NoServerLost`: of servers that were initialized, are connected and were not told to exit; nothing of one whose initialization failed |
| `LspRegistryProofs!ServedCallers` | `CallersAreServed` |
| `LspRegistryProofs!RestartsAreFresh` | `RestartIsFresh` |
| `DocSyncProofs!DocumentsOpenOnce` | `OpenedOnce` |
| `DocSyncProofs!ChangesCountUp` | `VersionsRise` |
| `DocSyncProofs!CopiesAgree` | `InStep`: versions always, texts unless a change was ignored |
| `DocSyncProofs!DocumentsTyped` | `TypeOK` |
| `AnsiReadersProofs!ReadersAreRight` | `SequencesAreRead`: the next two, and the bounds of the buffers |
| `AnsiReadersProofs!SequencesAreReadAfresh` | `ReadsAfresh`: what came before an ESC does not show in what follows it |
| `AnsiReadersProofs!DecodingEnds` | `DecodeProgresses`: a call of `DecodeSequence` takes bytes, or goes back from a sequence to plain text, or panics |

*Cursor.* `CursorOnScreen` alone is not inductive: a position kept by `saved` or
on the hidden screen would escape at the next shrink. `IInv` adds `TypeOK` and
`Kept` (what `NothingKept` gives: either the size never changes, or everything
kept is the origin). Lemmas state what each position operator does to a cursor
(`OnScreenFits`, `InRegionFits`, `MoveCursorBehaves`, `IndexBehaves`,
`PrintedBehaves`), and the steps only combine them. The hypotheses are
necessary: the code bounds a bottom margin from above nowhere, and restores a
cursor saved before a resize as it is. `PrintingMovesOn`
follows from the types: the region has a column, and printing moves on or wraps.

*Lines.* That cells are written once is proved by giving every operation a map
from the places after it to the places before it which keeps what is written and
never takes two places to one (`Moves`): insertions, deletions and scrolls of a
region each have such a map, and a scroll's goes from the end of the scrollback
to the top of the screen. Pushing several rows is a recursive function, and what
it does to a scrollback is proved by induction on their number; the induction is
a least-element argument over the rows of a finite set. `ReadInOrder` needs two facts more:
that regions are all columns from the top row on (`FullRegions`), and that rows below
the last line written are blank. `ScrollbackIsLog` proves for each action that it is one of
`ScrollLog`'s: it enters lines at the end, empties the log or changes its limit
(`LogStep`). `ScrollingConserves` compares only lines that are not empty: that
filter is a recursive function too, and what it makes of two sequences one after
the other is shown by induction (`NonBlankConcat`). Rows that are pushed then keep
what was there, without a part in front that only a full scrollback gives up
(`PushesKeep`), and the rows that stay move up unchanged (`RowsDeleted`).
For `MainUntouched` every handler is `ActiveOnly`, or switches screens.

*Lock.* `LockInv` ties the record of the mutex to each caller's place
(`Disciplined`), says that only a call past its body has effects left (`Quiet`)
and that an offer in the pipe is the head of its caller's effects (`Offered`).
Race freedom follows from exclusion. For pastes, `Inv` adds that the callers use
their methods only (`InMethods`), the shape of what each call has left to write
(`Shaped`), and `PasteInv`: while a paste is open, some call has exactly the rest
of it left to write, and the lock keeps every other wrapped method's input out.
The hypothesis on `Methods` is necessary: promoted methods write without the
lock. That nobody waits in a circle needs the other direction too, that whoever
waits has somebody to wait for: `WaitInv` says what stage each operation can be in,
that a share of the lock is put off only while a writer waits for it or has it, and
that a closed pipe is shut or has a closer about to shut it. A step's guard is
named (`CanLock` ... `CanEnd`), a conjunct of its action, so that who can go on is
a state predicate and not `ENABLED`. `VtTestProofs` shows that the terminal's steps are steps of the emulator or
leave it alone, so that `LockInv` carries over, and adds that a test goroutine
inside the emulator holds the terminal's mutex. Race freedom, of the wrapped
methods, carries over with it. `TermWaitInv` carries `WaitInv` over in the same
way; when nobody can go on, whoever is inside the emulator is therefore at a
callback that waits for `Terminal.mu`, and whoever holds that waits for the lock.

*Language servers.* `RegistryInv` has six parts, and each of the four theorems
needs all of them: the types; who holds the registry's lock and which router, by
where it stands (`Locks`); what each call is working on there (`NamesOne`,
`Works`), with the client that a start has made and not yet registered, and the
one that a stop has taken out and not yet ended; that the registry maps names to
clients of this name; whose answer each message in an inbox is and that its
caller still waits for it (`Inboxes`); and that the client a restart hands out is
younger than the call (`Fresh`). One lemma per action and part, since most actions
touch one client and one call. TLC checks `RegistryInv` on the instance of `language_servers`.

*Documents.* What a server will have when it has read what is on its way is not to
be seen in one notification. `SyncInv` speaks of sessions, from an open to a close,
which lie one after another in what the server has and what it will read: between
two opens of a document stands a close, versions rise within a session, and the last
of them belongs to the document the manager has open. Reading shifts all of it by
one notification. A change of a document whose `Open` had failed is on the wire
without a session; `OpenedOnce` excuses it, as the code sends it. `InStep` speaks of
a server that has read everything. `TextInv` says it of one that has not: what it
will make of its copy, edit by edit, is the manager's text (`Ahead`, `Follows`), for
a document of which no change was ignored. A change that the manager makes and one
that it only passes on are told apart by `MakesAll`. The two edit differently, the
manager by offsets into the text and the server by lines; that both come to the same
is a lemma on strings (`EditIsSplice`), carried over the changes of a call by
induction on their number.

*Readers of sequences.* One buffer serves all sequences, and what a cut-off one left
in it must not show in the next. `ReadersInv` says that the parser and its twin are
`Alike`: equal in what the state they are in looks at, which is nothing right after
an ESC, then the command, the parameters up to the one at hand, the string's data.
The table has 15 states and 256 bytes but fourteen kinds of entries (`Entry`,
`TableEntry`), and for each kind a lemma says that its action takes twins to twins
(`...Twins`); the same lemmas bound the buffers, and the events of twins are equal.
An ESC makes any two parsers twins, in all states but the two that take it for data
(`RestartSame`). For the decoder the invariant counts: the parser holds no more
parameters than the buffer has places and one more for each byte taken. The model's
recursive functions (the bytes of a call, the digits of a command) are proved to
exist, and what they yield, by the same induction as above (`DecodeEnds`,
`StringNumberType`). The bound `MaxParam` is no hypothesis: the theorems hold for
every value of it. `ReadersAgree` compares two parsers of
different shape over whole texts, and stays with TLC.

**Assumptions on constants** are those the modules name: sizes have a row and a
column, limits are natural numbers, sets of callers do not hold the value for
nobody. Hypotheses of theorems are written in the theorems.

**Only model-checked.** `CallsReturn`, `CloseReleases`, `RemovedServersEnd` are
liveness under fairness, outside what the prover handles; of the first,
`SomebodyMoves` is the part that is safety. The cell, text (but for the readers),
input and pony families are algorithms over trees and strings, written with
recursive operators that the prover cannot reason about.

## 5. Findings

**With a run.** `screen_cleared`: `clearBottom` (`src/cellbuf/screen.go:1192`)
takes its row for a 1-based one. When every row of an inline frame turns blank,
the screen moves to row -1, erases from there, and is one row too high from then
on; what `InsertAbove` put there is lost, which "is not managed by the screen".

The rest was observed while modelling and has no run of its own. The models
contain these behaviours unless section 2 says that an instance leaves them out.

*Terminal (`vt`, `vttest`).* IL, DL and CR under origin mode end with
`setCursorX(0, true)`, which adds the top margin to an absolute row: the cursor
moves down. The pending wrap survives DECRC, CBT, IL and DL and applies to
another column; a wide character that fills the row leaves none. A bottom margin
below the screen lets CUD leave it. Scrolling a region whose top is not row 0
puts lines into the scrollback that stood below rows still on the screen. The
alternate screen keeps a scrollback although a test is named otherwise, and
`Emulator.Scrollback` returns the main one's where its comment says nil.
`ScrollUp` saves lines its comment calls lost; a resize cuts off rows at the
bottom without saving them. `SafeEmulator` embeds `*Emulator`: `Close`,
`WriteString`, `Focus` and others are promoted without the lock and race with the
wrapped methods. `Terminal.Snapshot` holds `Terminal.mu` and asks for the
emulator's lock, while the program's output holds the emulator's lock and, in a
callback, asks for `Terminal.mu`; `Resize` holds it while a callback of its own
goroutine locks it; a snapshot may mix two pictures. SO and SI have no handlers, and CSI u
is not registered though CSI s saves; the right-hand character set is 0 in a new
emulator and 1 after a reset; DSR 5 is answered in DEC's form; titles, working
directories and hyperlinks with a further ';' are ignored; builders called with 0
move by one; unknown modes are recorded as set; `resetModes` goes through a map,
in any order; `ModeLineFeedNewLine` is ANSI mode 20 and commented "?20". Kp8
drops Alt, a key with text and a modifier writes nothing, Alt with another
modifier a lone ESC, some keypad keys U+FFFD. The mouse sends motion and releases
in modes that have none, X10 turns a release into a click, and coordinates above
94 become two bytes. A pasted text that holds the end marker ends early.

*Input.* A cursor report from row 1, columns 2 to 16, that is alone in a read is
reported as F3 only, where `src/input/parse.go:329` promises both events. Kitty's
base key overwrites the shifted one; a tilde key with modifier 0 sets all
modifiers; 8-bit CSI M and CSI with parameters and M read past the bytes there
are; the emulator's answer to DA2 is unknown to the parser; URxvt's '$' is
written into the reader's buffer. The end of a paste split over two reads is not
found, and everything after is paste; pasted text that equals an entry of the
key table becomes a key. ESC at the end of a read is Escape, and an Escape merged with
the next key is Alt. A DCS ends at any ESC; parameters past the limit become keys.
On a Windows console: a button after a turn of the wheel has none; two Ctrl or
Alt keys report left only; a record without a key makes later releases unknown; Alt
loses the third byte of a sequence; text under AltGr is upper-cased with Shift; a
key-up between surrogates yields U+FFFD; the sequence buffer is never reset after
an unknown sequence, up to its end; pasted text is not collected.

*Screen.* A window that widens leaves garbage; deleting or clearing half a wide
character splits it; without SU, scrolling writes line feeds at the top; a wide
character inserted in column 0 may never finish `transformLine`; `ShowCursor`
after a render without text leaves it hidden; `InsertAbove` before
`EnterAltScreen` is lost; a nil cell takes the pen of the cell before it;
entering the alternate screen twice corrupts the saved cursor; hard tabs backward
go one too far; `Resize` compares a width with a height, and is not atomic with `Render`.

*Sequences, styles and text.* The decoder takes '[', ']', 'P', 'X', '^' and '_'
after an intermediate for a new introducer, indexes past 32 parameters and loses
its place when a chunk ends inside a string; a cut lead byte of UTF-8 swallows an ESC; a
control character inside a CSI overwrites its command; the last parameter is
dropped when the buffer is full. From bold and faint to bold, and with the two
kinds of blinking, one parameter turns off both; a difference of a style with itself
is a reset; colours of equal RGB are not written again; `ReadLink` loses URLs
with ';'; 4:7 sets reverse. A tab or another control character at the end of a text drawn into
cells becomes a cell of width 0, which `RenderLine` skips; before spaces at the end of a line
it is rendered without them and joins the next line when that is read again. `ansi.Wrap` exceeds its limit after a hyphen ("aa-", limit 2),
`cellbuf.Wrap` with trailing spaces; a wide character across the left end of a
cut is kept whole.

*Language servers.* A failed `Initialize` leaks its process and connection;
`Exit` does not cancel when its notification fails; `IsRunning` stays true after
a crash, and `StartServer` returns the crashed client; handlers run on the read
loop under the router's lock, so that one that calls the server waits for itself. Documents:
after a batch that fails half-way the copies differ; under `Incremental` a
whole-document event, just what `CreateFullDocumentChange` makes, is ignored by the
manager (`src/powernap/pkg/lsp/sync.go:156`), which counts the version up and sends
it, and under `Full` partial events (147) and all events but the first (84) are treated so,
where the comment on `Change` says that it "applies changes to an open document":
the copies differ until both sides take a whole text, and a range that fits the
server's text may then lie outside the manager's; `Open` keeps a document
whose notification failed, and a later change of it reaches a server that lacks it; offsets are bytes
whatever encoding was negotiated; kind `None` leaves the local text as it was.

*Pony.* Markup with spaces around it loses its root; plain text shows nothing;
children scrolled out of a view keep bounds outside it and are clicked there, and
elements not drawn keep their old ones; percentages apply again at every level;
shares of a growing element lose their remainder; `Positioned` inside a stack
never shows; wrapping at width 0 divides by zero; dividers, spacers and progress
bars of automatic size in a scroll view ask for 2^30 cells; padding 0 of a button
cannot be set; a hidden border counts in `Draw` but not in `Layout`; a spacer
ignores minimum sizes; offsets stay when a window grows; "50%" is read as 50
where an integer is expected; an element without identifier over one with is
not hit.

## 6. Not modelled, and the plan

Left out for good: image encodings, colour tables, wrappers over system calls,
the generated protocol types of `powernap`, `exp/teatest` (a wrapper of a loop
that is not here), `gitignore`. SGR in the emulator is read by a library's
`ReadStyle` (that of `cellbuf` is in `Pen`); damage and the arguments of callbacks are left
out of the emulator.

Next: the layout of stacks in `pony`, and the wrapping of text over recursive
functions, whose proofs would be inductions over the text.
