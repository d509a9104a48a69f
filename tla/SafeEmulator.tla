---------------------------- MODULE SafeEmulator ----------------------------
(* The wrapper that lets several goroutines share one terminal emulator      *)
(* (src/vt/safe_emulator.go), with what matters here of the emulator inside: *)
(* which calls use the terminal's state, which report to a callback, and     *)
(* which write to the input pipe. The pipe (io.Pipe) has no buffer: a write  *)
(* returns when a reader has taken it or the pipe is closed, and the call    *)
(* that writes keeps whatever lock it holds until then.                      *)
(*                                                                           *)
(* A call goes from Begin through the lock, if its method takes one, to its  *)
(* body, which decides what effects it has, and leaves by Return when they   *)
(* are done. Effects are chunks of bytes for the pipe, "callback" for a      *)
(* function the user has set, and "close" for the end of the pipe.           *)
EXTENDS Naturals, Sequences

CONSTANTS
  Callers,     \* goroutines that call the emulator
  Nobody,
  Methods,     \* the methods each of them calls
  MaxEffects,  \* how many effects one Write may have
  Readers      \* "away": a goroutine of its own keeps calling Read; "absent": none does

VARIABLES
  lock,        \* SafeEmulator.mu
  call,        \* what each caller is doing
  closed,      \* Emulator.closed
  bracketed,   \* whether the program has asked for bracketed paste
  pipe,        \* whose offer the pipe holds, and whether it is shut
  reader,      \* the goroutine that calls Read
  paste        \* the chunks read since a bracketed paste began, while it is open

vars == <<lock, call, closed, bracketed, pipe, reader, paste>>

Mutex == INSTANCE RWMutex

\* The methods SafeEmulator wraps, by the lock they take; the others of the
\* embedded Emulator are promoted as they are.
ExclusiveButResize ==
  {"Write", "SendKey", "SendMouse", "SendText", "Paste", "SetForegroundColor"}
ExclusiveButPaste ==
  {"Write", "Resize", "SendKey", "SendMouse", "SendText", "SetForegroundColor"}
ExclusiveButSendText == (ExclusiveButPaste \cup {"Paste"}) \ {"SendText"}
ExclusiveAndClose == ExclusiveButPaste \cup {"Paste", "Close"}
Exclusive ==
  {"Write", "Resize", "SendKey", "SendMouse", "SendText", "Paste",
   "SetForegroundColor"}
Shared == {"Render", "CellAt"}

Wrapped ==
  {"Write", "Resize", "SendKey", "SendMouse", "SendText", "Paste",
   "SetForegroundColor", "Render", "CellAt"}
Promoted == {"WriteString", "Focus", "Close"}

ASSUME NobodyCalls == Nobody \notin Callers
ASSUME EffectsAreCounted == MaxEffects \in Nat
ASSUME ReadersExistOrNot == Readers \subseteq {"away", "absent"}
ASSUME KnownMethods == \A c \in Callers : Methods[c] \subseteq Wrapped \cup Promoted

Chunks == {"start", "text", "end", "input"}

\* A program's output is answered with reports and told to callbacks, any number
\* of times and in any order.
Answers == UNION {[1 .. n -> {"input", "callback"}] : n \in 0 .. MaxEffects}

Bracketed == <<"start", "text", "end">>

Idle == [op |-> "none", at |-> "outside", effects |-> <<>>]

Init ==
  /\ lock = Mutex!Free
  /\ call = [c \in Callers |-> Idle]
  /\ closed = FALSE /\ bracketed = FALSE
  /\ pipe = [offer |-> Nobody, shut |-> FALSE]
  /\ reader \in Readers
  /\ paste = <<>>

Doing(c, at, ops) == call[c].at = at /\ call[c].op \in ops
Goes(c, at) == call' = [call EXCEPT ![c].at = at]

Pending(c) == IF call[c].effects = <<>> THEN "nothing" ELSE Head(call[c].effects)
EffectDone(c) == call' = [call EXCEPT ![c].effects = Tail(@)]

----------------------------------------------------------------------------
\* Coming in through the lock.

Begin(c, op) ==
  /\ call[c] = Idle
  /\ call' = [call EXCEPT
       ![c] = [op |-> op, effects |-> <<>>,
               at |-> IF op \in Exclusive \cup Shared THEN "lock" ELSE "body"]]
  /\ UNCHANGED <<lock, closed, bracketed, pipe, reader, paste>>

CanLock(c) == Doing(c, "lock", Exclusive) /\ Mutex!CanAnnounce(lock)
Lock(c) ==
  /\ CanLock(c)
  /\ lock' = Mutex!Announced(lock, c)
  /\ UNCHANGED <<call, closed, bracketed, pipe, reader, paste>>

CanRLock(c) ==
  Doing(c, "lock", Shared \ Exclusive) /\ c \notin lock.readers \cup lock.parked
RLock(c) ==
  /\ CanRLock(c)
  /\ lock' = Mutex!RLocked(lock, c)
  /\ UNCHANGED <<call, closed, bracketed, pipe, reader, paste>>

CanEnter(c) == call[c].at = "lock" /\ (Mutex!Owns(lock, c) \/ Mutex!Shares(lock, c))
Enter(c) ==
  /\ CanEnter(c)
  /\ Goes(c, "body")
  /\ UNCHANGED <<lock, closed, bracketed, pipe, reader, paste>>

----------------------------------------------------------------------------
\* The bodies.

Runs(c, ops, outcomes) ==
  /\ Doing(c, "body", ops)
  /\ \E e \in outcomes : call' = [call EXCEPT ![c].at = "effects", ![c].effects = e]
  /\ UNCHANGED <<lock, pipe, reader, paste>>

Write(c) ==
  /\ Runs(c, {"Write", "WriteString"}, IF closed THEN {<<>>} ELSE Answers)
  /\ bracketed' \in (IF closed THEN {bracketed} ELSE BOOLEAN)
  /\ UNCHANGED closed

\* Resize tells the cursor's position if it moved, and then the size if the
\* program asked for it.
Resize(c) ==
  /\ Runs(c, {"Resize"}, {<<>>, <<"input">>, <<"callback">>, <<"callback", "input">>})
  /\ UNCHANGED <<closed, bracketed>>

\* A key, a mouse event or a change of focus sends something or nothing.
SendEvent(c) ==
  /\ Runs(c, {"SendKey", "SendMouse", "Focus"}, {<<>>, <<"input">>})
  /\ UNCHANGED <<closed, bracketed>>

SendText(c) ==
  /\ Runs(c, {"SendText"}, {<<"input">>})
  /\ UNCHANGED <<closed, bracketed>>

Paste(c) ==
  /\ Runs(c, {"Paste"}, {IF bracketed THEN Bracketed ELSE <<"text">>})
  /\ UNCHANGED <<closed, bracketed>>

SetForegroundColor(c) ==
  /\ Runs(c, {"SetForegroundColor"}, {<<"callback">>, <<>>})
  /\ UNCHANGED <<closed, bracketed>>

Query(c) ==
  /\ Runs(c, Shared, {<<>>})
  /\ UNCHANGED <<closed, bracketed>>

Close(c) ==
  /\ Runs(c, {"Close"}, {IF closed THEN <<>> ELSE <<"close">>})
  /\ closed' = TRUE
  /\ UNCHANGED bracketed

Body(c) ==
  \/ Write(c) \/ Resize(c) \/ SendEvent(c) \/ SendText(c) \/ Paste(c)
  \/ SetForegroundColor(c) \/ Query(c) \/ Close(c)

----------------------------------------------------------------------------
\* The effects: callbacks, and writes to the pipe.

Callback(c) ==
  /\ Pending(c) = "callback"
  /\ EffectDone(c)
  /\ UNCHANGED <<lock, closed, bracketed, pipe, reader, paste>>

CanOffer(c) == Pending(c) \in Chunks /\ pipe.offer = Nobody /\ ~pipe.shut
Offer(c) ==
  /\ CanOffer(c)
  /\ pipe' = [pipe EXCEPT !.offer = c]
  /\ UNCHANGED <<lock, call, closed, bracketed, reader, paste>>

\* A write to a pipe that is shut, or that is shut while it waits, fails, and
\* the emulator ignores the error.
CanFail(c) == Pending(c) \in Chunks /\ pipe.shut
Fail(c) ==
  /\ CanFail(c)
  /\ EffectDone(c)
  /\ pipe' = [pipe EXCEPT !.offer = IF @ = c THEN Nobody ELSE @]
  /\ UNCHANGED <<lock, closed, bracketed, reader, paste>>

ShutPipe(c) ==
  /\ Pending(c) = "close"
  /\ EffectDone(c)
  /\ pipe' = [pipe EXCEPT !.shut = TRUE]
  /\ UNCHANGED <<lock, closed, bracketed, reader, paste>>

ReturnMixingUnlocks(c) ==
  /\ call[c].at = "effects" /\ call[c].effects = <<>>
  /\ call' = [call EXCEPT ![c] = Idle]
  /\ lock' = IF call[c].op \in Exclusive \cup Shared THEN Mutex!Unlocked(lock) ELSE lock
  /\ UNCHANGED <<closed, bracketed, pipe, reader, paste>>

CanReturn(c) == call[c].at = "effects" /\ call[c].effects = <<>>
Return(c) ==
  /\ CanReturn(c)
  /\ call' = [call EXCEPT ![c] = Idle]
  /\ lock' = IF call[c].op \in Exclusive THEN Mutex!Unlocked(lock)
             ELSE IF call[c].op \in Shared THEN Mutex!RUnlocked(lock, c) ELSE lock
  /\ UNCHANGED <<closed, bracketed, pipe, reader, paste>>

----------------------------------------------------------------------------
\* The reader takes no lock: Read looks at closed and goes to the pipe.

ReadableUnderLock == reader = "away" /\ lock.writer = Nobody
CanRead == reader = "away"
Read ==
  /\ CanRead
  /\ reader' = IF closed THEN "eof" ELSE "reading"
  /\ UNCHANGED <<lock, call, closed, bracketed, pipe, paste>>

Mark(c, chunk) == [by |-> c, chunk |-> chunk]
PasteIsOpen == paste # <<>> /\ paste[Len(paste)].chunk # "end"

CanTake(c) == reader = "reading" /\ pipe.offer = c /\ ~pipe.shut
Take(c) ==
  /\ CanTake(c)
  /\ reader' = "away"
  /\ pipe' = [pipe EXCEPT !.offer = Nobody]
  /\ EffectDone(c)
  /\ LET read == Mark(c, Pending(c)) IN
       paste' = CASE PasteIsOpen -> Append(paste, read)
                  [] ~PasteIsOpen /\ read.chunk = "start" -> <<read>>
                  [] OTHER -> <<>>
  /\ UNCHANGED <<lock, closed, bracketed>>

CanEnd == reader = "reading" /\ pipe.shut
EndOfInput ==
  /\ CanEnd
  /\ reader' = "eof"
  /\ UNCHANGED <<lock, call, closed, bracketed, pipe, paste>>

----------------------------------------------------------------------------
Caller(c) ==
  \/ \E op \in Methods[c] : Begin(c, op)
  \/ Lock(c) \/ RLock(c) \/ Enter(c)
  \/ Body(c)
  \/ Callback(c) \/ Offer(c) \/ Fail(c) \/ ShutPipe(c)
  \/ Return(c)

Next == (\E c \in Callers : Caller(c) \/ Take(c)) \/ Read \/ EndOfInput

Spec == Init /\ [][Next]_vars

\* A goroutine that can run runs; a sync.Mutex (the one inside the read-write
\* mutex, and the one that puts the pipe's writers in line) is handed to whoever
\* waits longest, so nobody who keeps asking is passed over for ever. Nothing
\* obliges a caller to make another call.
Fairness ==
  /\ \A c \in Callers :
       /\ SF_vars(Lock(c)) /\ SF_vars(Offer(c))
       /\ WF_vars(RLock(c)) /\ WF_vars(Enter(c)) /\ WF_vars(Body(c))
       /\ WF_vars(Callback(c)) /\ WF_vars(Fail(c)) /\ WF_vars(ShutPipe(c))
       /\ WF_vars(Return(c))
       /\ WF_vars(Take(c))
  /\ WF_vars(Read) /\ WF_vars(EndOfInput)

FairSpec == Spec /\ Fairness

----------------------------------------------------------------------------
\* Every variable has its type, a call holds its lock from its body to its
\* return, and only a call that is writing has an offer in the pipe.
TypeOK ==
  /\ Mutex!IsMutex(lock, Callers)
  /\ \A c \in Callers :
       /\ call[c].at \in {"outside", "lock", "body", "effects"}
       /\ call[c].at \in {"body", "effects"} =>
            /\ call[c].op \in Exclusive => Mutex!Owns(lock, c)
            /\ call[c].op \in Shared => Mutex!Shares(lock, c)
  /\ closed \in BOOLEAN /\ bracketed \in BOOLEAN /\ pipe.shut \in BOOLEAN
  /\ reader \in {"absent", "away", "reading", "eof"}
  /\ pipe.offer # Nobody => Pending(pipe.offer) \in Chunks

\* The shared state a call in its body or its effects works on: the terminal
\* (parser, screens, modes), and the flag Close sets.
Changing(c) ==
  CASE Doing(c, "body", {"Write", "WriteString", "Resize", "SetForegroundColor"})
         \/ Doing(c, "effects", {"Write", "WriteString", "Resize"}) -> {"terminal"}
    [] Doing(c, "body", {"Close"}) -> {"closed"}
    [] OTHER -> {}
Using(c) ==
  CASE Doing(c, "body", {"Write", "WriteString"}) -> {"terminal", "closed"}
    [] Doing(c, "body", {"Close"}) -> {"closed"}
    [] Doing(c, "body", {"Resize", "SendKey", "SendMouse", "Focus", "Paste",
                         "SetForegroundColor", "Render", "CellAt"})
         \/ Doing(c, "effects", {"Write", "WriteString", "Resize"}) -> {"terminal"}
    [] OTHER -> {}

\* Nothing that SafeEmulator wraps works on state that another wrapped method is
\* changing, whatever else runs: "SafeEmulator is a wrapper around an Emulator
\* that adds concurrency safety". (Close, WriteString and Focus are promoted
\* from Emulator and take no lock.)
RaceFree ==
  \A c, d \in Callers :
    c # d /\ {call[c].op, call[d].op} \subseteq Wrapped => Changing(c) \cap Using(d) = {}

\* What arrives between the marks of a bracketed paste is that paste: a program
\* that trusts the marks never takes a key, a report or another paste for
\* pasted text, however the calls that send input interleave.
PasteIsWhole ==
  paste = <<>> \/
  \E c \in Callers :
    \/ paste = <<Mark(c, "start")>>
    \/ paste = <<Mark(c, "start"), Mark(c, "text")>>
    \/ paste = <<Mark(c, "start"), Mark(c, "text"), Mark(c, "end")>>

\* Who can take a step, but for callbacks: those run the user's functions.
CanMove(c) ==
  \/ CanLock(c) \/ CanRLock(c) \/ CanEnter(c)
  \/ call[c].at = "body"
  \/ CanOffer(c) \/ CanFail(c) \/ Pending(c) = "close" \/ CanTake(c)
  \/ CanReturn(c)
ReaderCanMove == CanRead \/ CanEnd

\* Locks, pipe and reader never wait for each other in a circle: while a call is
\* in progress and somebody reads or the emulator is closed, a step is possible.
SomebodyMoves ==
  (\E c \in Callers : call[c] # Idle) /\ (reader # "absent" \/ closed) =>
    ReaderCanMove \/ \E c \in Callers : CanMove(c) \/ Pending(c) = "callback"

\* As long as somebody keeps reading, every call returns: no call waits for the
\* pipe while what would empty it waits for the lock the call holds.
CallsReturn ==
  \A c \in Callers : reader # "absent" /\ call[c] # Idle ~> call[c] = Idle

\* Closing the emulator frees everybody, also when nobody reads: the calls that
\* are stuck in the pipe with the lock, and those behind them.
CloseReleases ==
  \A c \in Callers :
    (\E d \in Callers : call[d].op = "Close") /\ call[c] # Idle ~> call[c] = Idle
=============================================================================
