------------------------------- MODULE VtTest -------------------------------
(* A terminal for tests (src/vttest/vttest.go): a SafeEmulator between a PTY *)
(* and a test. One goroutine copies what the program prints into the         *)
(* emulator, another copies what the emulator answers back to the program,   *)
(* and the test resizes, types, takes snapshots and closes. Terminal.mu is   *)
(* held by every method the test calls, for as long as it lasts, and by the  *)
(* callbacks through which the emulator tells the terminal what changed.     *)
EXTENDS SafeEmulator

CONSTANTS
  Output,      \* the goroutine that copies the PTY into the emulator
  Requests,    \* what the test asks for
  Cells        \* how many cells a snapshot reads

ASSUME OutputCalls == Output \in Callers /\ Methods[Output] \subseteq {"Write"}
ASSUME KnownRequests ==
  Requests \subseteq {"Snapshot", "Resize", "SendText", "SendKey", "Paste", "Close"}
ASSUME CellsAreCounted == Cells \in Nat

Tests == Callers \ {Output}

VARIABLES
  mu,          \* Terminal.mu: who holds it, or Nobody
  request      \* what each test goroutine wants and how many calls that needs yet

termVars == <<mu, request>>
allVars == <<vars, termVars>>

NoRequest == [op |-> "none", calls |-> 0]

TermInit ==
  /\ Init
  /\ mu = Nobody
  /\ request = [t \in Tests |-> NoRequest]

Ask(t, op) ==
  /\ request[t] = NoRequest
  /\ request' = [request EXCEPT
       ![t] = [op |-> op, calls |-> IF op = "Snapshot" THEN Cells ELSE 1]]
  /\ UNCHANGED <<vars, mu>>

CanTakeMutex(t) == request[t] # NoRequest /\ mu = Nobody
TakeMutex(t) ==
  /\ CanTakeMutex(t)
  /\ mu' = t
  /\ UNCHANGED <<vars, request>>

CallEmulatorFreely(t) ==
  /\ request[t].calls > 0
  /\ Begin(t, IF request[t].op = "Snapshot" THEN "CellAt" ELSE request[t].op)
  /\ request' = [request EXCEPT ![t].calls = @ - 1]
  /\ UNCHANGED mu

\* A snapshot copies the terminal's own fields and then asks for cell after cell.
CanCallEmulator(t) == mu = t /\ request[t].calls > 0 /\ call[t] = Idle
CallEmulator(t) ==
  /\ CanCallEmulator(t)
  /\ Begin(t, IF request[t].op = "Snapshot" THEN "CellAt" ELSE request[t].op)
  /\ request' = [request EXCEPT ![t].calls = @ - 1]
  /\ UNCHANGED mu

CanFinish(t) == mu = t /\ request[t].calls = 0 /\ call[t] = Idle
Finish(t) ==
  /\ CanFinish(t)
  /\ mu' = Nobody
  /\ request' = [request EXCEPT ![t] = NoRequest]
  /\ UNCHANGED vars

PrintProgram ==
  /\ \E op \in Methods[Output] : Begin(Output, op)
  /\ UNCHANGED termVars

\* What a call does once it has its locks: a write parses what the program
\* printed, CellAt reads one cell, and so on.
InBody(c) == Body(c) /\ UNCHANGED termVars

\* Every callback locks Terminal.mu, sets a field and unlocks.
TellTerminal(c) ==
  /\ mu = Nobody
  /\ Callback(c)
  /\ UNCHANGED termVars

InEmulator(c) ==
  /\ Lock(c) \/ RLock(c) \/ Enter(c) \/ Offer(c) \/ Fail(c) \/ ShutPipe(c)
     \/ Return(c) \/ Take(c)
  /\ UNCHANGED termVars

CopyInput == (Read \/ EndOfInput) /\ UNCHANGED termVars

Progress(c) ==
  \/ TellTerminal(c) \/ InEmulator(c) \/ InBody(c)
  \/ c # Output /\ (TakeMutex(c) \/ CallEmulator(c) \/ Finish(c))

TermNext ==
  \/ \E t \in Tests, op \in Requests : Ask(t, op)
  \/ PrintProgram
  \/ \E c \in Callers : Progress(c)
  \/ CopyInput

TermSpec == TermInit /\ [][TermNext]_allVars

----------------------------------------------------------------------------
\* The terminal's state has its type, nothing of the emulator's is broken by the
\* way the terminal uses it, and a test goroutine is inside the emulator only
\* while it holds the terminal.
TermTypeOK ==
  /\ TypeOK
  /\ mu \in Tests \cup {Nobody}
  /\ \A t \in Tests :
       /\ request[t].calls \in 0 .. Cells + 1
       /\ call[t] # Idle => mu = t

\* Somebody is in a call or has asked for one, and nobody can take a step.
CanProgress(c) ==
  \/ CanMove(c)
  \/ Pending(c) = "callback" /\ mu = Nobody
  \/ c # Output /\ (CanTakeMutex(c) \/ CanCallEmulator(c) \/ CanFinish(c))
Busy(c) == call[c] # Idle \/ (c # Output /\ request[c] # NoRequest)
Stuck ==
  /\ \E c \in Callers : Busy(c)
  /\ ~ReaderCanMove /\ \A c \in Callers : ~CanProgress(c)

\* Terminal.mu and the emulator's lock are taken in both orders, and that is the
\* only thing that can stop a terminal somebody reads from: whenever somebody has
\* work to do and nobody can move, a callback waits for the terminal, and the
\* test goroutine that holds it waits for the emulator or is the one the callback
\* runs on.
OnlyCallbacksBlock ==
  reader # "absent" /\ Stuck =>
    \E c \in Callers, t \in Tests :
      /\ Pending(c) = "callback" /\ Mutex!Owns(lock, c)
      /\ mu = t
      /\ t = c \/ call[t].at = "lock"
=============================================================================
