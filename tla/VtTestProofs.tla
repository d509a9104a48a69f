----------------------------- MODULE VtTestProofs -----------------------------
(* A terminal for tests uses its emulator well (VtTest), for any number of   *)
(* test goroutines and cells: the emulator's invariant, LockInv, survives    *)
(* the terminal's way of calling it, and whoever is inside the emulator on   *)
(* behalf of a test holds the terminal. Nothing but a callback that waits    *)
(* for the terminal can stop it.                                             *)
EXTENDS VtTest, SafeEmulatorProofs

Asked ==
  request \in [Tests -> [op : Requests \cup {"none"}, calls : 0 .. Cells + 1]]

\* A test goroutine has something to call only if it asked for something, and is
\* in the emulator only with the terminal's lock.
Held(t) ==
  /\ request[t].calls > 0 => request[t].op \in Requests
  /\ call[t] # Idle => mu = t

TermInv ==
  /\ LockInv
  /\ mu \in Tests \cup {Nobody}
  /\ Asked
  /\ \A t \in Tests : Held(t)

----------------------------------------------------------------------------
\* What a request is served with is a method of the emulator.
LEMMA ServedBy ==
  ASSUME NEW op \in Requests
  PROVE  (IF op = "Snapshot" THEN "CellAt" ELSE op) \in Wrapped \cup Promoted
BY KnownRequests DEF Wrapped, Promoted

\* Nobody has asked for anything at first.
LEMMA TermStart == TermInit => TermInv
<1> SUFFICES ASSUME TermInit PROVE TermInv OBVIOUS
<1>1. LockInv BY LockInit DEF TermInit
<1>2. Asked
  <2>1. NoRequest \in [op : Requests \cup {"none"}, calls : 0 .. Cells + 1]
    BY CellsAreCounted DEF NoRequest
  <2> QED BY <2>1 DEF TermInit, Asked
<1>3. ASSUME NEW t \in Tests PROVE Held(t)
  BY DEF TermInit, Init, Held, NoRequest, Tests
<1> QED BY <1>1, <1>2, <1>3 DEF TermInit, TermInv

\* What a call does inside the emulator is done by a goroutine that is in a
\* call, and leaves the others where they are.
LEMMA InsideIsCalling ==
  ASSUME LockInv, NEW c \in Callers,
         \/ Lock(c) \/ RLock(c) \/ Enter(c) \/ Offer(c) \/ Fail(c) \/ ShutPipe(c)
         \/ Return(c) \/ Take(c) \/ Body(c) \/ Callback(c)
  PROVE  call' = call \/ (call[c] # Idle /\ \A d \in Callers : d # c => call'[d] = call[d])
<1>1. call \in [Callers -> [op : Ops, at : Stages, effects : Seq(Effects)]]
  BY DEF LockInv, Types
<1>2. Idle.at = "outside" /\ Idle.effects = <<>> BY DEF Idle
<1>3. CASE Lock(c) \/ RLock(c) \/ Offer(c) BY <1>3 DEF Lock, CanLock, RLock, CanRLock, Offer, CanOffer
<1>4. CASE Enter(c)
  <2>1. call[c].at = "lock" /\ call' = [call EXCEPT ![c].at = "body"]
    BY <1>4 DEF Enter, CanEnter, Goes
  <2> QED BY <1>1, <1>2, <2>1
<1>5. CASE Return(c)
  <2>1. call[c].at = "effects" /\ call' = [call EXCEPT ![c] = Idle] BY <1>5 DEF Return, CanReturn
  <2> QED BY <1>1, <1>2, <2>1
<1>6. CASE Body(c)
  <2>1. ASSUME NEW ops, NEW outcomes, Runs(c, ops, outcomes)
        PROVE  call[c] # Idle /\ \A d \in Callers : d # c => call'[d] = call[d]
    <3>1. PICK e \in outcomes :
            call' = [call EXCEPT ![c].at = "effects", ![c].effects = e]
      BY <2>1 DEF Runs
    <3>2. call[c].at = "body" BY <2>1 DEF Runs, Doing
    <3> QED BY <1>1, <1>2, <3>1, <3>2
  <2> QED BY <1>6, <2>1 DEF Body, Write, Resize, SendEvent, SendText, Paste,
          SetForegroundColor, Query, Close
<1>7. CASE Fail(c) \/ ShutPipe(c) \/ Take(c) \/ Callback(c)
  <2>1. EffectDone(c) BY <1>7 DEF Fail, CanFail, ShutPipe, Take, CanTake, Callback
  <2>2. call[c].effects # <<>>
    <3>1. CASE Take(c) BY <3>1 DEF Take, CanTake, LockInv, Offered
    <3>2. CASE Fail(c) \/ ShutPipe(c) \/ Callback(c)
      BY <3>2 DEF Fail, CanFail, ShutPipe, Callback, Pending, Chunks
    <3> QED BY <1>7, <3>1, <3>2
  <2>3. \A d \in Callers : d # c => call'[d] = call[d] BY <1>1, <2>1 DEF EffectDone
  <2> QED BY <1>2, <2>2, <2>3
<1> QED BY <1>3, <1>4, <1>5, <1>6, <1>7

\* Steps inside the emulator.
LEMMA InsideKeeps ==
  ASSUME TermInv, UNCHANGED termVars, NEW c \in Callers,
         \/ Lock(c) \/ RLock(c) \/ Enter(c) \/ Offer(c) \/ Fail(c) \/ ShutPipe(c)
         \/ Return(c) \/ Take(c) \/ Body(c) \/ Callback(c)
  PROVE  TermInv'
<1>1. LockInv'
  BY LockKeeps, RLockKeeps, EnterKeeps, BodyKeeps, EffectsKeep, OfferKeeps, ReturnKeeps
     DEF TermInv
<1>2. call' = call \/ (call[c] # Idle /\ \A d \in Callers : d # c => call'[d] = call[d])
  BY InsideIsCalling DEF TermInv
<1>3. ASSUME NEW t \in Tests PROVE Held(t)'
  <2>1. t \in Callers /\ mu' = mu /\ request' = request BY DEF Tests, termVars
  <2>2. call'[t] = call[t] \/ (t = c /\ call[t] # Idle) BY <1>2, <2>1
  <2>3. Held(t) BY DEF TermInv
  <2> QED BY <2>1, <2>2, <2>3 DEF Held
<1> QED BY <1>1, <1>3 DEF TermInv, termVars, Asked

\* What a test goroutine asks, and how it comes to the terminal and leaves it.
LEMMA TestKeeps ==
  ASSUME TermInv, NEW t \in Tests,
         \/ \E op \in Requests : Ask(t, op)
         \/ TakeMutex(t) \/ CallEmulator(t) \/ Finish(t)
  PROVE  TermInv'
<1>1. /\ LockInv /\ mu \in Tests \cup {Nobody} /\ t \in Callers
      /\ request \in [Tests -> [op : Requests \cup {"none"}, calls : 0 .. Cells + 1]]
      /\ \A s \in Tests : Held(s)
  BY DEF TermInv, Asked, Tests
<1>2. UNCHANGED vars => LockInv'
  BY <1>1 DEF vars, LockInv, Types, Disciplined, Quiet, Offered
<1>3. UNCHANGED vars => call' = call BY DEF vars
<1>4. ASSUME NEW op \in Requests, Ask(t, op) PROVE TermInv'
  <2>1. PICK r : /\ request' = [request EXCEPT ![t] = r] /\ r.op = op
                 /\ r \in [op : Requests \cup {"none"}, calls : 0 .. Cells + 1]
    <3>1. PICK r : r = [op |-> op, calls |-> IF op = "Snapshot" THEN Cells ELSE 1] OBVIOUS
    <3>2. r \in [op : Requests \cup {"none"}, calls : 0 .. Cells + 1]
      BY <3>1, CellsAreCounted
    <3> QED BY <1>4, <3>1, <3>2 DEF Ask
  <2>2. mu' = mu /\ call' = call /\ LockInv' BY <1>2, <1>3, <1>4 DEF Ask
  <2>3. Asked' BY <1>1, <2>1 DEF Asked
  <2>4. ASSUME NEW s \in Tests PROVE Held(s)'
    <3>1. request'[s] = request[s] \/ request'[s].op \in Requests BY <1>1, <2>1
    <3> QED BY <1>1, <2>2, <3>1 DEF Held
  <2> QED BY <1>1, <2>2, <2>3, <2>4 DEF TermInv
<1>5. CASE TakeMutex(t)
  <2>1. mu = Nobody /\ mu' = t /\ request' = request /\ call' = call /\ LockInv'
    BY <1>2, <1>3, <1>5 DEF TakeMutex, CanTakeMutex
  <2>2. ASSUME NEW s \in Tests PROVE Held(s)'
    <3>1. s # Nobody BY NobodyCalls DEF Tests
    <3> QED BY <1>1, <2>1, <3>1 DEF Held
  <2> QED BY <1>1, <2>1, <2>2 DEF TermInv, Asked
<1>6. CASE CallEmulator(t)
  <2>1. PICK op : op = IF request[t].op = "Snapshot" THEN "CellAt" ELSE request[t].op
    OBVIOUS
  <2>2. /\ mu = t /\ mu' = t /\ request[t].calls > 0 /\ Begin(t, op)
        /\ request' = [request EXCEPT ![t].calls = @ - 1]
    BY <1>6, <2>1 DEF CallEmulator, CanCallEmulator
  <2>3. op \in Wrapped \cup Promoted BY <1>1, <2>1, <2>2, ServedBy DEF Held
  <2>4. LockInv' BY <1>1, <2>2, <2>3, BeginKeeps
  <2>5. \A s \in Tests : s # t => call'[s] = call[s]
    BY <1>1, <2>2 DEF Begin, LockInv, Types, Tests
  <2>6. /\ request[t].calls - 1 \in 0 .. Cells + 1
        /\ \A s \in Tests : s # t => request'[s] = request[s]
        /\ request'[t] = [request[t] EXCEPT !.calls = @ - 1]
    BY <1>1, <2>2, CellsAreCounted
  <2>7. Asked' BY <1>1, <2>2, <2>6 DEF Asked
  <2>8. ASSUME NEW s \in Tests PROVE Held(s)'
    <3>1. CASE s = t
      <4>1. request'[t].op = request[t].op BY <1>1, <2>6
      <4> QED BY <1>1, <2>2, <3>1, <4>1 DEF Held
    <3>2. CASE s # t BY <1>1, <2>2, <2>5, <2>6, <3>2 DEF Held
    <3> QED BY <3>1, <3>2
  <2> QED BY <1>1, <2>2, <2>4, <2>7, <2>8 DEF TermInv
<1>7. CASE Finish(t)
  <2>1. /\ mu = t /\ mu' = Nobody /\ call[t] = Idle /\ call' = call /\ LockInv'
        /\ request' = [request EXCEPT ![t] = NoRequest]
    BY <1>2, <1>3, <1>7 DEF Finish, CanFinish
  <2>2. NoRequest \in [op : Requests \cup {"none"}, calls : 0 .. Cells + 1]
        /\ NoRequest.calls = 0
    BY CellsAreCounted DEF NoRequest
  <2>3. Asked' BY <1>1, <2>1, <2>2 DEF Asked
  <2>4. ASSUME NEW s \in Tests PROVE Held(s)'
    <3>1. CASE s = t BY <1>1, <2>1, <2>2, <3>1 DEF Held
    <3>2. CASE s # t
      <4>1. request'[s] = request[s] BY <1>1, <2>1, <3>2
      <4> QED BY <1>1, <2>1, <3>2, <4>1 DEF Held
    <3> QED BY <3>1, <3>2
  <2> QED BY <2>1, <2>3, <2>4 DEF TermInv
<1> QED BY <1>4, <1>5, <1>6, <1>7

\* The goroutine that copies the PTY starts to write what the program printed.
LEMMA PrintKeeps == ASSUME TermInv, PrintProgram PROVE TermInv'
<1>1. PICK op \in Methods[Output] : Begin(Output, op) BY DEF PrintProgram
<1>2. Output \in Callers /\ op \in Wrapped \cup Promoted BY OutputCalls, KnownMethods
<1>3. LockInv' BY <1>1, <1>2, BeginKeeps DEF TermInv
<1>4. mu' = mu /\ request' = request BY DEF PrintProgram, termVars
<1>5. ASSUME NEW t \in Tests PROVE Held(t)'
  <2>1. t \in Callers /\ t # Output BY DEF Tests
  <2>2. call'[t] = call[t] BY <1>1, <2>1 DEF Begin, TermInv, LockInv, Types
  <2> QED BY <1>4, <2>2 DEF Held, TermInv
<1> QED BY <1>3, <1>4, <1>5 DEF TermInv, Asked

\* Every step of the terminal preserves the invariant.
LEMMA TermPreserved == TermInv /\ [TermNext]_allVars => TermInv'
<1> SUFFICES ASSUME TermInv, [TermNext]_allVars PROVE TermInv' OBVIOUS
<1>1. CASE UNCHANGED allVars
  BY <1>1 DEF allVars, vars, termVars, TermInv, LockInv, Types, Disciplined, Quiet,
              Offered, Asked, Held
<1>2. ASSUME NEW t \in Tests, NEW op \in Requests, Ask(t, op) PROVE TermInv'
  BY <1>2, TestKeeps
<1>3. CASE PrintProgram BY <1>3, PrintKeeps
<1>4. ASSUME NEW c \in Callers, Progress(c) PROVE TermInv'
  <2>1. CASE TellTerminal(c) \/ InEmulator(c) \/ InBody(c)
    BY <2>1, InsideKeeps DEF TellTerminal, InEmulator, InBody
  <2>2. CASE c # Output /\ (TakeMutex(c) \/ CallEmulator(c) \/ Finish(c))
    BY <2>2, TestKeeps DEF Tests
  <2> QED BY <1>4, <2>1, <2>2 DEF Progress
<1>5. CASE CopyInput
  <2>1. LockInv'
    BY <1>5 DEF CopyInput, Read, CanRead, EndOfInput, CanEnd, TermInv, LockInv, Types, Disciplined,
                Quiet, Offered
  <2>2. call' = call /\ mu' = mu /\ request' = request
    BY <1>5 DEF CopyInput, Read, CanRead, EndOfInput, CanEnd, termVars
  <2> QED BY <2>1, <2>2 DEF TermInv, Asked, Held
<1> QED BY <1>1, <1>2, <1>3, <1>4, <1>5 DEF TermNext

\* The terminal keeps its types and the emulator's, and a test goroutine is in
\* the emulator only while it holds the terminal (Terminal.mu in Snapshot,
\* Resize, SendText, SendKey, Paste and Close).
THEOREM TerminalTyped == TermSpec => []TermTypeOK
<1>1. TermInv => TermTypeOK
  BY LockTyped DEF TermInv, TermTypeOK, Asked, Held
<1> QED BY <1>1, TermStart, TermPreserved, PTL DEF TermSpec

\* Under a test terminal too, no method that SafeEmulator wraps works on what
\* another one changes, whatever tests and callbacks do.
THEOREM TerminalIsRaceFree == TermSpec => []RaceFree
<1>1. TermInv => RaceFree BY LockExcludes DEF TermInv
<1> QED BY <1>1, TermStart, TermPreserved, PTL DEF TermSpec

----------------------------------------------------------------------------
\* What can stop a terminal. Its goroutines call no promoted method but Close, and
\* who holds the terminal has something to ask of it.
Wanting ==
  /\ \A c \in Callers : call[c].op \notin {"WriteString", "Focus"}
  /\ mu # Nobody => request[mu].op # "none"

TermWaitInv == TermInv /\ WaitInv /\ Wanting

\* At first nobody waits for the terminal.
LEMMA TermWaitStart == TermInit => TermWaitInv
BY TermStart, WaitStart DEF TermInit, TermWaitInv, Wanting, Init, Idle

\* A step inside the emulator stays in its method or ends it.
LEMMA InsideStays ==
  ASSUME LockInv, NEW c \in Callers,
         \/ Lock(c) \/ RLock(c) \/ Enter(c) \/ Offer(c) \/ Fail(c) \/ ShutPipe(c)
         \/ Return(c) \/ Take(c) \/ Body(c) \/ Callback(c)
  PROVE  \A d \in Callers : call'[d].op \in {call[d].op, "none"}
<1>1. call \in [Callers -> [op : Ops, at : Stages, effects : Seq(Effects)]]
  BY DEF LockInv, Types
<1>2. CASE Lock(c) \/ RLock(c) \/ Offer(c) BY <1>2 DEF Lock, RLock, Offer
<1>3. CASE Enter(c)
  <2>1. call' = [call EXCEPT ![c].at = "body"] BY <1>3 DEF Enter, Goes
  <2> QED BY <1>1, <2>1
<1>4. CASE Fail(c) \/ ShutPipe(c) \/ Take(c) \/ Callback(c)
  <2>1. call' = [call EXCEPT ![c].effects = Tail(@)]
    BY <1>4 DEF Fail, ShutPipe, Take, Callback, EffectDone
  <2> QED BY <1>1, <2>1
<1>5. CASE Return(c)
  <2>1. call' = [call EXCEPT ![c] = Idle] BY <1>5 DEF Return
  <2> QED BY <1>1, <2>1 DEF Idle
<1>6. CASE Body(c)
  <2>1. call'[c].op = call[c].op /\ \A d \in Callers : d # c => call'[d] = call[d]
    BY <1>6, RunsLeave DEF Body, Write, Resize, SendEvent, SendText, Paste,
       SetForegroundColor, Query, Close
  <2> QED BY <2>1
<1> QED BY <1>2, <1>3, <1>4, <1>5, <1>6

\* Steps inside the emulator keep it.
LEMMA InsideWaits ==
  ASSUME TermWaitInv, UNCHANGED termVars, NEW c \in Callers,
         \/ Lock(c) \/ RLock(c) \/ Enter(c) \/ Offer(c) \/ Fail(c) \/ ShutPipe(c)
         \/ Return(c) \/ Take(c) \/ Body(c) \/ Callback(c)
  PROVE  TermWaitInv'
<1>1. TermInv' BY InsideKeeps DEF TermWaitInv
<1>2. WaitInv'
  BY LockWaits, BodyWaits, EffectWaits, ReturnWaits DEF TermWaitInv
<1>3. \A d \in Callers : call'[d].op \in {call[d].op, "none"}
  BY InsideStays DEF TermWaitInv, WaitInv
<1> QED BY <1>1, <1>2, <1>3 DEF TermWaitInv, Wanting, termVars

\* A goroutine that begins a method of the terminal's.
LEMMA BeginWants ==
  ASSUME TermWaitInv, NEW c \in Callers,
         NEW op \in (Wrapped \cup Promoted) \ {"WriteString", "Focus"}, Begin(c, op)
  PROVE  WaitInv' /\ \A d \in Callers : call'[d].op \notin {"WriteString", "Focus"}
<1>1. WaitInv' BY BeginWaits DEF TermWaitInv
<1>2. call' = [call EXCEPT
           ![c] = [op |-> op, effects |-> <<>>,
                   at |-> IF op \in Exclusive \cup Shared THEN "lock" ELSE "body"]]
  BY DEF Begin
<1>3. call'[c].op = op /\ \A d \in Callers : d # c => call'[d] = call[d]
  BY <1>2 DEF TermWaitInv, WaitInv, LockInv, Types
<1> QED BY <1>1, <1>3 DEF TermWaitInv, Wanting

\* What a test goroutine asks, and how it comes to the terminal and leaves it.
LEMMA TestWaits ==
  ASSUME TermWaitInv, NEW t \in Tests,
         \/ \E op \in Requests : Ask(t, op)
         \/ TakeMutex(t) \/ CallEmulator(t) \/ Finish(t)
  PROVE  TermWaitInv'
<1>1. /\ TermInv' /\ t \in Callers /\ t # Nobody
      /\ request \in [Tests -> [op : Requests \cup {"none"}, calls : 0 .. Cells + 1]]
      /\ mu \in Tests \cup {Nobody} /\ Held(t)
  BY TestKeeps, NobodyCalls DEF TermWaitInv, TermInv, Asked, Tests
<1>2. UNCHANGED vars =>
        WaitInv' /\ \A d \in Callers : call'[d].op \notin {"WriteString", "Focus"}
  <2>1. SUFFICES ASSUME UNCHANGED vars
                 PROVE  WaitInv' /\ \A d \in Callers : call'[d].op \notin {"WriteString", "Focus"}
    OBVIOUS
  <2>2. LockInv' BY <1>1 DEF TermInv
  <2> QED BY <2>1, <2>2 DEF vars, TermWaitInv, WaitInv, Staged, PutOff, Closes, Closing, Wanting
<1>3. "none" \notin Requests BY KnownRequests
<1>4. ASSUME NEW op \in Requests, Ask(t, op) PROVE TermWaitInv'
  <2>1. /\ request[t] = NoRequest /\ mu' = mu /\ UNCHANGED vars
        /\ request' = [request EXCEPT
             ![t] = [op |-> op, calls |-> IF op = "Snapshot" THEN Cells ELSE 1]]
    BY <1>4 DEF Ask
  <2>2. request'[t].op = op /\ \A s \in Tests : s # t => request'[s] = request[s]
    BY <1>1, <2>1
  <2> QED BY <1>1, <1>2, <1>3, <2>1, <2>2 DEF TermWaitInv, Wanting
<1>5. CASE TakeMutex(t)
  <2>1. request[t] # NoRequest /\ mu' = t /\ UNCHANGED vars /\ request' = request
    BY <1>5 DEF TakeMutex, CanTakeMutex
  <2>2. request[t].op # "none"
    <3>1. request[t].op = "none" => request[t].calls = 0 BY <1>1, <1>3, CellsAreCounted DEF Held
    <3>2. request[t] = [op |-> request[t].op, calls |-> request[t].calls] BY <1>1
    <3> QED BY <2>1, <3>1, <3>2 DEF NoRequest
  <2> QED BY <1>1, <1>2, <2>1, <2>2 DEF TermWaitInv, Wanting
<1>6. CASE CallEmulator(t)
  <2>1. PICK op : op = IF request[t].op = "Snapshot" THEN "CellAt" ELSE request[t].op
    OBVIOUS
  <2>2. /\ mu' = mu /\ request[t].calls > 0 /\ Begin(t, op)
        /\ request' = [request EXCEPT ![t].calls = @ - 1]
    BY <1>6, <2>1 DEF CallEmulator, CanCallEmulator
  <2>3. op \in (Wrapped \cup Promoted) \ {"WriteString", "Focus"}
    BY <1>1, <2>1, <2>2, KnownRequests DEF Held, Wrapped, Promoted
  <2>4. \A s \in Tests : request'[s].op = request[s].op BY <1>1, <2>2
  <2> QED BY <1>1, <2>2, <2>3, <2>4, BeginWants DEF TermWaitInv, Wanting
<1>7. CASE Finish(t)
  <2>1. mu' = Nobody /\ UNCHANGED vars BY <1>7 DEF Finish
  <2> QED BY <1>1, <1>2, <2>1 DEF TermWaitInv, Wanting
<1> QED BY <1>4, <1>5, <1>6, <1>7

\* Every step of the terminal keeps it.
LEMMA TermWaitPreserved == TermWaitInv /\ [TermNext]_allVars => TermWaitInv'
<1> SUFFICES ASSUME TermWaitInv, [TermNext]_allVars PROVE TermWaitInv' OBVIOUS
<1>0. TermInv' BY TermPreserved DEF TermWaitInv
<1>1. CASE UNCHANGED allVars
  BY <1>0, <1>1 DEF allVars, vars, termVars, TermWaitInv, TermInv, WaitInv, Staged, PutOff,
                Closes, Closing, Wanting
<1>2. ASSUME NEW t \in Tests, NEW op \in Requests, Ask(t, op) PROVE TermWaitInv'
  BY <1>2, TestWaits
<1>3. CASE PrintProgram
  <2>1. Output \in Callers /\ Begin(Output, "Write") /\ UNCHANGED termVars
    BY <1>3, OutputCalls DEF PrintProgram
  <2> QED BY <1>0, <2>1, BeginWants DEF TermWaitInv, Wanting, termVars, Wrapped
<1>4. ASSUME NEW c \in Callers, Progress(c) PROVE TermWaitInv'
  <2>1. CASE TellTerminal(c) \/ InEmulator(c) \/ InBody(c)
    BY <2>1, InsideWaits DEF TellTerminal, InEmulator, InBody
  <2>2. CASE c # Output /\ (TakeMutex(c) \/ CallEmulator(c) \/ Finish(c))
    BY <2>2, TestWaits DEF Tests
  <2> QED BY <1>4, <2>1, <2>2 DEF Progress
<1>5. CASE CopyInput
  <2>1. WaitInv' BY <1>5, ReadWaits DEF CopyInput, TermWaitInv
  <2>2. UNCHANGED <<call, mu, request>>
    BY <1>5 DEF CopyInput, Read, EndOfInput, termVars
  <2> QED BY <1>0, <2>1, <2>2 DEF TermWaitInv, Wanting
<1> QED BY <1>1, <1>2, <1>3, <1>4, <1>5 DEF TermNext

\* A callback runs only in a call that has the emulator's lock to itself.
LEMMA CallbacksOwn ==
  ASSUME TermWaitInv, NEW c \in Callers, Pending(c) = "callback"
  PROVE  Mutex!Owns(lock, c) /\ call[c].at = "effects"
<1>1. call[c].effects # <<>> /\ Head(call[c].effects) = "callback" BY DEF Pending
<1>2. call[c].at = "effects" BY <1>1 DEF TermWaitInv, WaitInv, LockInv, Types, Quiet
<1>3. call[c].op \in Exclusive
  <2>1. call[c].op \notin Shared \cup {"Close", "Focus", "WriteString", "none"}
    <3>1. call[c].op \notin {"Close", "Focus"} \cup Shared
      BY <1>1 DEF TermWaitInv, WaitInv, Staged
    <3>2. call[c].op # "none"
      BY <1>2 DEF TermWaitInv, WaitInv, Staged
    <3> QED BY <3>1, <3>2 DEF TermWaitInv, Wanting
  <2> QED BY <2>1 DEF TermWaitInv, WaitInv, LockInv, Types, Ops, Wrapped, Promoted,
                      Shared, Exclusive
<1> QED BY <1>2, <1>3 DEF TermWaitInv, WaitInv, LockInv, Disciplined, Mutex!Owns

\* Terminal.mu and the emulator's lock are taken in both orders, and nothing else
\* stops a terminal that somebody reads from, for any number of test goroutines
\* and cells: whenever somebody has work to do and no step is possible, a callback
\* waits for the terminal, and the test goroutine that holds it waits for the
\* emulator or runs the callback itself.
THEOREM OnlyCallbacksStop == TermSpec => []OnlyCallbacksBlock
<1>1. ASSUME TermWaitInv, reader # "absent", Stuck
      PROVE  \E c \in Callers, t \in Tests :
               /\ Pending(c) = "callback" /\ Mutex!Owns(lock, c)
               /\ mu = t
               /\ t = c \/ call[t].at = "lock"
  <2>1. /\ ~ReaderCanMove /\ \A c \in Callers : ~CanMove(c)
        /\ \A c \in Callers : Pending(c) = "callback" => mu # Nobody
        /\ \A t \in Tests : ~CanTakeMutex(t) /\ ~CanCallEmulator(t) /\ ~CanFinish(t)
    BY <1>1 DEF Stuck, CanProgress, Tests
  <2>2. ASSUME NEW c \in Callers, call[c].at # "outside"
        PROVE  \E d \in Callers : Pending(d) = "callback" /\ (d = c \/ call[c].at = "lock")
    BY <1>1, <2>1, <2>2, SomebodyGoesOn DEF TermWaitInv
  <2>3. ASSUME NEW c \in Callers, call[c].at = "outside" PROVE call[c] = Idle
    <3>1. call[c] = [op |-> call[c].op, at |-> call[c].at, effects |-> call[c].effects]
      BY <1>1 DEF TermWaitInv, WaitInv, LockInv, Types
    <3>2. call[c].op = "none" /\ call[c].effects = <<>>
      BY <1>1, <2>3 DEF TermWaitInv, WaitInv, LockInv, Staged, Quiet
    <3> QED BY <2>3, <3>1, <3>2 DEF Idle
  <2>4. mu \in Tests
    <3>1. SUFFICES ASSUME mu = Nobody PROVE FALSE
      BY <1>1, <3>1 DEF TermWaitInv, TermInv
    <3>2. PICK c \in Callers : Busy(c) BY <1>1 DEF Stuck
    <3>3. CASE c # Output /\ request[c] # NoRequest
      BY <2>1, <3>1, <3>3 DEF CanTakeMutex, Tests
    <3>4. CASE call[c] # Idle BY <2>1, <2>2, <2>3, <3>1, <3>4
    <3> QED BY <3>2, <3>3, <3>4 DEF Busy
  <2>5. call[mu].at # "outside"
    <3>1. SUFFICES ASSUME call[mu].at = "outside" PROVE FALSE OBVIOUS
    <3>2. call[mu] = Idle /\ mu \in Callers BY <2>3, <2>4, <3>1 DEF Tests
    <3>3. request[mu].calls \in 0 .. Cells + 1
      BY <1>1, <2>4 DEF TermWaitInv, TermInv, Asked
    <3>4. request[mu].calls = 0 \/ request[mu].calls > 0 BY <3>3, CellsAreCounted
    <3> QED BY <2>1, <2>4, <3>2, <3>4 DEF CanCallEmulator, CanFinish
  <2>6. PICK d \in Callers : Pending(d) = "callback" /\ (d = mu \/ call[mu].at = "lock")
    BY <2>2, <2>4, <2>5 DEF Tests
  <2>7. Mutex!Owns(lock, d) BY <1>1, <2>6, CallbacksOwn
  <2> QED BY <2>4, <2>6, <2>7
<1>2. TermWaitInv => OnlyCallbacksBlock BY <1>1 DEF OnlyCallbacksBlock
<1> QED BY <1>2, TermWaitStart, TermWaitPreserved, PTL DEF TermSpec
=============================================================================
