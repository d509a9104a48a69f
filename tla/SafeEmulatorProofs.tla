------------------------- MODULE SafeEmulatorProofs -------------------------
(* The lock of SafeEmulator does what it is for: its methods, and those      *)
(* only, keep goroutines off state another one changes, and keep a paste in  *)
(* one piece. The inductive invariant says who may hold the lock in which    *)
(* part of a call, and what a call has left to write.                        *)
EXTENDS SafeEmulator, SequenceTheorems, TLAPS

Ops == Wrapped \cup Promoted \cup {"none"}
Stages == {"outside", "lock", "body", "effects"}
Effects == Chunks \cup {"callback", "close"}

Types ==
  /\ lock \in [writer : Callers \cup {Nobody},
               readers : SUBSET Callers, parked : SUBSET Callers]
  /\ call \in [Callers -> [op : Ops, at : Stages, effects : Seq(Effects)]]
  /\ closed \in BOOLEAN /\ bracketed \in BOOLEAN
  /\ pipe \in [offer : Callers \cup {Nobody}, shut : BOOLEAN]
  /\ reader \in {"absent", "away", "reading", "eof"}

\* What a caller's place in the lock says of its call, and the other way round.
Disciplined(c) ==
  /\ lock.writer = c => call[c].op \in Exclusive
  /\ c \in lock.readers => call[c].op \in Shared
  /\ c \in lock.parked =>
       call[c].op \in Shared /\ call[c].at = "lock" /\ c \notin lock.readers
  /\ call[c].at \in {"body", "effects"} =>
       /\ call[c].op \in Exclusive => lock.writer = c /\ lock.readers = {}
       /\ call[c].op \in Shared => c \in lock.readers

\* Only a call that is past its body has anything to write.
Quiet(c) == call[c].at # "effects" => call[c].effects = <<>>

Offered(c) ==
  pipe.offer = c => call[c].effects # <<>> /\ Head(call[c].effects) \in Chunks

LockInv ==
  /\ Types
  /\ \A c \in Callers : Disciplined(c) /\ Quiet(c) /\ Offered(c)

----------------------------------------------------------------------------
\* The lock is free and nobody calls at first.
LEMMA LockInit == Init => LockInv
<1>1. ASSUME Init PROVE Types
  <2>1. Idle \in [op : Ops, at : Stages, effects : Seq(Effects)]
    <3>1. <<>> \in Seq(Effects) OBVIOUS
    <3> QED BY <3>1 DEF Idle, Ops, Stages
  <2> QED BY <1>1, <2>1, ReadersExistOrNot DEF Init, Types, Mutex!Free
<1>2. ASSUME Init, NEW c \in Callers
      PROVE Disciplined(c) /\ Quiet(c) /\ Offered(c)
  BY <1>2, NobodyCalls DEF Init, Idle, Mutex!Free, Disciplined, Quiet, Offered
<1> QED BY <1>1, <1>2 DEF LockInv

\* Popping an effect keeps the type of a call.
LEMMA TailTyped ==
  ASSUME NEW s \in Seq(Effects), s # <<>> PROVE Tail(s) \in Seq(Effects)
OBVIOUS

\* The outcomes of the bodies are sequences of effects.
LEMMA AnswersTyped == Answers \subseteq Seq(Effects)
<1>1. ASSUME NEW n \in 0 .. MaxEffects, NEW s \in [1 .. n -> {"input", "callback"}]
      PROVE  s \in Seq(Effects)
  <2>1. n \in Nat BY EffectsAreCounted
  <2>2. s \in [1 .. n -> Effects] BY DEF Effects, Chunks
  <2> QED BY <2>1, <2>2
<1> QED BY <1>1 DEF Answers


\* A step that only gives one caller a new record.
LEMMA OneCall ==
  ASSUME LockInv, NEW c \in Callers,
         NEW r \in [op : Ops, at : Stages, effects : Seq(Effects)],
         call' = [call EXCEPT ![c] = r],
         UNCHANGED <<lock, pipe>>,
         Disciplined(c)', Quiet(c)', Offered(c)',
         closed' \in BOOLEAN, bracketed' \in BOOLEAN, UNCHANGED reader
  PROVE  LockInv'
<1>1. Types'
  BY DEF LockInv, Types
<1>2. ASSUME NEW d \in Callers, d # c PROVE call'[d] = call[d]
  BY <1>2 DEF LockInv, Types
<1>3. ASSUME NEW d \in Callers PROVE Disciplined(d)' /\ Quiet(d)' /\ Offered(d)'
  <2>1. CASE d = c BY <2>1
  <2>2. CASE d # c
    BY <2>2, <1>2 DEF LockInv, Disciplined, Quiet, Offered
  <2> QED BY <2>1, <2>2
<1> QED BY <1>1, <1>3 DEF LockInv

\* A goroutine calls any method.
LEMMA BeginKeeps ==
  ASSUME LockInv, NEW c \in Callers, NEW op \in Wrapped \cup Promoted, Begin(c, op)
  PROVE  LockInv'
<1> DEFINE r == [op |-> op, effects |-> <<>>,
                 at |-> IF op \in Exclusive \cup Shared THEN "lock" ELSE "body"]
<1>1. r \in [op : Ops, at : Stages, effects : Seq(Effects)]
  <2>1. op \in Ops BY DEF Ops
  <2>2. <<>> \in Seq(Effects) OBVIOUS
  <2> QED BY <2>1, <2>2 DEF Stages
<1>2. call' = [call EXCEPT ![c] = r] /\ call'[c] = r
  BY DEF Begin, LockInv, Types
<1>3. call[c].op = "none" /\ call[c].effects = <<>> /\ call[c].at = "outside"
  BY DEF Begin, Idle
<1>4. lock.writer # c /\ c \notin lock.readers /\ c \notin lock.parked /\ pipe.offer # c
  BY <1>3 DEF LockInv, Disciplined, Offered, Exclusive, Shared
<1>5. Disciplined(c)' /\ Quiet(c)' /\ Offered(c)'
  BY <1>2, <1>4 DEF Begin, Disciplined, Quiet, Offered
<1>6. UNCHANGED <<lock, pipe, closed, bracketed, reader>>
  BY DEF Begin
<1>7. closed' \in BOOLEAN /\ bracketed' \in BOOLEAN
  BY <1>6 DEF LockInv, Types
<1> HIDE DEF r
<1> QED BY <1>1, <1>2, <1>5, <1>6, <1>7, OneCall

\* A method that changes the terminal asks for the lock.
LEMMA LockKeeps ==
  ASSUME LockInv, NEW c \in Callers, Lock(c) PROVE LockInv'
<1>1. lock' = [lock EXCEPT !.writer = c] /\ lock.writer = Nobody
      /\ UNCHANGED <<call, closed, bracketed, pipe, reader>>
  BY DEF Lock, CanLock, Mutex!CanAnnounce, Mutex!Announced
<1>2. call[c].op \in Exclusive /\ call[c].at = "lock" BY DEF Lock, CanLock, Doing
<1>3. Types' BY <1>1 DEF LockInv, Types
<1>4. lock'.writer = c /\ lock'.readers = lock.readers /\ lock'.parked = lock.parked
  BY <1>1 DEF LockInv, Types
<1>5. ASSUME NEW d \in Callers PROVE Disciplined(d)' /\ Quiet(d)' /\ Offered(d)'
  BY <1>1, <1>2, <1>4, NobodyCalls DEF LockInv, Disciplined, Quiet, Offered
<1> QED BY <1>3, <1>5 DEF LockInv

\* A method that reads the terminal asks for a share of the lock.
LEMMA RLockKeeps ==
  ASSUME LockInv, NEW c \in Callers, RLock(c) PROVE LockInv'
<1>1. UNCHANGED <<call, closed, bracketed, pipe, reader>> BY DEF RLock, CanRLock
<1>2. call[c].op \in Shared /\ call[c].op \notin Exclusive /\ call[c].at = "lock"
      /\ c \notin lock.readers /\ c \notin lock.parked
  BY DEF RLock, CanRLock, Doing
<1>3. lock' = IF lock.writer = Nobody
                THEN [lock EXCEPT !.readers = @ \cup {c}]
                ELSE [lock EXCEPT !.parked = @ \cup {c}]
  BY DEF RLock, CanRLock, Mutex!RLocked
<1>4. Types' BY <1>1, <1>3 DEF LockInv, Types
<1>5. ASSUME NEW d \in Callers PROVE Disciplined(d)' /\ Quiet(d)' /\ Offered(d)'
  <2>1. CASE lock.writer = Nobody
    <3>1. lock'.writer = Nobody /\ lock'.readers = lock.readers \cup {c}
          /\ lock'.parked = lock.parked
      BY <2>1, <1>3 DEF LockInv, Types
    <3> QED BY <1>1, <1>2, <2>1, <3>1, NobodyCalls
            DEF LockInv, Disciplined, Quiet, Offered
  <2>2. CASE lock.writer # Nobody
    <3>1. lock'.writer = lock.writer /\ lock'.readers = lock.readers
          /\ lock'.parked = lock.parked \cup {c}
      BY <2>2, <1>3 DEF LockInv, Types
    <3> QED BY <1>1, <1>2, <3>1 DEF LockInv, Disciplined, Quiet, Offered
  <2> QED BY <2>1, <2>2
<1> QED BY <1>4, <1>5 DEF LockInv

\* A method that has its lock comes to its body.
LEMMA EnterKeeps ==
  ASSUME LockInv, NEW c \in Callers, Enter(c) PROVE LockInv'
<1> DEFINE r == [call[c] EXCEPT !.at = "body"]
<1>1. call' = [call EXCEPT ![c] = r] /\ call'[c] = r
  BY DEF Enter, CanEnter, Goes, LockInv, Types
<1>2. r \in [op : Ops, at : Stages, effects : Seq(Effects)]
      /\ r.op = call[c].op /\ r.effects = call[c].effects /\ r.at = "body"
  BY DEF LockInv, Types, Stages
<1>3. UNCHANGED <<lock, closed, bracketed, pipe, reader>> BY DEF Enter, CanEnter
<1>4. (lock.writer = c /\ lock.readers = {}) \/ c \in lock.readers
  BY DEF Enter, CanEnter, Mutex!Owns, Mutex!Shares
<1>5. call[c].at = "lock" BY DEF Enter, CanEnter
<1>6. Disciplined(c)' /\ Quiet(c)' /\ Offered(c)'
  <2>1. Exclusive \cap Shared = {} BY DEF Exclusive, Shared
  <2>2. c \notin lock.parked BY <1>4, <2>1 DEF LockInv, Disciplined
  <2> QED BY <1>1, <1>2, <1>3, <1>4, <1>5, <2>1, <2>2
          DEF LockInv, Disciplined, Quiet, Offered
<1>7. closed' \in BOOLEAN /\ bracketed' \in BOOLEAN
  BY <1>3 DEF LockInv, Types
<1> HIDE DEF r
<1> QED BY <1>1, <1>2, <1>3, <1>6, <1>7, OneCall


\* A body leaves the call with the effects it chose.
LEMMA RunsKeeps ==
  ASSUME LockInv, NEW c \in Callers, NEW ops,
         NEW outcomes, outcomes \subseteq Seq(Effects), Runs(c, ops, outcomes),
         closed' \in BOOLEAN, bracketed' \in BOOLEAN
  PROVE  LockInv'
<1>1. PICK e \in outcomes :
        call' = [call EXCEPT ![c].at = "effects", ![c].effects = e]
  BY DEF Runs
<1> DEFINE r == [call[c] EXCEPT !.at = "effects", !.effects = e]
<1>2. call' = [call EXCEPT ![c] = r] /\ call'[c] = r
  BY <1>1 DEF LockInv, Types
<1>3. r \in [op : Ops, at : Stages, effects : Seq(Effects)]
      /\ r.op = call[c].op /\ r.at = "effects"
  BY DEF LockInv, Types, Stages
<1>4. UNCHANGED <<lock, pipe, reader>> /\ call[c].at = "body"
  BY DEF Runs, Doing
<1>5. call[c].effects = <<>> /\ pipe.offer # c
  BY <1>4 DEF LockInv, Quiet, Offered
<1>6. Disciplined(c)' /\ Quiet(c)' /\ Offered(c)'
  BY <1>2, <1>3, <1>4, <1>5 DEF LockInv, Disciplined, Quiet, Offered
<1> HIDE DEF r
<1> QED BY <1>2, <1>3, <1>4, <1>6, OneCall

\* Every body leaves a call with effects, and the lock as it is.
LEMMA BodyKeeps ==
  ASSUME LockInv, NEW c \in Callers, Body(c) PROVE LockInv'
<1>1. closed \in BOOLEAN /\ bracketed \in BOOLEAN BY DEF LockInv, Types
<1>2. <<>> \in Seq(Effects) OBVIOUS
<1>3. <<"input">> \in Seq(Effects) /\ <<"text">> \in Seq(Effects)
      /\ <<"callback">> \in Seq(Effects) /\ <<"close">> \in Seq(Effects)
  BY DEF Effects, Chunks
<1>4. <<"callback", "input">> \in Seq(Effects) BY DEF Effects, Chunks
<1>5. <<"start", "text", "end">> \in Seq(Effects) BY DEF Effects, Chunks
<1>6. CASE Write(c)
  <2>1. (IF closed THEN {<<>>} ELSE Answers) \subseteq Seq(Effects)
    BY <1>2, AnswersTyped
  <2>2. closed' \in BOOLEAN /\ bracketed' \in BOOLEAN BY <1>1, <1>6 DEF Write
  <2> QED BY <1>6, <2>1, <2>2, RunsKeeps DEF Write
<1>7. CASE Resize(c)
  <2>1. {<<>>, <<"input">>, <<"callback">>, <<"callback", "input">>} \subseteq Seq(Effects)
    BY <1>2, <1>3, <1>4
  <2> QED BY <1>1, <1>7, <2>1, RunsKeeps DEF Resize
<1>8. CASE SendEvent(c)
  <2>1. {<<>>, <<"input">>} \subseteq Seq(Effects) BY <1>2, <1>3
  <2> QED BY <1>1, <1>8, <2>1, RunsKeeps DEF SendEvent
<1>9. CASE SendText(c)
  <2>1. {<<"input">>} \subseteq Seq(Effects) BY <1>3
  <2> QED BY <1>1, <1>9, <2>1, RunsKeeps DEF SendText
<1>10. CASE Paste(c)
  <2>1. {IF bracketed THEN Bracketed ELSE <<"text">>} \subseteq Seq(Effects)
    BY <1>3, <1>5 DEF Bracketed
  <2> QED BY <1>1, <1>10, <2>1, RunsKeeps DEF Paste
<1>11. CASE SetForegroundColor(c)
  <2>1. {<<"callback">>, <<>>} \subseteq Seq(Effects) BY <1>2, <1>3
  <2> QED BY <1>1, <1>11, <2>1, RunsKeeps DEF SetForegroundColor
<1>12. CASE Query(c)
  <2>1. {<<>>} \subseteq Seq(Effects) BY <1>2
  <2> QED BY <1>1, <1>12, <2>1, RunsKeeps DEF Query
<1>13. CASE Close(c)
  <2>1. {IF closed THEN <<>> ELSE <<"close">>} \subseteq Seq(Effects) BY <1>2, <1>3
  <2>2. closed' \in BOOLEAN /\ bracketed' \in BOOLEAN BY <1>1, <1>13 DEF Close
  <2> QED BY <1>13, <2>1, <2>2, RunsKeeps DEF Close
<1> QED BY <1>6, <1>7, <1>8, <1>9, <1>10, <1>11, <1>12, <1>13 DEF Body

\* A step that does a caller's first effect, leaves the lock alone, and leaves
\* the pipe holding nobody's offer or somebody else's.
LEMMA EffectKeeps ==
  ASSUME LockInv, NEW c \in Callers, call[c].effects # <<>>, EffectDone(c),
         UNCHANGED lock, closed' \in BOOLEAN, bracketed' \in BOOLEAN,
         reader' \in {"absent", "away", "reading", "eof"},
         pipe' \in [offer : Callers \cup {Nobody}, shut : BOOLEAN],
         pipe'.offer \in {Nobody, pipe.offer}, pipe'.offer # c
  PROVE  LockInv'
<1> DEFINE r == [call[c] EXCEPT !.effects = Tail(@)]
<1>1. call' = [call EXCEPT ![c] = r] /\ call'[c] = r
  BY DEF EffectDone, LockInv, Types
<1>2. call[c] \in [op : Ops, at : Stages, effects : Seq(Effects)]
  BY DEF LockInv, Types
<1>3. r \in [op : Ops, at : Stages, effects : Seq(Effects)]
      /\ r.op = call[c].op /\ r.at = call[c].at
  <2>1. Tail(call[c].effects) \in Seq(Effects) BY <1>2, TailTyped
  <2> QED BY <1>2, <2>1
<1>4. call[c].at = "effects" BY DEF LockInv, Quiet
<1> HIDE DEF r
<1>5. Types' BY <1>1, <1>3 DEF LockInv, Types
<1>6. ASSUME NEW d \in Callers, d # c PROVE call'[d] = call[d]
  BY <1>1, <1>6 DEF LockInv, Types
<1>7. ASSUME NEW d \in Callers PROVE Disciplined(d)' /\ Quiet(d)' /\ Offered(d)'
  <2>1. CASE d = c
    BY <1>1, <1>3, <1>4, <2>1 DEF LockInv, Disciplined, Quiet, Offered
  <2>2. CASE d # c
    BY <1>6, <2>2, NobodyCalls DEF LockInv, Disciplined, Quiet, Offered
  <2> QED BY <2>1, <2>2
<1> QED BY <1>5, <1>7 DEF LockInv

\* An effect is done: a callback, a write that fails or is taken, the end of the pipe.
LEMMA EffectsKeep ==
  ASSUME LockInv, NEW c \in Callers,
         Callback(c) \/ Fail(c) \/ ShutPipe(c) \/ Take(c)
  PROVE  LockInv'
<1> USE DEF Chunks
<1>1. pipe \in [offer : Callers \cup {Nobody}, shut : BOOLEAN]
      /\ closed \in BOOLEAN /\ bracketed \in BOOLEAN
      /\ reader \in {"absent", "away", "reading", "eof"}
  BY DEF LockInv, Types
<1>2. CASE Callback(c)
  <2>1. call[c].effects # <<>> /\ Head(call[c].effects) = "callback"
    BY <1>2 DEF Callback, Pending
  <2>2. pipe.offer # c BY <2>1 DEF LockInv, Offered
  <2> QED BY <1>1, <1>2, <2>1, <2>2, EffectKeeps DEF Callback
<1>3. CASE Fail(c)
  <2>1. call[c].effects # <<>> BY <1>3 DEF Fail, CanFail, Pending
  <2>2. pipe' = [pipe EXCEPT !.offer = IF @ = c THEN Nobody ELSE @] BY <1>3 DEF Fail, CanFail
  <2>3. pipe'.offer \in {Nobody, pipe.offer} /\ pipe'.offer # c
        /\ pipe' \in [offer : Callers \cup {Nobody}, shut : BOOLEAN]
    BY <1>1, <2>2, NobodyCalls
  <2> QED BY <1>1, <1>3, <2>1, <2>3, EffectKeeps DEF Fail, CanFail
<1>4. CASE ShutPipe(c)
  <2>1. call[c].effects # <<>> /\ Head(call[c].effects) = "close"
    BY <1>4 DEF ShutPipe, Pending
  <2>2. pipe.offer # c BY <2>1 DEF LockInv, Offered
  <2>3. pipe' = [pipe EXCEPT !.shut = TRUE] BY <1>4 DEF ShutPipe
  <2>4. pipe'.offer = pipe.offer
        /\ pipe' \in [offer : Callers \cup {Nobody}, shut : BOOLEAN]
    BY <1>1, <2>3
  <2> QED BY <1>1, <1>4, <2>1, <2>2, <2>4, EffectKeeps DEF ShutPipe
<1>5. CASE Take(c)
  <2>1. call[c].effects # <<>> BY <1>5 DEF Take, CanTake, LockInv, Offered
  <2>2. pipe' = [pipe EXCEPT !.offer = Nobody] BY <1>5 DEF Take, CanTake
  <2>3. pipe'.offer = Nobody /\ pipe' \in [offer : Callers \cup {Nobody}, shut : BOOLEAN]
    BY <1>1, <2>2
  <2> QED BY <1>1, <1>5, <2>1, <2>3, NobodyCalls, EffectKeeps DEF Take, CanTake
<1> QED BY <1>2, <1>3, <1>4, <1>5

\* A call offers its next chunk to the pipe.
LEMMA OfferKeeps ==
  ASSUME LockInv, NEW c \in Callers, Offer(c) PROVE LockInv'
<1>1. call[c].effects # <<>> /\ Head(call[c].effects) \in Chunks
  BY DEF Offer, CanOffer, Pending, Chunks
<1>2. pipe' = [pipe EXCEPT !.offer = c]
      /\ UNCHANGED <<lock, call, closed, bracketed, reader>>
  BY DEF Offer, CanOffer
<1>3. pipe'.offer = c BY <1>2 DEF LockInv, Types
<1>4. Types' BY <1>2 DEF LockInv, Types
<1> QED BY <1>1, <1>2, <1>3, <1>4 DEF LockInv, Disciplined, Quiet, Offered

\* A call returns and gives up its method's lock.
LEMMA ReturnKeeps ==
  ASSUME LockInv, NEW c \in Callers, Return(c) PROVE LockInv'
<1>1. call[c].at = "effects" /\ call[c].effects = <<>>
      /\ call' = [call EXCEPT ![c] = Idle]
      /\ UNCHANGED <<closed, bracketed, pipe, reader>>
  BY DEF Return, CanReturn
<1>2. call'[c] = Idle /\ \A d \in Callers : d # c => call'[d] = call[d]
  BY <1>1 DEF LockInv, Types
<1>3. Idle \in [op : Ops, at : Stages, effects : Seq(Effects)]
  <2>1. <<>> \in Seq(Effects) OBVIOUS
  <2> QED BY <2>1 DEF Idle, Ops, Stages
<1>4. Exclusive \cap Shared = {} BY DEF Exclusive, Shared
<1>5. pipe.offer # c BY <1>1 DEF LockInv, Offered
<1>6. CASE call[c].op \in Exclusive
  <2>1. lock.writer = c /\ lock.readers = {} BY <1>1, <1>6 DEF LockInv, Disciplined
  <2>2. lock' = [writer |-> Nobody, readers |-> lock.parked, parked |-> {}]
    BY <1>6 DEF Return, CanReturn, Mutex!Unlocked
  <2>3. Types' BY <1>1, <1>3, <2>2 DEF LockInv, Types
  <2>4. ASSUME NEW d \in Callers PROVE Disciplined(d)' /\ Quiet(d)' /\ Offered(d)'
    <3>1. CASE d = c
      BY <1>1, <1>2, <1>4, <1>5, <1>6, <2>2, <3>1, NobodyCalls
      DEF LockInv, Disciplined, Quiet, Offered, Idle
    <3>2. CASE d # c
      BY <1>1, <1>2, <1>4, <2>1, <2>2, <3>2, NobodyCalls
      DEF LockInv, Disciplined, Quiet, Offered
    <3> QED BY <3>1, <3>2
  <2> QED BY <2>3, <2>4 DEF LockInv
<1>7. CASE call[c].op \notin Exclusive /\ call[c].op \in Shared
  <2>1. lock' = [lock EXCEPT !.readers = @ \ {c}]
    BY <1>7 DEF Return, CanReturn, Mutex!RUnlocked
  <2>2. lock'.writer = lock.writer /\ lock'.parked = lock.parked
        /\ lock'.readers = lock.readers \ {c}
    BY <2>1 DEF LockInv, Types
  <2>3. Types' BY <1>1, <1>3, <2>1 DEF LockInv, Types
  <2>4. ASSUME NEW d \in Callers PROVE Disciplined(d)' /\ Quiet(d)' /\ Offered(d)'
    <3>1. CASE d = c
      BY <1>1, <1>2, <1>5, <1>7, <2>2, <3>1
      DEF LockInv, Disciplined, Quiet, Offered, Idle
    <3>2. CASE d # c
      BY <1>1, <1>2, <2>2, <3>2 DEF LockInv, Disciplined, Quiet, Offered
    <3> QED BY <3>1, <3>2
  <2> QED BY <2>3, <2>4 DEF LockInv
<1>8. CASE call[c].op \notin Exclusive \cup Shared
  <2>1. UNCHANGED lock BY <1>8 DEF Return, CanReturn
  <2>2. lock.writer # c /\ c \notin lock.readers \cup lock.parked
    BY <1>8 DEF LockInv, Disciplined
  <2>3. Disciplined(c)' /\ Quiet(c)' /\ Offered(c)'
    BY <1>1, <1>2, <1>5, <2>1, <2>2 DEF Disciplined, Quiet, Offered, Idle
  <2>4. closed' \in BOOLEAN /\ bracketed' \in BOOLEAN BY <1>1 DEF LockInv, Types
  <2> QED BY <1>1, <1>3, <2>1, <2>3, <2>4, OneCall
<1> QED BY <1>6, <1>7, <1>8

\* Every step preserves the invariant.
LEMMA LockPreserved == LockInv /\ [Next]_vars => LockInv'
<1> SUFFICES ASSUME LockInv, [Next]_vars PROVE LockInv' OBVIOUS
<1>1. CASE UNCHANGED vars
  BY <1>1 DEF vars, LockInv, Types, Disciplined, Quiet, Offered
<1>2. ASSUME NEW c \in Callers, Caller(c) PROVE LockInv'
  BY <1>2, KnownMethods, BeginKeeps, LockKeeps, RLockKeeps, EnterKeeps, BodyKeeps, EffectsKeep,
     OfferKeeps, ReturnKeeps DEF Caller
<1>3. ASSUME NEW c \in Callers, Take(c) PROVE LockInv'
  BY <1>3, EffectsKeep
<1>4. CASE Read \/ EndOfInput
  BY <1>4 DEF Read, CanRead, EndOfInput, CanEnd, LockInv, Types, Disciplined, Quiet, Offered
<1> QED BY <1>1, <1>2, <1>3, <1>4 DEF Next


----------------------------------------------------------------------------
\* The invariant says what TypeOK says.
LEMMA LockTyped == LockInv => TypeOK
<1> SUFFICES ASSUME LockInv PROVE TypeOK OBVIOUS
<1>1. Mutex!IsMutex(lock, Callers) BY DEF LockInv, Types, Mutex!IsMutex
<1>2. ASSUME NEW c \in Callers
      PROVE  /\ call[c].at \in {"outside", "lock", "body", "effects"}
             /\ call[c].at \in {"body", "effects"} =>
                  /\ call[c].op \in Exclusive => Mutex!Owns(lock, c)
                  /\ call[c].op \in Shared => Mutex!Shares(lock, c)
  BY DEF LockInv, Types, Stages, Disciplined, Mutex!Owns, Mutex!Shares
<1>3. pipe.offer # Nobody => Pending(pipe.offer) \in Chunks
  BY DEF LockInv, Types, Offered, Pending
<1> QED BY <1>1, <1>2, <1>3 DEF LockInv, Types, TypeOK

\* Every variable keeps its type, a call holds the lock of its method from its
\* body to its return, and only a call with something to write has an offer in
\* the pipe: for any callers and methods, promoted ones included.
THEOREM LockHeld == Spec => []TypeOK
<1> QED BY LockTyped, LockInit, LockPreserved, PTL DEF Spec

----------------------------------------------------------------------------
\* A caller is only ever in one of its methods.
InMethods == \A c \in Callers : call[c].op \in Methods[c] \cup {"none"}

\* Goroutines stay in their methods.
LEMMA MethodsPreserved == LockInv /\ InMethods /\ [Next]_vars => InMethods'
<1> SUFFICES ASSUME LockInv, InMethods, [Next]_vars PROVE InMethods' OBVIOUS
<1> USE DEF LockInv, Types, InMethods
<1>1. CASE UNCHANGED vars BY <1>1 DEF vars
<1>2. ASSUME NEW c \in Callers, NEW op \in Methods[c], Begin(c, op) PROVE InMethods'
  BY <1>2 DEF Begin
<1>3. ASSUME NEW c \in Callers, Lock(c) \/ RLock(c) \/ Enter(c) PROVE InMethods'
  <2>1. ASSUME NEW d \in Callers PROVE call'[d].op = call[d].op
    <3>1. CASE Lock(c) \/ RLock(c) BY <3>1 DEF Lock, CanLock, RLock, CanRLock
    <3>2. CASE Enter(c)
      <4>1. call' = [call EXCEPT ![c].at = "body"] BY <3>2 DEF Enter, CanEnter, Goes
      <4> QED BY <4>1
    <3> QED BY <1>3, <3>1, <3>2
  <2> QED BY <2>1
<1>4. ASSUME NEW c \in Callers, Body(c) PROVE InMethods'
  <2>1. ASSUME NEW ops, NEW outcomes, Runs(c, ops, outcomes) PROVE InMethods'
    BY <2>1 DEF Runs
  <2> QED BY <1>4, <2>1 DEF Body, Write, Resize, SendEvent, SendText, Paste,
          SetForegroundColor, Query, Close
<1>5. ASSUME NEW c \in Callers,
             Callback(c) \/ Offer(c) \/ Fail(c) \/ ShutPipe(c) \/ Take(c)
      PROVE  InMethods'
  <2>1. ASSUME NEW d \in Callers PROVE call'[d].op = call[d].op
    <3>1. CASE UNCHANGED call BY <3>1
    <3>2. CASE EffectDone(c)
      <4>1. call' = [call EXCEPT ![c].effects = Tail(call[c].effects)]
        BY <3>2 DEF EffectDone
      <4> QED BY <4>1
    <3>3. UNCHANGED call \/ EffectDone(c)
      BY <1>5 DEF Callback, Offer, CanOffer, Fail, CanFail, ShutPipe, Take, CanTake
    <3> QED BY <3>1, <3>2, <3>3
  <2> QED BY <2>1
<1>6. ASSUME NEW c \in Callers, Return(c) PROVE InMethods'
  BY <1>6 DEF Return, CanReturn, Idle
<1>7. CASE Read \/ EndOfInput BY <1>7 DEF Read, CanRead, EndOfInput, CanEnd
<1> QED BY <1>1, <1>2, <1>3, <1>4, <1>5, <1>6, <1>7 DEF Next, Caller

\* Who holds the lock keeps the others out.
LEMMA LockExcludes == LockInv => RaceFree
<1> SUFFICES ASSUME LockInv, NEW c \in Callers, NEW d \in Callers, c # d,
                    {call[c].op, call[d].op} \subseteq Wrapped,
                    Changing(c) # {}, Using(d) # {}
             PROVE  FALSE
  BY DEF RaceFree
<1>1. call[c].op # "Close" /\ call[c].op # "WriteString"
  BY DEF Wrapped
<1>2. call[c].at \in {"body", "effects"} /\ call[c].op \in Exclusive
  BY <1>1 DEF Changing, Doing, Exclusive
<1>3. call[d].op \notin {"Close", "WriteString", "Focus"}
  BY DEF Wrapped
<1>4. call[d].at \in {"body", "effects"} /\ call[d].op \in Exclusive \cup Shared
  BY <1>3 DEF Using, Doing, Exclusive, Shared
<1>5. lock.writer = c /\ lock.readers = {} BY <1>2 DEF LockInv, Disciplined
<1> QED BY <1>4, <1>5 DEF LockInv, Disciplined

\* Of any number of goroutines, none that is in a method SafeEmulator wraps uses
\* the terminal while another wrapped method changes it.
THEOREM WrappedIsRaceFree == Spec => []RaceFree
<1> QED BY LockExcludes, LockInit, LockPreserved, PTL DEF Spec


----------------------------------------------------------------------------
\* What each method has left to write.
Shaped(c) ==
  /\ call[c].op = "Paste" =>
       call[c].effects \in
         {<<"start", "text", "end">>, <<"text", "end">>, <<"end">>, <<"text">>, <<>>}
  /\ call[c].op \in Shared \cup {"none"} => call[c].effects = <<>>
  /\ call[c].op = "Close" => call[c].effects \in {<<>>, <<"close">>}
  /\ call[c].op \in Exclusive \ {"Paste"} =>
       call[c].effects \in Seq({"input", "callback"})

\* The paste the reader is in the middle of is that of a call which still has
\* the rest of it to write.
Unfinished(c) ==
  /\ call[c].op = "Paste"
  /\ \/ paste = <<Mark(c, "start")>> /\ call[c].effects = <<"text", "end">>
     \/ /\ paste = <<Mark(c, "start"), Mark(c, "text")>>
        /\ call[c].effects = <<"end">>

PasteInv ==
  /\ PasteIsWhole
  /\ PasteIsOpen /\ ~pipe.shut => \E c \in Callers : Unfinished(c)

Inv == LockInv /\ InMethods /\ (\A c \in Callers : Shaped(c)) /\ PasteInv

\* The rests of what a call may write.
LEMMA Tails ==
  /\ Tail(<<"start", "text", "end">>) = <<"text", "end">>
  /\ Tail(<<"text", "end">>) = <<"end">>
  /\ Tail(<<"end">>) = <<>> /\ Tail(<<"text">>) = <<>> /\ Tail(<<"close">>) = <<>>
OBVIOUS

\* The first chunks of what a call may write.
LEMMA Heads ==
  /\ Head(<<"start", "text", "end">>) = "start"
  /\ Head(<<"text", "end">>) = "text"
  /\ Head(<<"end">>) = "end" /\ Head(<<"text">>) = "text" /\ Head(<<"close">>) = "close"
OBVIOUS

\* How a paste that is read grows.
LEMMA Appends ==
  ASSUME NEW x, NEW y, NEW z
  PROVE  Append(<<x>>, y) = <<x, y>> /\ Append(<<x, y>>, z) = <<x, y, z>>
<1> DEFINE S == {x, y, z}
<1>1. /\ <<x>> \in Seq(S) /\ Len(<<x>>) = 1
      /\ <<x, y>> \in Seq(S) /\ Len(<<x, y>>) = 2
      /\ <<x, y, z>> \in Seq(S) /\ Len(<<x, y, z>>) = 3
  OBVIOUS
<1> HIDE DEF S
<1>2. x \in S /\ y \in S /\ z \in S BY DEF S
<1>3. Append(<<x>>, y) = <<x, y>>
  <2> DEFINE a == Append(<<x>>, y)
  <2>1. a \in Seq(S) /\ Len(a) = 2 /\ a[1] = x /\ a[2] = y
    BY <1>1, <1>2, AppendProperties
  <2> HIDE DEF a
  <2>2. a = <<x, y>> BY <1>1, <2>1, SeqEqual
  <2> QED BY <2>2 DEF a
<1>4. Append(<<x, y>>, z) = <<x, y, z>>
  <2> DEFINE a == Append(<<x, y>>, z)
  <2>1. a \in Seq(S) /\ Len(a) = 3 /\ a[1] = x /\ a[2] = y /\ a[3] = z
    BY <1>1, <1>2, AppendProperties
  <2> HIDE DEF a
  <2>2. a = <<x, y, z>> BY <1>1, <2>1, SeqEqual
  <2> QED BY <2>2 DEF a
<1> QED BY <1>3, <1>4

\* A bracketed paste is something to write.
LEMMA NotEmpty ==
  /\ <<"start", "text", "end">> # <<>> /\ <<"text", "end">> # <<>>
  /\ <<"end">> # <<>>
OBVIOUS

\* What a program is answered is input and callbacks.
LEMMA AnswersShaped == Answers \subseteq Seq({"input", "callback"})
<1>1. ASSUME NEW n \in 0 .. MaxEffects, NEW s \in [1 .. n -> {"input", "callback"}]
      PROVE  s \in Seq({"input", "callback"})
  <2>1. n \in Nat BY EffectsAreCounted
  <2> QED BY <2>1
<1> QED BY <1>1 DEF Answers

\* The short sequences of input and callbacks.
LEMMA InputShaped ==
  /\ <<>> \in Seq({"input", "callback"})
  /\ <<"input">> \in Seq({"input", "callback"})
  /\ <<"callback">> \in Seq({"input", "callback"})
  /\ <<"callback", "input">> \in Seq({"input", "callback"})
OBVIOUS

\* A body has nothing to write before, and one of its outcomes after.
LEMMA RunsShaped ==
  ASSUME Inv, NEW c \in Callers, NEW ops, NEW outcomes, Runs(c, ops, outcomes)
  PROVE  /\ call[c].op \in ops /\ call[c].effects = <<>>
         /\ call'[c].op = call[c].op /\ call'[c].effects \in outcomes
         /\ \A d \in Callers \ {c} : call'[d] = call[d]
<1>1. PICK e \in outcomes :
        call' = [call EXCEPT ![c].at = "effects", ![c].effects = e]
  BY DEF Runs
<1>2. call[c].op \in ops /\ call[c].at = "body" BY DEF Runs, Doing
<1>3. call[c].effects = <<>> BY <1>2 DEF Inv, LockInv, Quiet
<1> QED BY <1>1, <1>2, <1>3 DEF Inv, LockInv, Types

\* A body that does not paste has only input and callbacks to write.
LEMMA RunsInput ==
  ASSUME Inv, NEW c \in Callers, NEW ops, NEW outcomes, Runs(c, ops, outcomes),
         outcomes \subseteq Seq({"input", "callback"}),
         ops \subseteq Exclusive \cup {"WriteString", "Focus"}, "Paste" \notin ops,
         call[c].op \notin {"WriteString", "Focus"}
  PROVE  Shaped(c)'
<1>1. call'[c].op \in Exclusive \ {"Paste"}
      /\ call'[c].effects \in Seq({"input", "callback"})
  BY RunsShaped
<1> QED BY <1>1 DEF Shaped, Shared, Exclusive

\* Every step keeps what each method has left to write.
LEMMA ShapePreserved ==
  ASSUME Inv, [Next]_vars, \A c \in Callers : Methods[c] \subseteq Wrapped \cup {"Close"},
         NEW d \in Callers
  PROVE  Shaped(d)'
<1>0. Shaped(d) BY DEF Inv
<1>1. CASE call'[d] = call[d] BY <1>0, <1>1 DEF Shaped
<1>2. ASSUME NEW op \in Methods[d], Begin(d, op) PROVE Shaped(d)'
  <2>1. call'[d].effects = <<>> /\ call'[d].op = op
    BY <1>2 DEF Begin, Inv, LockInv, Types
  <2>2. op # "none" BY DEF Wrapped
  <2> QED BY <2>1, InputShaped DEF Shaped
<1>3. CASE Enter(d)
  <2>1. call'[d].effects = call[d].effects /\ call'[d].op = call[d].op
    BY <1>3 DEF Enter, CanEnter, Goes, Inv, LockInv, Types
  <2> QED BY <1>0, <2>1 DEF Shaped
<1>4. CASE Body(d)
  <2>1. call[d].op \notin {"WriteString", "Focus"} BY DEF Inv, InMethods, Wrapped
  <2>2. CASE Write(d)
    <3>2. {"Write", "WriteString"} \subseteq Exclusive \cup {"WriteString", "Focus"} BY DEF Exclusive
    <3>3. Runs(d, {"Write", "WriteString"}, IF closed THEN {<<>>} ELSE Answers)
      BY <2>2 DEF Write
    <3>4. CASE closed
      <4>1. Runs(d, {"Write", "WriteString"}, {<<>>}) BY <3>3, <3>4
      <4>2. {<<>>} \subseteq Seq({"input", "callback"}) BY InputShaped
      <4> QED BY <2>1, <3>2, <4>1, <4>2, RunsInput
    <3>5. CASE ~closed
      <4>1. Runs(d, {"Write", "WriteString"}, Answers) BY <3>3, <3>5
      <4> QED BY <2>1, <3>2, <4>1, AnswersShaped, RunsInput
    <3> QED BY <3>4, <3>5
  <2>3. CASE Resize(d)
    <3> DEFINE O == {<<>>, <<"input">>, <<"callback">>, <<"callback", "input">>}
    <3>1. O \subseteq Seq({"input", "callback"}) BY InputShaped
    <3>2. {"Resize"} \subseteq Exclusive \cup {"WriteString", "Focus"} BY DEF Exclusive
    <3>3. Runs(d, {"Resize"}, O) BY <2>3 DEF Resize
    <3> HIDE DEF O
    <3> QED BY <2>1, <3>1, <3>2, <3>3, RunsInput
  <2>4. CASE SendEvent(d)
    <3>1. {<<>>, <<"input">>} \subseteq Seq({"input", "callback"})
      BY AnswersShaped, InputShaped
    <3>2. {"SendKey", "SendMouse", "Focus"} \subseteq Exclusive \cup {"WriteString", "Focus"} BY DEF Exclusive
    <3> QED BY <2>4, <3>1, <3>2, <2>1, RunsInput DEF SendEvent
  <2>5. CASE SendText(d)
    <3>1. {<<"input">>} \subseteq Seq({"input", "callback"})
      BY AnswersShaped, InputShaped
    <3>2. {"SendText"} \subseteq Exclusive \cup {"WriteString", "Focus"} BY DEF Exclusive
    <3> QED BY <2>5, <3>1, <3>2, <2>1, RunsInput DEF SendText
  <2>6. CASE Paste(d)
    <3>1. call'[d].op = "Paste"
          /\ call'[d].effects \in {<<"start", "text", "end">>, <<"text">>}
      BY <2>6, RunsShaped DEF Paste, Bracketed
    <3> QED BY <3>1 DEF Shaped, Shared
  <2>7. CASE SetForegroundColor(d)
    <3>1. {<<"callback">>, <<>>} \subseteq Seq({"input", "callback"})
      BY AnswersShaped, InputShaped
    <3>2. {"SetForegroundColor"} \subseteq Exclusive \cup {"WriteString", "Focus"} BY DEF Exclusive
    <3> QED BY <2>7, <3>1, <3>2, <2>1, RunsInput DEF SetForegroundColor
  <2>8. CASE Query(d)
    <3>1. call'[d].op \in Shared /\ call'[d].effects = <<>>
      BY <2>8, RunsShaped DEF Query
    <3> QED BY <3>1 DEF Shaped, Shared, Exclusive
  <2>9. CASE Close(d)
    <3>1. call'[d].op = "Close" /\ call'[d].effects \in {<<>>, <<"close">>}
      BY <2>9, RunsShaped DEF Close
    <3> QED BY <3>1 DEF Shaped, Shared, Exclusive
  <2> QED BY <1>4, <2>2, <2>3, <2>4, <2>5, <2>6, <2>7, <2>8, <2>9 DEF Body
<1>5. CASE EffectDone(d) /\ call[d].effects # <<>>
  <2>1. call'[d].op = call[d].op /\ call'[d].effects = Tail(call[d].effects)
    BY <1>5 DEF EffectDone, Inv, LockInv, Types
  <2>2. CASE call[d].op = "Paste"
    <3>1. call'[d].effects \in {<<"text", "end">>, <<"end">>, <<>>}
      BY <1>0, <1>5, <2>1, <2>2, Tails DEF Shaped
    <3> QED BY <2>1, <2>2, <3>1 DEF Shaped, Shared
  <2>3. CASE call[d].op \in Exclusive \ {"Paste"}
    <3>1. call'[d].effects \in Seq({"input", "callback"})
      BY <1>0, <1>5, <2>1, <2>3 DEF Shaped
    <3> QED BY <2>1, <2>3, <3>1 DEF Shaped, Shared, Exclusive
  <2>4. CASE call[d].op = "Close"
    <3>1. call'[d].effects = <<>> BY <1>0, <1>5, <2>1, <2>4, Tails DEF Shaped
    <3> QED BY <2>1, <2>4, <3>1 DEF Shaped, Shared, Exclusive
  <2>5. call[d].op \in Exclusive \cup {"Close"}
    BY <1>0, <1>5 DEF Shaped, Inv, InMethods, Wrapped, Exclusive, Shared
  <2> QED BY <2>2, <2>3, <2>4, <2>5
<1>6. CASE Return(d)
  <2>1. call'[d].op = "none" /\ call'[d].effects = <<>>
    BY <1>6 DEF Return, CanReturn, Idle, Inv, LockInv, Types
  <2> QED BY <2>1 DEF Shaped, Shared, Exclusive
<1>7. \/ call'[d] = call[d] \/ \E op \in Methods[d] : Begin(d, op)
      \/ Enter(d) \/ Body(d) \/ Return(d)
      \/ EffectDone(d) /\ call[d].effects # <<>>
  <2>1. ASSUME NEW c \in Callers, c # d, Caller(c) \/ Take(c)
        PROVE  call'[d] = call[d]
    <3>1. CASE Body(c)
      <4>1. ASSUME NEW ops, NEW outcomes, Runs(c, ops, outcomes)
            PROVE  call'[d] = call[d]
        BY <2>1, <4>1, RunsShaped
      <4> QED BY <3>1, <4>1 DEF Body, Write, Resize, SendEvent, SendText, Paste,
              SetForegroundColor, Query, Close
    <3>2. CASE EffectDone(c)
      BY <2>1, <3>2 DEF EffectDone, Inv, LockInv, Types
    <3>3. CASE UNCHANGED call BY <3>3
    <3>4. ASSUME NEW op, Begin(c, op) PROVE call'[d] = call[d]
      BY <2>1, <3>4 DEF Begin, Inv, LockInv, Types
    <3>5. CASE Enter(c) \/ Return(c)
      BY <2>1, <3>5 DEF Enter, CanEnter, Return, CanReturn, Goes, Inv, LockInv, Types
    <3> QED BY <2>1, <3>1, <3>2, <3>3, <3>4, <3>5
            DEF Caller, Lock, CanLock, RLock, CanRLock, Callback, Offer, CanOffer, Fail, CanFail, ShutPipe, Take, CanTake
  <2>2. CASE Caller(d) \/ Take(d)
    <3>1. ASSUME Callback(d) \/ Fail(d) \/ ShutPipe(d)
          PROVE  EffectDone(d) /\ call[d].effects # <<>>
      BY <3>1 DEF Callback, Fail, CanFail, ShutPipe, Pending, Chunks
    <3>2. ASSUME Take(d) PROVE EffectDone(d) /\ call[d].effects # <<>>
      BY <3>2 DEF Take, CanTake, Inv, LockInv, Offered
    <3> QED BY <2>2, <3>1, <3>2 DEF Caller, Lock, CanLock, RLock, CanRLock, Offer, CanOffer
  <2>3. CASE Read \/ EndOfInput \/ UNCHANGED vars
    BY <2>3 DEF Read, CanRead, EndOfInput, CanEnd, vars
  <2> QED BY <2>1, <2>2, <2>3 DEF Next
<1> QED BY <1>1, <1>2, <1>3, <1>4, <1>5, <1>6, <1>7


\* A step that neither reads from the pipe nor touches what the unfinished paste
\* has left to write leaves the paste as it is.
LEMMA PasteUntouched ==
  ASSUME Inv, UNCHANGED paste, pipe.shut => pipe'.shut,
         \A c \in Callers : call[c].op = "Paste" /\ call[c].effects # <<>> /\ ~pipe'.shut
           => call'[c].op = call[c].op /\ call'[c].effects = call[c].effects
  PROVE  PasteInv'
<1>1. PasteIsWhole' BY DEF Inv, PasteInv, PasteIsWhole, Mark
<1>2. ASSUME PasteIsOpen', ~pipe'.shut PROVE \E c \in Callers : Unfinished(c)'
  <2>1. PasteIsOpen BY <1>2 DEF PasteIsOpen
  <2>2. PICK c \in Callers : Unfinished(c) BY <1>2, <2>1 DEF Inv, PasteInv
  <2>3. call[c].op = "Paste" /\ call[c].effects # <<>>
    BY <2>2, NotEmpty DEF Unfinished
  <2>4. Unfinished(c)' BY <1>2, <2>2, <2>3 DEF Unfinished, Mark
  <2> QED BY <2>4
<1> QED BY <1>1, <1>2 DEF PasteInv

\* What a reader takes is the next chunk of the call that has the lock.
LEMMA TakeKeepsPaste ==
  ASSUME Inv, NEW c \in Callers, Take(c),
         \A d \in Callers : Methods[d] \subseteq Wrapped \cup {"Close"}
  PROVE  PasteInv'
<1>1. pipe.offer = c /\ ~pipe.shut /\ pipe'.shut = pipe.shut
  BY DEF Take, CanTake, Inv, LockInv, Types
<1>2. call[c].effects # <<>> /\ Head(call[c].effects) \in Chunks
      /\ Pending(c) = Head(call[c].effects)
  BY <1>1 DEF Inv, LockInv, Offered, Pending
<1>3. call'[c].op = call[c].op /\ call'[c].effects = Tail(call[c].effects)
  BY DEF Take, CanTake, EffectDone, Inv, LockInv, Types
<1>4. call[c].at = "effects" BY <1>2 DEF Inv, LockInv, Quiet
<1>5. call[c].op \in Exclusive
  <2>1. call[c].op \in Wrapped \cup {"Close", "none"} BY DEF Inv, InMethods
  <2>2. call[c].op # "Close" BY <1>2, Heads DEF Inv, Shaped, Chunks
  <2>3. call[c].op \notin Shared \cup {"none"} BY <1>2 DEF Inv, Shaped
  <2> QED BY <2>1, <2>2, <2>3 DEF Wrapped, Exclusive, Shared
<1>6. lock.writer = c BY <1>4, <1>5 DEF Inv, LockInv, Disciplined
<1> DEFINE read == Mark(c, Head(call[c].effects))
<1>7. paste' = CASE PasteIsOpen -> Append(paste, read)
                 [] ~PasteIsOpen /\ read.chunk = "start" -> <<read>>
                 [] OTHER -> <<>>
  BY <1>2 DEF Take, CanTake
<1>8. CASE PasteIsOpen
  <2>1. PICK d \in Callers : Unfinished(d) BY <1>1, <1>8 DEF Inv, PasteInv
  <2>2. call[d].op = "Paste" /\ call[d].effects # <<>>
    BY <2>1, NotEmpty DEF Unfinished
  <2>3. call[d].at = "effects" BY <2>2 DEF Inv, LockInv, Quiet
  <2>4. d = c BY <1>6, <2>2, <2>3 DEF Inv, LockInv, Disciplined, Exclusive
  <2>5. paste' = Append(paste, read) BY <1>7, <1>8
  <2>6. CASE paste = <<Mark(c, "start")>> /\ call[c].effects = <<"text", "end">>
    <3>1. read = Mark(c, "text") BY <2>6, Heads
    <3>2. paste' = <<Mark(c, "start"), Mark(c, "text")>> BY <2>5, <2>6, <3>1, Appends
    <3>3. call'[c].effects = <<"end">> BY <1>3, <2>6, Tails
    <3>4. Unfinished(c)' BY <1>3, <2>2, <2>4, <3>2, <3>3 DEF Unfinished, Mark
    <3>5. PasteIsWhole' BY <3>2 DEF PasteIsWhole, Mark
    <3> QED BY <3>4, <3>5 DEF PasteInv
  <2>7. CASE paste = <<Mark(c, "start"), Mark(c, "text")>> /\ call[c].effects = <<"end">>
    <3>1. read = Mark(c, "end") BY <2>7, Heads
    <3>2. paste' = <<Mark(c, "start"), Mark(c, "text"), Mark(c, "end")>>
      BY <2>5, <2>7, <3>1, Appends
    <3>3. Len(paste') = 3 /\ paste'[3].chunk = "end" BY <3>2 DEF Mark
    <3>4. ~PasteIsOpen' BY <3>3 DEF PasteIsOpen
    <3>5. PasteIsWhole' BY <3>2 DEF PasteIsWhole, Mark
    <3> QED BY <3>4, <3>5 DEF PasteInv
  <2> QED BY <2>1, <2>4, <2>6, <2>7 DEF Unfinished
<1>9. CASE ~PasteIsOpen /\ read.chunk = "start"
  <2>1. Head(call[c].effects) = "start" BY <1>9 DEF Mark
  <2>2. call[c].op = "Paste"
    <3>1. CASE call[c].op \in Exclusive \ {"Paste"}
      <4>1. call[c].effects \in Seq({"input", "callback"}) BY <3>1 DEF Inv, Shaped
      <4>2. Head(call[c].effects) \in {"input", "callback"} BY <1>2, <4>1
      <4> QED BY <2>1, <4>2
    <3> QED BY <1>5, <3>1
  <2>3. call[c].effects = <<"start", "text", "end">>
    BY <1>2, <2>1, <2>2, Heads DEF Inv, Shaped
  <2>4. paste' = <<Mark(c, "start")>> BY <1>7, <1>9, <2>1
  <2>5. call'[c].effects = <<"text", "end">> BY <1>3, <2>3, Tails
  <2>6. Unfinished(c)' BY <1>3, <2>2, <2>4, <2>5 DEF Unfinished, Mark
  <2>7. PasteIsWhole' BY <2>4 DEF PasteIsWhole, Mark
  <2> QED BY <2>6, <2>7 DEF PasteInv
<1>10. CASE ~PasteIsOpen /\ read.chunk # "start"
  <2>1. paste' = <<>> BY <1>7, <1>10
  <2> QED BY <2>1 DEF PasteInv, PasteIsWhole, PasteIsOpen
<1> QED BY <1>8, <1>9, <1>10

\* Every step keeps pastes whole.
LEMMA InvPreserved ==
  ASSUME Inv, [Next]_vars, \A c \in Callers : Methods[c] \subseteq Wrapped \cup {"Close"}
  PROVE  Inv'
<1>1. LockInv' /\ InMethods' BY LockPreserved, MethodsPreserved DEF Inv
<1>2. \A c \in Callers : Shaped(c)' BY ShapePreserved
<1>3. PasteInv'
  <2>1. CASE UNCHANGED vars BY <2>1, PasteUntouched DEF vars
  <2>2. CASE Read \/ EndOfInput BY <2>2, PasteUntouched DEF Read, CanRead, EndOfInput, CanEnd
  <2>3. ASSUME NEW c \in Callers, Take(c) PROVE PasteInv' BY <2>3, TakeKeepsPaste
  <2>4. ASSUME NEW c \in Callers, NEW op, Begin(c, op) PROVE PasteInv'
    <3>1. call[c].op = "none" /\ \A d \in Callers : d # c => call'[d] = call[d]
      BY <2>4 DEF Begin, Idle, Inv, LockInv, Types
    <3> QED BY <2>4, <3>1, PasteUntouched DEF Begin
  <2>5. ASSUME NEW c \in Callers, Lock(c) \/ RLock(c) \/ Offer(c) PROVE PasteInv'
    <3>1. UNCHANGED <<call, paste>> /\ pipe'.shut = pipe.shut
      BY <2>5 DEF Lock, CanLock, RLock, CanRLock, Offer, CanOffer, Inv, LockInv, Types
    <3> QED BY <3>1, PasteUntouched
  <2>6. ASSUME NEW c \in Callers, Enter(c) PROVE PasteInv'
    <3>1. \A d \in Callers : call'[d].op = call[d].op /\ call'[d].effects = call[d].effects
      BY <2>6 DEF Enter, CanEnter, Goes, Inv, LockInv, Types
    <3> QED BY <2>6, <3>1, PasteUntouched DEF Enter, CanEnter
  <2>7. ASSUME NEW c \in Callers, Body(c) PROVE PasteInv'
    <3>1. ASSUME NEW ops, NEW outcomes, Runs(c, ops, outcomes) PROVE PasteInv'
      <4>1. call[c].effects = <<>> /\ \A d \in Callers \ {c} : call'[d] = call[d]
        BY <3>1, RunsShaped
      <4> QED BY <3>1, <4>1, PasteUntouched DEF Runs
    <3> QED BY <2>7, <3>1 DEF Body, Write, Resize, SendEvent, SendText, Paste,
            SetForegroundColor, Query, Close
  <2>8. ASSUME NEW c \in Callers, Callback(c) PROVE PasteInv'
    <3>1. call[c].effects # <<>> /\ Head(call[c].effects) = "callback"
      BY <2>8 DEF Callback, Pending
    <3>2. call[c].op # "Paste" BY <3>1, Heads DEF Inv, Shaped
    <3>3. \A d \in Callers : d # c => call'[d] = call[d]
      BY <2>8 DEF Callback, EffectDone, Inv, LockInv, Types
    <3> QED BY <2>8, <3>2, <3>3, PasteUntouched DEF Callback
  <2>9. ASSUME NEW c \in Callers, Fail(c) \/ ShutPipe(c) PROVE PasteInv'
    <3>1. UNCHANGED paste /\ pipe'.shut
      BY <2>9 DEF Fail, CanFail, ShutPipe, Inv, LockInv, Types
    <3> QED BY <3>1, PasteUntouched
  <2>10. ASSUME NEW c \in Callers, Return(c) PROVE PasteInv'
    <3>1. call[c].effects = <<>> /\ \A d \in Callers : d # c => call'[d] = call[d]
      BY <2>10 DEF Return, CanReturn, Inv, LockInv, Types
    <3> QED BY <2>10, <3>1, PasteUntouched DEF Return, CanReturn
  <2> QED BY <2>1, <2>2, <2>3, <2>4, <2>5, <2>6, <2>7, <2>8, <2>9, <2>10
          DEF Next, Caller
<1> QED BY <1>1, <1>2, <1>3 DEF Inv

\* However the goroutines that write, type, paste, render and close interleave,
\* what is read between the marks of a bracketed paste is one paste.
THEOREM PastesAreWhole ==
  ASSUME \A c \in Callers : Methods[c] \subseteq Wrapped \cup {"Close"}
  PROVE  Spec => []PasteIsWhole
<1>1. Init => Inv
  <2> SUFFICES ASSUME Init PROVE Inv OBVIOUS
  <2>1. LockInv BY LockInit
  <2>2. ASSUME NEW c \in Callers PROVE call[c].op = "none" /\ call[c].effects = <<>>
    BY DEF Init, Idle
  <2>3. InMethods BY <2>2 DEF InMethods
  <2>4. ASSUME NEW c \in Callers PROVE Shaped(c)
    BY <2>2 DEF Shaped, Exclusive
  <2>5. PasteInv BY DEF Init, PasteInv, PasteIsWhole, PasteIsOpen
  <2> QED BY <2>1, <2>3, <2>4, <2>5 DEF Inv
<1>2. Inv /\ [Next]_vars => Inv' BY InvPreserved
<1>3. Inv => PasteIsWhole BY DEF Inv, PasteInv
<1> QED BY <1>1, <1>2, <1>3, PTL DEF Spec

----------------------------------------------------------------------------
\* Why nobody waits for ever on another who waits. What a call is doing says what
\* it is: nothing, a call of a method with a lock, or one with something left to
\* do, and methods that only look have nothing left once they have looked.
Staged(c) ==
  /\ call[c].at = "outside" <=> call[c].op = "none"
  /\ call[c].at = "lock" => call[c].op \in Exclusive \cup Shared
  /\ call[c].op \in Shared => call[c].effects = <<>>
  /\ call[c].op \in {"Close", "Focus"} =>
       call[c].effects \in {<<>>, <<"close">>, <<"input">>}

\* A share of the lock is put off only for a writer.
PutOff == lock.parked # {} => lock.writer # Nobody

\* What was closed is shut, or about to be by the call that closed it, and the
\* reader gives up only then.
Closing(c) == call[c].effects # <<>> /\ Head(call[c].effects) = "close"
Closes ==
  /\ reader = "eof" => closed \/ pipe.shut
  /\ closed /\ ~pipe.shut => \E c \in Callers : Closing(c)

WaitInv == LockInv /\ (\A c \in Callers : Staged(c)) /\ PutOff /\ Closes

\* At first nobody waits.
LEMMA WaitStart == Init => WaitInv
<1> SUFFICES ASSUME Init PROVE WaitInv OBVIOUS
<1>1. LockInv BY LockInit
<1>2. ASSUME NEW c \in Callers PROVE Staged(c)
  BY DEF Init, Idle, Staged, Exclusive, Shared
<1>3. reader # "eof" BY ReadersExistOrNot DEF Init
<1>4. PutOff /\ Closes BY <1>3 DEF Init, Mutex!Free, PutOff, Closes
<1> QED BY <1>1, <1>2, <1>4 DEF WaitInv

\* A step that leaves every other call, the end of the pipe and the lock as they
\* are, and is not the one that shuts the pipe, keeps the call that will.
LEMMA ClosesKept ==
  ASSUME LockInv, Closes, NEW c \in Callers,
         \A d \in Callers : d # c => call'[d] = call[d],
         Closing(c) => Closing(c)',
         closed' = closed, pipe'.shut = pipe.shut, reader' \in {reader, "away"}
  PROVE  Closes'
BY DEF Closes, Closing

\* A goroutine that calls a method.
LEMMA BeginWaits ==
  ASSUME WaitInv, NEW c \in Callers, NEW op \in Wrapped \cup Promoted, Begin(c, op)
  PROVE  WaitInv'
<1>1. LockInv' BY BeginKeeps DEF WaitInv
<1>2. /\ call[c] = Idle /\ UNCHANGED <<lock, closed, pipe, reader>>
      /\ call' = [call EXCEPT
           ![c] = [op |-> op, effects |-> <<>>,
                   at |-> IF op \in Exclusive \cup Shared THEN "lock" ELSE "body"]]
  BY DEF Begin
<1>3. /\ call'[c] = [op |-> op, effects |-> <<>>,
                     at |-> IF op \in Exclusive \cup Shared THEN "lock" ELSE "body"]
      /\ \A d \in Callers : d # c => call'[d] = call[d]
  BY <1>2 DEF WaitInv, LockInv, Types
<1>4. ~Closing(c) BY <1>2 DEF Idle, Closing
<1>5. ASSUME NEW d \in Callers PROVE Staged(d)'
  BY <1>3 DEF WaitInv, Staged, Wrapped, Promoted
<1>6. Closes' BY <1>2, <1>3, <1>4, ClosesKept DEF WaitInv
<1> QED BY <1>1, <1>2, <1>5, <1>6 DEF WaitInv, PutOff

\* A call that comes in through the lock.
LEMMA LockWaits ==
  ASSUME WaitInv, NEW c \in Callers, Lock(c) \/ RLock(c) \/ Enter(c) PROVE WaitInv'
<1>1. LockInv' BY LockKeeps, RLockKeeps, EnterKeeps DEF WaitInv
<1>2. UNCHANGED <<closed, pipe, reader>> /\ call[c].at = "lock"
  BY DEF Lock, CanLock, RLock, CanRLock, Enter, CanEnter, Doing
<1>3. call' = call \/ call' = [call EXCEPT ![c].at = "body"]
  BY DEF Lock, RLock, Enter, Goes
<1>4. /\ call'[c].op = call[c].op /\ call'[c].effects = call[c].effects
      /\ call'[c].at \in {"lock", "body"}
      /\ \A d \in Callers : d # c => call'[d] = call[d]
  BY <1>2, <1>3 DEF WaitInv, LockInv, Types
<1>5. ASSUME NEW d \in Callers PROVE Staged(d)' BY <1>2, <1>4 DEF WaitInv, Staged
<1>6. Closes' BY <1>2, <1>4, ClosesKept DEF WaitInv, Closing
<1>7. PutOff'
  <2>1. CASE Lock(c)
    <3>1. lock' = [lock EXCEPT !.writer = c] BY <2>1 DEF Lock, Mutex!Announced
    <3> QED BY <3>1, NobodyCalls DEF PutOff, WaitInv, LockInv, Types
  <2>2. CASE RLock(c)
    <3>1. lock' = IF lock.writer = Nobody
                    THEN [lock EXCEPT !.readers = @ \cup {c}]
                    ELSE [lock EXCEPT !.parked = @ \cup {c}]
      BY <2>2 DEF RLock, Mutex!RLocked
    <3> QED BY <3>1 DEF PutOff, WaitInv, LockInv, Types
  <2>3. CASE Enter(c) BY <2>3 DEF Enter, PutOff, WaitInv
  <2> QED BY <2>1, <2>2, <2>3
<1> QED BY <1>1, <1>5, <1>6, <1>7 DEF WaitInv

\* What a body leaves a call with.
LEMMA RunsLeave ==
  ASSUME LockInv, NEW c \in Callers, NEW ops, NEW outcomes, Runs(c, ops, outcomes)
  PROVE  /\ call[c].op \in ops /\ ~Closing(c) /\ call[c].at = "body"
         /\ call'[c].op = call[c].op /\ call'[c].effects \in outcomes
         /\ call'[c].at = "effects"
         /\ \A d \in Callers : d # c => call'[d] = call[d]
         /\ UNCHANGED <<lock, pipe, reader>>
<1>1. PICK e \in outcomes :
        call' = [call EXCEPT ![c].at = "effects", ![c].effects = e]
  BY DEF Runs
<1>2. call[c].op \in ops /\ call[c].at = "body" /\ UNCHANGED <<lock, pipe, reader>>
  BY DEF Runs, Doing
<1>3. call[c].effects = <<>> BY <1>2 DEF LockInv, Quiet
<1> QED BY <1>1, <1>2, <1>3 DEF LockInv, Types, Closing

\* The body of a call.
LEMMA BodyWaits == ASSUME WaitInv, NEW c \in Callers, Body(c) PROVE WaitInv'
<1>1. LockInv' BY BodyKeeps DEF WaitInv
<1>2. /\ ~Closing(c) /\ call'[c].op = call[c].op /\ call'[c].at = "effects"
      /\ \A d \in Callers : d # c => call'[d] = call[d]
      /\ UNCHANGED <<lock, pipe, reader>>
  BY RunsLeave DEF WaitInv, Body, Write, Resize, SendEvent, SendText, Paste,
     SetForegroundColor, Query, Close
<1>3. Staged(c)'
  <2>1. CASE Write(c) \/ Resize(c) \/ SendText(c) \/ Paste(c) \/ SetForegroundColor(c)
    <3>1. call[c].op \in {"Write", "WriteString", "Resize", "SendText", "Paste",
                          "SetForegroundColor"}
      BY <2>1, RunsLeave
         DEF WaitInv, Write, Resize, SendText, Paste, SetForegroundColor
    <3> QED BY <1>2, <3>1 DEF Staged, Shared
  <2>2. CASE SendEvent(c)
    <3>1. /\ call[c].op \in {"SendKey", "SendMouse", "Focus"}
          /\ call'[c].effects \in {<<>>, <<"input">>}
      BY <2>2, RunsLeave DEF WaitInv, SendEvent
    <3> QED BY <1>2, <3>1 DEF Staged, Shared
  <2>3. CASE Query(c)
    <3>1. call[c].op \in Shared /\ call'[c].effects \in {<<>>}
      BY <2>3, RunsLeave DEF WaitInv, Query
    <3> QED BY <1>2, <3>1 DEF Staged, Shared
  <2>4. CASE Close(c)
    <3>1. /\ call[c].op \in {"Close"}
          /\ call'[c].effects \in {IF closed THEN <<>> ELSE <<"close">>}
      BY <2>4, RunsLeave DEF WaitInv, Close
    <3> QED BY <1>2, <3>1 DEF Staged, Shared
  <2> QED BY <2>1, <2>2, <2>3, <2>4 DEF Body
<1>4. ASSUME NEW d \in Callers PROVE Staged(d)' BY <1>2, <1>3 DEF WaitInv, Staged
<1>5. Closes'
  <2>1. CASE closed' = closed BY <1>2, <2>1, ClosesKept DEF WaitInv
  <2>2. CASE closed' # closed
    <3>1. Close(c) /\ ~closed
      BY <2>2 DEF Body, Write, Resize, SendEvent, SendText, Paste, SetForegroundColor,
                  Query, Close, WaitInv, LockInv, Types
    <3>2. call'[c].effects \in {IF closed THEN <<>> ELSE <<"close">>} /\ closed'
      BY <3>1, RunsLeave DEF WaitInv, Close
    <3>3. Closing(c)' BY <3>1, <3>2 DEF Closing
    <3> QED BY <3>2, <3>3 DEF Closes
  <2> QED BY <2>1, <2>2
<1> QED BY <1>1, <1>2, <1>4, <1>5 DEF WaitInv, PutOff

\* A call that does its next effect.
LEMMA EffectWaits ==
  ASSUME WaitInv, NEW c \in Callers, Callback(c) \/ Fail(c) \/ ShutPipe(c) \/ Take(c)
  PROVE  WaitInv'
<1>1. LockInv' BY EffectsKeep DEF WaitInv
<1>2. EffectDone(c) /\ UNCHANGED <<lock, closed>> /\ reader' \in {reader, "away"}
  BY DEF Callback, Fail, ShutPipe, Take
<1>3. /\ call'[c].op = call[c].op /\ call'[c].at = call[c].at
      /\ call'[c].effects = Tail(call[c].effects)
      /\ \A d \in Callers : d # c => call'[d] = call[d]
  BY <1>2 DEF EffectDone, WaitInv, LockInv, Types
<1>4. call[c].effects # <<>> /\ call[c].at = "effects"
  <2>1. call[c].effects # <<>>
    BY DEF Callback, Fail, CanFail, ShutPipe, Take, CanTake, Pending, Chunks, WaitInv,
           LockInv, Offered
  <2> QED BY <2>1 DEF WaitInv, LockInv, Types, Quiet
<1>5. Staged(c)'
  <2>1. Tail(<<"close">>) = <<>> /\ Tail(<<"input">>) = <<>> OBVIOUS
  <2> QED BY <1>3, <1>4, <2>1 DEF WaitInv, Staged
<1>6. ASSUME NEW d \in Callers PROVE Staged(d)' BY <1>3, <1>5 DEF WaitInv, Staged
<1>7. Closes'
  <2>1. CASE ShutPipe(c)
    <3>1. pipe'.shut /\ reader' = reader BY <2>1 DEF ShutPipe, WaitInv, LockInv, Types
    <3> QED BY <3>1 DEF Closes
  <2>2. CASE Callback(c) \/ Fail(c) \/ Take(c)
    <3>1. pipe'.shut = pipe.shut
      BY <2>2 DEF Callback, Fail, Take, WaitInv, LockInv, Types
    <3>2. ~Closing(c)
      BY <1>4, <2>2 DEF Callback, Fail, CanFail, Take, CanTake, Pending, Chunks, Closing,
                        WaitInv, LockInv, Offered
    <3> QED BY <1>2, <1>3, <3>1, <3>2, ClosesKept DEF WaitInv
  <2> QED BY <2>1, <2>2
<1> QED BY <1>1, <1>2, <1>6, <1>7 DEF WaitInv, PutOff

\* A call that offers a chunk, or returns.
LEMMA ReturnWaits ==
  ASSUME WaitInv, NEW c \in Callers, Offer(c) \/ Return(c) PROVE WaitInv'
<1>1. LockInv' BY OfferKeeps, ReturnKeeps DEF WaitInv
<1>2. CASE Offer(c)
  <2>1. UNCHANGED <<lock, call, closed, reader>> /\ pipe'.shut = pipe.shut
    BY <1>2 DEF Offer, WaitInv, LockInv, Types
  <2> QED BY <1>1, <2>1 DEF WaitInv, Staged, PutOff, Closes, Closing
<1>3. CASE Return(c)
  <2>1. /\ call[c].effects = <<>> /\ call' = [call EXCEPT ![c] = Idle]
        /\ UNCHANGED <<closed, pipe, reader>>
    BY <1>3 DEF Return, CanReturn
  <2>2. call'[c] = Idle /\ \A d \in Callers : d # c => call'[d] = call[d]
    BY <2>1 DEF WaitInv, LockInv, Types
  <2>3. ASSUME NEW d \in Callers PROVE Staged(d)'
    BY <2>2 DEF WaitInv, Staged, Idle, Shared
  <2>4. Closes' BY <2>1, <2>2, ClosesKept DEF WaitInv, Closing
  <2>5. lock' = IF call[c].op \in Exclusive
                  THEN [writer |-> Nobody, readers |-> lock.parked, parked |-> {}]
                ELSE IF call[c].op \in Shared THEN [lock EXCEPT !.readers = @ \ {c}]
                ELSE lock
    BY <1>3 DEF Return, Mutex!Unlocked, Mutex!RUnlocked
  <2>6. PutOff' BY <2>5 DEF PutOff, WaitInv, LockInv, Types
  <2> QED BY <1>1, <2>3, <2>4, <2>6 DEF WaitInv
<1> QED BY <1>2, <1>3

\* The reader comes to the pipe or to its end.
LEMMA ReadWaits == ASSUME WaitInv, Read \/ EndOfInput PROVE WaitInv'
<1>1. LockInv'
  BY DEF Read, CanRead, EndOfInput, CanEnd, WaitInv, LockInv, Types, Disciplined, Quiet, Offered
<1>2. /\ UNCHANGED <<lock, call, closed, pipe>>
      /\ reader' = "eof" => closed \/ pipe.shut
  BY DEF Read, CanRead, EndOfInput, CanEnd
<1> QED BY <1>1, <1>2 DEF WaitInv, Staged, PutOff, Closes, Closing

\* A call that is past its body can go on, or lets another go on that it waits
\* for, or has a callback to run.
LEMMA EffectsGoOn ==
  ASSUME WaitInv, NEW c \in Callers, call[c].at = "effects", reader # "absent" \/ closed
  PROVE  ReaderCanMove \/ Pending(c) = "callback" \/ \E d \in Callers : CanMove(d)
<1> DEFINE Somebody == ReaderCanMove \/ \E d \in Callers : CanMove(d)
<1>1. CASE call[c].effects = <<>> BY <1>1 DEF CanMove, CanReturn
<1>2. CASE call[c].effects # <<>>
  <2>1. Pending(c) = Head(call[c].effects) /\ Pending(c) \in Effects
    BY <1>2 DEF Pending, WaitInv, LockInv, Types
  <2>2. CASE Pending(c) = "close" BY <2>2 DEF CanMove
  <2>3. CASE Pending(c) \in Chunks
    <3>1. CASE pipe.shut BY <2>3, <3>1 DEF CanMove, CanFail
    <3>2. CASE ~pipe.shut /\ pipe.offer = Nobody BY <2>3, <3>2 DEF CanMove, CanOffer
    <3>3. CASE ~pipe.shut /\ pipe.offer # Nobody
      <4>1. pipe.offer \in Callers BY <3>3 DEF WaitInv, LockInv, Types
      <4>2. CASE closed
        <5>1. PICK d \in Callers : Closing(d) BY <3>3, <4>2 DEF WaitInv, Closes
        <5>2. CanMove(d) BY <5>1 DEF Closing, CanMove, Pending
        <5> QED BY <5>2
      <4>3. CASE ~closed /\ reader = "away" BY <4>3 DEF ReaderCanMove, CanRead
      <4>4. CASE ~closed /\ reader = "reading"
        BY <3>3, <4>1, <4>4 DEF CanMove, CanTake
      <4>5. (reader # "absent" /\ reader # "eof") \/ closed
        BY <3>3 DEF WaitInv, Closes
      <4> QED BY <4>2, <4>3, <4>4, <4>5 DEF WaitInv, LockInv, Types
    <3> QED BY <3>1, <3>2, <3>3
  <2> QED BY <2>1, <2>2, <2>3 DEF Effects
<1> QED BY <1>1, <1>2

\* Who has the lock can go on, or lets another go on, or has a callback to run.
LEMMA HoldersGoOn ==
  ASSUME WaitInv, NEW c \in Callers, Mutex!Owns(lock, c) \/ Mutex!Shares(lock, c),
         reader # "absent" \/ closed
  PROVE  ReaderCanMove \/ Pending(c) = "callback" \/ \E d \in Callers : CanMove(d)
<1>1. call[c].op \in Exclusive \cup Shared
  BY DEF WaitInv, LockInv, Disciplined, Mutex!Owns, Mutex!Shares
<1>2. call[c].at \in {"lock", "body", "effects"}
  <2>1. call[c].at # "outside" BY <1>1 DEF WaitInv, Staged, Exclusive, Shared
  <2> QED BY <2>1 DEF WaitInv, LockInv, Types, Stages
<1>3. CASE call[c].at = "lock" BY <1>3 DEF CanMove, CanEnter
<1>4. CASE call[c].at = "body" BY <1>4 DEF CanMove
<1>5. CASE call[c].at = "effects" BY <1>5, EffectsGoOn
<1> QED BY <1>2, <1>3, <1>4, <1>5

\* While a call is in progress, somebody can go on, or has a callback to run: the
\* call itself, or the writer it waits for.
LEMMA SomebodyGoesOn ==
  ASSUME WaitInv, NEW c \in Callers, call[c].at # "outside", reader # "absent" \/ closed
  PROVE  \/ ReaderCanMove \/ \E d \in Callers : CanMove(d)
         \/ \E d \in Callers : Pending(d) = "callback" /\ (d = c \/ call[c].at = "lock")
<1>1. CASE call[c].at = "body" BY <1>1 DEF CanMove
<1>2. CASE call[c].at = "effects" BY <1>2, EffectsGoOn
<1>3. CASE call[c].at = "lock"
  <2>1. lock \in [writer : Callers \cup {Nobody}, readers : SUBSET Callers,
                  parked : SUBSET Callers]
    BY DEF WaitInv, LockInv, Types
  <2>2. CASE lock.writer = Nobody
    <3>1. CASE call[c].op \in Exclusive
      BY <1>3, <2>2, <3>1 DEF CanMove, CanLock, Doing, Mutex!CanAnnounce
    <3>2. CASE call[c].op \notin Exclusive
      <4>1. call[c].op \in Shared \ Exclusive BY <1>3, <3>2 DEF WaitInv, Staged
      <4>2. c \notin lock.parked BY <2>2 DEF WaitInv, PutOff
      <4>3. CASE c \in lock.readers BY <1>3, <4>3 DEF CanMove, CanEnter, Mutex!Shares
      <4>4. CASE c \notin lock.readers
        BY <1>3, <4>1, <4>2, <4>4 DEF CanMove, CanRLock, Doing
      <4> QED BY <4>3, <4>4
    <3> QED BY <3>1, <3>2
  <2>3. CASE lock.writer # Nobody /\ lock.readers = {}
    <3>1. lock.writer \in Callers /\ Mutex!Owns(lock, lock.writer)
      BY <2>1, <2>3 DEF Mutex!Owns
    <3> QED BY <1>3, <3>1, HoldersGoOn
  <2>4. CASE lock.readers # {}
    <3>1. PICK d \in Callers : Mutex!Shares(lock, d) BY <2>1, <2>4 DEF Mutex!Shares
    <3> QED BY <1>3, <3>1, HoldersGoOn
  <2> QED BY <2>1, <2>2, <2>3, <2>4
<1> QED BY <1>1, <1>2, <1>3 DEF WaitInv, LockInv, Types, Stages

\* The emulator's lock, the pipe and the reader never wait for each other in a
\* circle: with any callers and methods, while a call is in progress and somebody
\* reads, or the emulator has been closed, a step is possible or a callback runs.
THEOREM NobodyWaitsInCircles == Spec => []SomebodyMoves
<1>1. WaitInv => SomebodyMoves
  <2> SUFFICES ASSUME WaitInv, NEW c \in Callers, call[c] # Idle,
                      reader # "absent" \/ closed
               PROVE  ReaderCanMove \/ \E d \in Callers : CanMove(d) \/ Pending(d) = "callback"
    BY DEF SomebodyMoves
  <2>1. call[c].at # "outside"
    <3>1. call[c] = [op |-> call[c].op, at |-> call[c].at, effects |-> call[c].effects]
      BY DEF WaitInv, LockInv, Types
    <3>2. call[c].at = "outside" => call[c].op = "none" /\ call[c].effects = <<>>
      BY DEF WaitInv, LockInv, Staged, Quiet
    <3> QED BY <3>1, <3>2 DEF Idle
  <2> QED BY <2>1, SomebodyGoesOn
<1>2. WaitInv /\ [Next]_vars => WaitInv'
  <2> SUFFICES ASSUME WaitInv, [Next]_vars PROVE WaitInv' OBVIOUS
  <2>1. CASE UNCHANGED vars
    BY <2>1 DEF vars, WaitInv, LockInv, Types, Disciplined, Quiet, Offered, Staged, PutOff,
                Closes, Closing
  <2>2. ASSUME NEW c \in Callers, Caller(c) PROVE WaitInv'
    BY <2>2, KnownMethods, BeginWaits, LockWaits, BodyWaits, EffectWaits, ReturnWaits
       DEF Caller
  <2>3. ASSUME NEW c \in Callers, Take(c) PROVE WaitInv' BY <2>3, EffectWaits
  <2>4. CASE Read \/ EndOfInput BY <2>4, ReadWaits
  <2> QED BY <2>1, <2>2, <2>3, <2>4 DEF Next
<1> QED BY <1>1, <1>2, WaitStart, PTL DEF Spec
=============================================================================
