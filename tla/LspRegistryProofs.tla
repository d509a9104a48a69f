--------------------------- MODULE LspRegistryProofs ---------------------------
(* What holds of the registry and its clients (LspRegistry) for any number   *)
(* of goroutines, names and clients and in every world: types, no server     *)
(* that works is lost, callers are served, a restart returns a new server.   *)
(*                                                                           *)
(* RegistryInv is inductive. TypeOK and the invariants are not by            *)
(* themselves: that a server registered by one goroutine does not replace    *)
(* another's needs to know who has the lock where in which method (Locks),   *)
(* what that goroutine works on (NamesOne, Works), that what is registered   *)
(* is initialized (Registry) and whose answers are in the inboxes (Inboxes). *)
(* One lemma per action shows that it preserves RegistryInv; Keeps and       *)
(* OthersKeep say once what a step leaves alone.                             *)
EXTENDS LspRegistry, SequenceTheorems, TLAPS

Ops == Methods \cup {"none", "Restarting"}
Places == {"outside", "lock", "rlock", "locking", "initialize", "shutdown", "exit",
           "send", "request", "kill", "register", "registering"}
Replies == {"none", "awaited", "result", "error"}

MutexOf(S) == [writer : S \cup {Nobody}, readers : SUBSET S, parked : SUBSET S]
Message == Users \cup {Notice}

ClientRecord ==
  [name : Names, process : {"running", "dead"}, output : {"open", "ended"},
   link : {"open", "closed"}, initialized : BOOLEAN, shutdown : BOOLEAN,
   cancelled : BOOLEAN, inbox : Seq(Message), notices : Nat,
   loop : {"reading", "routing", "handling"}, router : MutexOf(Users \cup {Loop})]

CallRecord ==
  [op : Ops, at : Places, name : Names \cup {None}, on : Nat, todo : SUBSET (Names \cup Nat),
   since : Nat, got : Nat, reply : Replies]

Types ==
  /\ world \in Worlds
  /\ mu \in MutexOf(Users \cup Ids)
  /\ clients \in [Names -> 0 .. Len(client)]
  /\ client \in Seq(ClientRecord) /\ Len(client) <= MaxClients
  /\ call \in [Users -> CallRecord]

\* What a goroutine's place in the registry's lock says of where it is.
Locks(u) ==
  /\ call[u].at \in {"initialize", "shutdown", "exit"} => Mutex!Owns(mu, u)
  /\ mu.writer = u =>
       /\ call[u].at \in {"locking", "initialize", "shutdown", "exit"}
       /\ u \notin mu.readers /\ u \notin mu.parked
  /\ u \in mu.readers \cup mu.parked => call[u].at = "locking"
  /\ u \notin mu.readers \cap mu.parked

\* What a goroutine works on, by where it is in which method.
NamesOne(u) ==
  /\ call[u].op \in {"StartServer", "StopServer", "RestartServer", "Restarting", "GetClient"}
       => call[u].name \in Names
  /\ call[u].op = "GetClientsForFile" /\ (call[u].at = "lock" \/ mu.writer = u)
       => call[u].name \in Names
  /\ call[u].op = "GetClientsForFile" => call[u].todo \subseteq Names
  /\ call[u].at \in {"shutdown", "exit"} =>
       call[u].op \in {"StopServer", "RestartServer", "StopAll"}
  /\ call[u].at \in {"send", "request", "kill", "register", "registering"} =>
       call[u].op \in OnClient

Ended(c) == client[c].cancelled \/ ~Linked(c)

Works(u) ==
  /\ call[u].on \in 0 .. Len(client) /\ call[u].got \in 0 .. Len(client)
  /\ call[u].at \in {"initialize", "shutdown", "exit", "request"} => call[u].on # None
  /\ call[u].at \in {"send", "request", "kill", "register", "registering"} => call[u].got # None
  /\ call[u].reply = "awaited" => call[u].at \in {"initialize", "shutdown", "request"}
  /\ call[u].got # None => client[call[u].got].initialized
  /\ call[u].at = "initialize" =>
       /\ ~client[call[u].on].initialized
       /\ client[call[u].on].name = call[u].name
       /\ clients[call[u].name] = None
  /\ call[u].at \in {"shutdown", "exit"} /\ call[u].op # "StopAll" =>
       clients[call[u].name] = call[u].on
  /\ call[u].op = "StopAll" => \A c \in call[u].todo : c \in Made /\ Ended(c)

Registry ==
  \A n \in Names : clients[n] # None =>
    client[clients[n]].name = n /\ client[clients[n]].initialized

Inboxes ==
  \A c \in Made :
    /\ ~Linked(c) => client[c].inbox = <<>>
    /\ \A i \in DOMAIN client[c].inbox : client[c].inbox[i] # Notice =>
         /\ Waiting(client[c].inbox[i], c)
         /\ \A j \in DOMAIN client[c].inbox : client[c].inbox[j] = client[c].inbox[i] => j = i

\* Whatever server a restarting goroutine may still find is newer than its call.
Fresh(u) ==
  /\ call[u].since <= Len(client)
  /\ call[u].op = "Restarting" =>
       /\ clients[call[u].name] = None \/ clients[call[u].name] > call[u].since
       /\ \A v \in Users : call[v].at = "initialize" /\ call[v].name = call[u].name
            => call[v].on > call[u].since

RegistryInv ==
  /\ Types
  /\ \A u \in Users : Locks(u) /\ NamesOne(u) /\ Works(u) /\ Fresh(u)
  /\ Registry /\ NoServerLost /\ Inboxes

----------------------------------------------------------------------------
\* Every world starts with the invariant: nothing is registered, nobody is at work.
LEMMA RegistryInit == Init => RegistryInv
<1> SUFFICES ASSUME Init PROVE RegistryInv OBVIOUS
<1>1. client = <<>> /\ Len(client) = 0 /\ DOMAIN client = {} BY DEF Init
<1>2. Types
  <2>1. Idle \in CallRecord BY DEF Idle, CallRecord, Ops, Places, Replies, None
  <2>2. <<>> \in Seq(ClientRecord) OBVIOUS
  <2> QED BY <1>1, <2>1, <2>2, BoundsAssumption
          DEF Init, Types, MutexOf, Mutex!Free, None
<1>3. ASSUME NEW u \in Users PROVE Locks(u) /\ NamesOne(u) /\ Works(u) /\ Fresh(u)
  BY <1>1, UsersAssumption
     DEF Init, Idle, Locks, NamesOne, Works, Fresh, None, Mutex!Free, Mutex!Owns
<1>4. Registry /\ NoServerLost /\ Inboxes
  BY <1>1 DEF Init, Registry, NoServerLost, Inboxes, Made, None
<1> QED BY <1>2, <1>3, <1>4 DEF RegistryInv

----------------------------------------------------------------------------
\* A client that was made is a record of the right fields.
LEMMA ClientTyped ==
  ASSUME RegistryInv, NEW c \in Made
  PROVE  /\ client[c] \in ClientRecord
         /\ client[c].inbox \in Seq(Message)
         /\ Made = 1 .. Len(client) /\ c \in Nat /\ c # None
<1>1. client[c] \in ClientRecord BY DEF RegistryInv, Types, Made
<1>2. client[c].inbox \in Seq(Message) BY <1>1 DEF ClientRecord
<1> QED BY <1>1, <1>2 DEF RegistryInv, Types, Made, None

\* A client keeps its name and stays what it has become.
GoesOn(c) ==
  /\ client'[c].name = client[c].name
  /\ client'[c].initialized = client[c].initialized
  /\ Ended(c) => Ended(c)'

\* A goroutine does nothing.
Stays(v) == call'[v] = call[v] /\ (mu'.writer = v => mu.writer = v)

\* A step that registers and forgets no client keeps what concerns others.
LEMMA Keeps ==
  ASSUME RegistryInv, world' = world, clients' = clients,
         mu' \in MutexOf(Users \cup Ids),
         client' \in Seq(ClientRecord), Len(client') = Len(client),
         \A c \in Made : GoesOn(c),
         call' \in [Users -> CallRecord],
         \A v \in Users : Locks(v)',
         \A v \in Users : Stays(v) \/ (NamesOne(v)' /\ Works(v)' /\ Fresh(v)'),
         \A v \in Users : call'[v].at = "initialize" =>
           call[v].at = "initialize" /\ call'[v].name = call[v].name /\ call'[v].on = call[v].on,
         Inboxes'
  PROVE  RegistryInv'
<1>1. Types' BY DEF RegistryInv, Types
<1>2. DOMAIN client' = DOMAIN client /\ Made' = Made
      /\ Made = 1 .. Len(client) BY DEF RegistryInv, Types, Made
<1>3. ASSUME NEW v \in Users, Stays(v) PROVE NamesOne(v)' /\ Works(v)' /\ Fresh(v)'
  <2>1. NamesOne(v)' BY <1>3 DEF RegistryInv, NamesOne, Stays
  <2>2. Works(v)'
    <3>1. call[v] \in CallRecord /\ call'[v] = call[v] /\ Works(v)
      BY <1>3 DEF RegistryInv, Types, Stays
    <3>2. ASSUME NEW n \in 0 .. Len(client), n # None PROVE n \in Made /\ GoesOn(n)
      BY <1>2, <3>2 DEF None
    <3>3. /\ call[v].on \in 0 .. Len(client) /\ call[v].got \in 0 .. Len(client)
          /\ call[v].at = "initialize" => call[v].on # None
      BY <3>1 DEF Works
    <3>4. \A c \in call[v].todo : c \in Made /\ Ended(c) => c \in Made' /\ Ended(c)'
      BY <1>2 DEF GoesOn
    <3> QED BY <1>2, <3>1, <3>2, <3>3, <3>4 DEF Works, GoesOn
  <2>3. Fresh(v)' BY <1>3 DEF RegistryInv, Fresh, Stays
  <2> QED BY <2>1, <2>2, <2>3
<1>4. ASSUME NEW v \in Users PROVE Locks(v)' /\ NamesOne(v)' /\ Works(v)' /\ Fresh(v)'
  BY <1>3
<1>5. Registry'
  <2> SUFFICES ASSUME NEW n \in Names, clients[n] # None
               PROVE  client'[clients[n]].name = n /\ client'[clients[n]].initialized
    BY DEF Registry
  <2>1. clients[n] \in Made BY <1>2 DEF RegistryInv, Types, None
  <2> QED BY <2>1 DEF RegistryInv, Registry, GoesOn
<1>6. NoServerLost'
  BY <1>2 DEF RegistryInv, NoServerLost, GoesOn, Ended
<1> QED BY <1>1, <1>4, <1>5, <1>6 DEF RegistryInv

\* Inboxes stay as they should when whoever has an answer in one goes on waiting.
LEMMA InboxesKept ==
  ASSUME RegistryInv, client' \in Seq(ClientRecord), Len(client') = Len(client),
         \A c \in Made :
           /\ client'[c].inbox = client[c].inbox
           /\ client'[c].link = client[c].link
           /\ \A i \in DOMAIN client[c].inbox : client[c].inbox[i] # Notice =>
                Waiting(client[c].inbox[i], c)'
  PROVE  Inboxes'
<1>1. Made' = Made BY DEF RegistryInv, Types, Made
<1> QED BY <1>1 DEF RegistryInv, Inboxes, Linked

\* Nobody but the one that waits has an answer in an inbox.
LEMMA NotInInboxes ==
  ASSUME RegistryInv, NEW c \in Made, NEW i \in DOMAIN client[c].inbox,
         client[c].inbox[i] # Notice
  PROVE  /\ client[c].inbox[i] \in Users
         /\ call[client[c].inbox[i]].reply = "awaited"
         /\ call[client[c].inbox[i]].on = c
         /\ Linked(c)
<1>1. client[c].inbox \in Seq(Message) BY ClientTyped
<1>2. client[c].inbox[i] \in Users BY <1>1 DEF Message
<1> QED BY <1>2 DEF RegistryInv, Inboxes, Waiting, Linked

----------------------------------------------------------------------------
(* The steps of one goroutine. *)

\* A step leaves the calls of the other goroutines alone.
OnlyOf(u) ==
  /\ call' \in [Users -> CallRecord]
  /\ \A v \in Users : v # u => call'[v] = call[v]

\* What g may do with the registry's lock.
LockStep(g) ==
  \/ mu' = mu
  \/ Mutex!CanAnnounce(mu) /\ mu' = Mutex!Announced(mu, g)
  \/ mu' = Mutex!RLocked(mu, g)
  \/ mu' = Mutex!RUnlocked(mu, g)
  \/ mu.writer = g /\ mu' = Mutex!Unlocked(mu)

\* Where a goroutine is when it holds none of the lock.
LEMMA LocksOf ==
  ASSUME RegistryInv, NEW u \in Users
  PROVE  /\ mu \in MutexOf(Users \cup Ids)
         /\ call[u] \in CallRecord
         /\ Locks(u) /\ NamesOne(u) /\ Works(u) /\ Fresh(u)
         /\ call[u].at \notin {"locking", "initialize", "shutdown", "exit"} =>
              mu.writer # u /\ u \notin mu.readers /\ u \notin mu.parked
         /\ u # Nobody /\ u \notin Nat /\ u # Notice /\ u # Loop
BY UsersAssumption DEF RegistryInv, Types, Locks, Notice, Loop

\* The steps that g can make on the registry's lock.
LEMMA LockSteps ==
  ASSUME RegistryInv, NEW g \in Users \cup Ids
  PROVE  /\ Mutex!Announced(mu, g) \in MutexOf(Users \cup Ids)
         /\ Mutex!Announced(mu, g).writer = g
         /\ Mutex!Announced(mu, g).readers = mu.readers
         /\ Mutex!Announced(mu, g).parked = mu.parked
         /\ Mutex!Unlocked(mu) \in MutexOf(Users \cup Ids)
         /\ Mutex!Unlocked(mu).writer = Nobody
         /\ Mutex!Unlocked(mu).readers = mu.parked
         /\ Mutex!Unlocked(mu).parked = {}
         /\ Mutex!RUnlocked(mu, g) \in MutexOf(Users \cup Ids)
         /\ Mutex!RUnlocked(mu, g).writer = mu.writer
         /\ Mutex!RUnlocked(mu, g).readers = mu.readers \ {g}
         /\ Mutex!RUnlocked(mu, g).parked = mu.parked
         /\ Mutex!RLocked(mu, g) \in MutexOf(Users \cup Ids)
         /\ Mutex!RLocked(mu, g).writer = mu.writer
         /\ Mutex!RLocked(mu, g).readers =
              IF mu.writer = Nobody THEN mu.readers \cup {g} ELSE mu.readers
         /\ Mutex!RLocked(mu, g).parked =
              IF mu.writer = Nobody THEN mu.parked ELSE mu.parked \cup {g}
<1> DEFINE S == Users \cup Ids
<1>1. mu \in MutexOf(S) /\ g \in S BY DEF RegistryInv, Types
<1> HIDE DEF S
<1>2. /\ Mutex!Announced(mu, g) \in MutexOf(S)
      /\ Mutex!Announced(mu, g).writer = g
      /\ Mutex!Announced(mu, g).readers = mu.readers
      /\ Mutex!Announced(mu, g).parked = mu.parked
  BY <1>1 DEF MutexOf, Mutex!Announced
<1>3. /\ Mutex!Unlocked(mu) \in MutexOf(S)
      /\ Mutex!Unlocked(mu).writer = Nobody
      /\ Mutex!Unlocked(mu).readers = mu.parked
      /\ Mutex!Unlocked(mu).parked = {}
  BY <1>1 DEF MutexOf, Mutex!Unlocked
<1>4. /\ Mutex!RUnlocked(mu, g) \in MutexOf(S)
      /\ Mutex!RUnlocked(mu, g).writer = mu.writer
      /\ Mutex!RUnlocked(mu, g).readers = mu.readers \ {g}
      /\ Mutex!RUnlocked(mu, g).parked = mu.parked
  BY <1>1 DEF MutexOf, Mutex!RUnlocked
<1>5. /\ Mutex!RLocked(mu, g) \in MutexOf(S)
      /\ Mutex!RLocked(mu, g).writer = mu.writer
      /\ Mutex!RLocked(mu, g).readers =
           IF mu.writer = Nobody THEN mu.readers \cup {g} ELSE mu.readers
      /\ Mutex!RLocked(mu, g).parked =
           IF mu.writer = Nobody THEN mu.parked ELSE mu.parked \cup {g}
  BY <1>1 DEF MutexOf, Mutex!RLocked
<1> QED BY <1>2, <1>3, <1>4, <1>5 DEF S

\* Nobody else is moved to or from the lock.
LEMMA LocksKept ==
  ASSUME RegistryInv, NEW g \in Users \cup Ids, LockStep(g),
         \A v \in Users : v # g => call'[v].at = call[v].at
  PROVE  /\ mu' \in MutexOf(Users \cup Ids)
         /\ \A v \in Users : v # g => Locks(v)'
         /\ \A v \in Users : mu'.writer = v => mu.writer = v \/ v = g
<1>1. mu \in MutexOf(Users \cup Ids) BY DEF RegistryInv, Types
<1>2. Nobody \notin Users BY UsersAssumption
<1>3. ASSUME NEW v \in Users, v # g PROVE Locks(v)'
  <2>1. Locks(v) /\ call'[v].at = call[v].at BY <1>3 DEF RegistryInv
  <2>2. CASE mu' = mu BY <2>1, <2>2, <1>3 DEF Locks, Mutex!Owns
  <2>3. CASE Mutex!CanAnnounce(mu) /\ mu' = Mutex!Announced(mu, g)
    BY <2>1, <2>3, <1>2, <1>3, LockSteps DEF Locks, Mutex!Owns, Mutex!CanAnnounce
  <2>4. CASE mu' = Mutex!RLocked(mu, g)
    <3>1. /\ mu'.writer = mu.writer
          /\ mu'.readers = IF mu.writer = Nobody THEN mu.readers \cup {g} ELSE mu.readers
          /\ mu'.parked = IF mu.writer = Nobody THEN mu.parked ELSE mu.parked \cup {g}
      BY <2>4, LockSteps
    <3> QED BY <2>1, <3>1, <1>2, <1>3 DEF Locks, Mutex!Owns
  <2>5. CASE mu' = Mutex!RUnlocked(mu, g)
    <3>1. /\ mu'.writer = mu.writer /\ mu'.readers = mu.readers \ {g}
          /\ mu'.parked = mu.parked
      BY <2>5, LockSteps
    <3> QED BY <2>1, <3>1, <1>3 DEF Locks, Mutex!Owns
  <2>6. CASE mu.writer = g /\ mu' = Mutex!Unlocked(mu)
    <3>1. mu'.writer = Nobody /\ mu'.readers = mu.parked /\ mu'.parked = {}
      BY <2>6, LockSteps
    <3> QED BY <2>1, <2>6, <3>1, <1>2, <1>3 DEF Locks, Mutex!Owns
  <2> QED BY <2>2, <2>3, <2>4, <2>5, <2>6 DEF LockStep
<1>4. mu' \in MutexOf(Users \cup Ids)
  <2>1. /\ Mutex!Announced(mu, g) \in MutexOf(Users \cup Ids)
        /\ Mutex!Unlocked(mu) \in MutexOf(Users \cup Ids)
        /\ Mutex!RUnlocked(mu, g) \in MutexOf(Users \cup Ids)
        /\ Mutex!RLocked(mu, g) \in MutexOf(Users \cup Ids)
    BY LockSteps
  <2> QED BY <1>1, <2>1 DEF LockStep
<1>5. \A v \in Users : mu'.writer = v => mu.writer = v \/ v = g
  <2>1. /\ Mutex!Announced(mu, g).writer = g
        /\ Mutex!Unlocked(mu).writer = Nobody
        /\ Mutex!RUnlocked(mu, g).writer = mu.writer
        /\ Mutex!RLocked(mu, g).writer = mu.writer
    BY LockSteps
  <2> QED BY <1>2, <2>1 DEF LockStep
<1> QED BY <1>3, <1>4, <1>5

\* A step of one goroutine, after which no answer is left waiting for it unless
\* it goes on waiting for it.
LEMMA KeepsOne ==
  ASSUME RegistryInv, NEW u \in Users, world' = world, clients' = clients,
         client' \in Seq(ClientRecord), Len(client') = Len(client),
         \A c \in Made :
           /\ GoesOn(c)
           /\ client'[c].inbox = client[c].inbox /\ client'[c].link = client[c].link,
         LockStep(u), OnlyOf(u),
         call'[u].at = "initialize" => call[u].at = "initialize"
           /\ call'[u].name = call[u].name /\ call'[u].on = call[u].on,
         \A c \in Made : \A i \in DOMAIN client[c].inbox :
           client[c].inbox[i] = u => Waiting(u, c)',
         Locks(u)', NamesOne(u)', Works(u)', Fresh(u)'
  PROVE  RegistryInv'
<1>1. /\ mu' \in MutexOf(Users \cup Ids)
      /\ \A v \in Users : v # u => Locks(v)'
      /\ \A v \in Users : mu'.writer = v => mu.writer = v \/ v = u
  BY LocksKept DEF OnlyOf
<1>2. \A v \in Users : Stays(v) \/ (NamesOne(v)' /\ Works(v)' /\ Fresh(v)')
  BY <1>1 DEF Stays, OnlyOf
<1>3. \A v \in Users : Locks(v)' BY <1>1
<1>4. \A v \in Users : call'[v].at = "initialize" =>
        call[v].at = "initialize" /\ call'[v].name = call[v].name /\ call'[v].on = call[v].on
  BY DEF OnlyOf
<1>5. Inboxes'
  <2>1. ASSUME NEW c \in Made, NEW i \in DOMAIN client[c].inbox,
               client[c].inbox[i] # Notice
        PROVE  Waiting(client[c].inbox[i], c)'
    <3>1. client'[c].inbox = client[c].inbox OBVIOUS
    <3> QED BY <2>1, <3>1, NotInInboxes DEF Waiting, OnlyOf
  <2> QED BY <2>1, InboxesKept
<1>6. call' \in [Users -> CallRecord] BY DEF OnlyOf
<1> QED BY <1>1, <1>2, <1>3, <1>4, <1>5, <1>6, Keeps

\* The same when no client changes.
LEMMA KeepsCall ==
  ASSUME RegistryInv, NEW u \in Users, UNCHANGED <<world, clients, client>>,
         LockStep(u), OnlyOf(u),
         call'[u].at = "initialize" => call[u].at = "initialize"
           /\ call'[u].name = call[u].name /\ call'[u].on = call[u].on,
         call[u].reply = "awaited" =>
           call'[u].on = call[u].on /\ call'[u].reply = "awaited",
         Locks(u)', NamesOne(u)', Works(u)', Fresh(u)'
  PROVE  RegistryInv'
<1>1. \A c \in Made : GoesOn(c) BY DEF GoesOn, Ended, Linked
<1>2. \A c \in Made : \A i \in DOMAIN client[c].inbox :
        client[c].inbox[i] = u => Waiting(u, c)'
  BY NotInInboxes, UsersAssumption DEF Notice, Waiting
<1>3. client' \in Seq(ClientRecord) /\ Len(client') = Len(client)
  BY DEF RegistryInv, Types
<1> QED BY <1>1, <1>2, <1>3, KeepsOne

----------------------------------------------------------------------------
(* What the ways to go on make of a goroutine's call. *)

\* The fields of a goroutine between calls.
LEMMA IdleFields ==
  /\ Idle.op = "none" /\ Idle.at = "outside" /\ Idle.name = None /\ Idle.on = None
  /\ Idle.todo = {} /\ Idle.since = 0 /\ Idle.got = None /\ Idle.reply = "none"
  /\ Idle \in CallRecord
BY DEF Idle, CallRecord, Ops, Places, Replies, None

\* What a step that only moves its goroutine changes.
LEMMA GoesStep ==
  ASSUME RegistryInv, NEW u \in Users, NEW at \in Places, Goes(u, at)
  PROVE  /\ OnlyOf(u) /\ call'[u].at = at
         /\ call'[u].op = call[u].op /\ call'[u].name = call[u].name
         /\ call'[u].on = call[u].on /\ call'[u].todo = call[u].todo
         /\ call'[u].since = call[u].since /\ call'[u].got = call[u].got
         /\ call'[u].reply = call[u].reply
<1>1. call \in [Users -> CallRecord] BY DEF RegistryInv, Types
<1>2. call'[u] = [call[u] EXCEPT !.at = at] BY <1>1 DEF Goes
<1>3. call'[u] \in CallRecord BY <1>1, <1>2 DEF CallRecord
<1>4. OnlyOf(u) BY <1>1, <1>3 DEF Goes, OnlyOf
<1> QED BY <1>1, <1>2, <1>4 DEF CallRecord

\* What a return leaves of a call: the client that the goroutine holds.
LEMMA ReturnsStep ==
  ASSUME RegistryInv, NEW u \in Users, NEW got \in Nat, Returns(u, got)
  PROVE  /\ OnlyOf(u) /\ call'[u].at = "outside" /\ call'[u].op = "none"
         /\ call'[u].name = None /\ call'[u].on = None /\ call'[u].todo = {}
         /\ call'[u].since = 0 /\ call'[u].got = got /\ call'[u].reply = "none"
<1>1. call \in [Users -> CallRecord] BY DEF RegistryInv, Types
<1>2. call'[u] = [Idle EXCEPT !.got = got] BY <1>1 DEF Returns
<1>3. call'[u] \in CallRecord BY <1>2, IdleFields DEF CallRecord
<1>4. OnlyOf(u) BY <1>1, <1>3 DEF Returns, OnlyOf
<1> QED BY <1>2, <1>4, IdleFields DEF CallRecord

\* A goroutine that sends a request waits for its reply.
LEMMA AsksStep ==
  ASSUME RegistryInv, NEW u \in Users, NEW at \in Places, NEW c \in Nat, Asks(u, at, c)
  PROVE  /\ OnlyOf(u) /\ call'[u].at = at /\ call'[u].on = c /\ call'[u].reply = "awaited"
         /\ call'[u].op = call[u].op /\ call'[u].name = call[u].name
         /\ call'[u].todo = call[u].todo
         /\ call'[u].since = call[u].since /\ call'[u].got = call[u].got
<1>1. call \in [Users -> CallRecord] BY DEF RegistryInv, Types
<1>2. call'[u] = [call[u] EXCEPT !.at = at, !.on = c, !.reply = "awaited"] BY <1>1 DEF Asks
<1>3. call'[u] \in CallRecord BY <1>1, <1>2 DEF CallRecord, Replies
<1>4. OnlyOf(u) BY <1>1, <1>3 DEF Asks, OnlyOf
<1> QED BY <1>1, <1>2, <1>4 DEF CallRecord

\* The call ends with a client that was initialized, or goes on with the next
\* server that knows the file.
LEMMA ContinuesStep ==
  ASSUME RegistryInv, NEW u \in Users, NEW got \in 0 .. Len(client'),
         Len(client) \in Nat, Len(client') \in Nat, Len(client) <= Len(client'),
         got # None => client'[got].initialized,
         \A c \in Made : client[c].initialized => client'[c].initialized,
         call[u].reply # "awaited",
         Continues(u, got)
  PROVE  /\ OnlyOf(u) /\ call'[u].at \in {"outside", "rlock"}
         /\ NamesOne(u)' /\ Works(u)' /\ Fresh(u)'
<1> USE DEF None
<1>1. /\ call[u] \in CallRecord /\ NamesOne(u) /\ Works(u) /\ Fresh(u)
      /\ call \in [Users -> CallRecord] /\ Made = 1 .. Len(client)
  BY DEF RegistryInv, Types, Made
<1> DEFINE found == IF got = None THEN call[u].got ELSE got
<1>2. /\ found \in 0 .. Len(client') /\ found \in Nat
      /\ found # None => client'[found].initialized
  BY <1>1 DEF Works
<1>3. ASSUME NEW g \in 0 .. Len(client'), g # None => client'[g].initialized, Returns(u, g)
      PROVE  /\ OnlyOf(u) /\ call'[u].at \in {"outside", "rlock"}
             /\ NamesOne(u)' /\ Works(u)' /\ Fresh(u)'
  <2>1. /\ OnlyOf(u) /\ call'[u].at = "outside" /\ call'[u].op = "none"
        /\ call'[u].name = None /\ call'[u].on = None /\ call'[u].todo = {}
        /\ call'[u].since = 0 /\ call'[u].got = g /\ call'[u].reply = "none"
    BY <1>3, ReturnsStep
  <2>2. NamesOne(u)' BY <2>1 DEF NamesOne
  <2>3. Works(u)' BY <2>1, <1>3 DEF Works
  <2>4. Fresh(u)' BY <2>1 DEF Fresh
  <2> QED BY <2>1, <2>2, <2>3, <2>4
<1> HIDE DEF found
<1>4. ASSUME NEW n \in call[u].todo, call[u].op = "GetClientsForFile",
             call' = [call EXCEPT ![u].at = "rlock", ![u].name = n, ![u].on = None,
                                  ![u].todo = @ \ {n}, ![u].got = found]
      PROVE  /\ OnlyOf(u) /\ call'[u].at \in {"outside", "rlock"}
             /\ NamesOne(u)' /\ Works(u)' /\ Fresh(u)'
  <2>1. n \in Names BY <1>1, <1>4 DEF NamesOne
  <2>2. call'[u] = [call[u] EXCEPT !.at = "rlock", !.name = n, !.on = None,
                                   !.todo = @ \ {n}, !.got = found]
    BY <1>1, <1>4
  <2>3. /\ call'[u].at = "rlock" /\ call'[u].name = n /\ call'[u].on = None
        /\ call'[u].todo = call[u].todo \ {n} /\ call'[u].got = found
        /\ call'[u].op = call[u].op /\ call'[u].since = call[u].since
        /\ call'[u].reply = call[u].reply
    BY <1>1, <2>2 DEF CallRecord
  <2>4. call'[u] \in CallRecord
    <3>1. call[u].todo \ {n} \in SUBSET (Names \cup Nat) BY <1>1 DEF CallRecord
    <3>2. "rlock" \in Places /\ None \in Nat /\ n \in Names \cup {None}
      BY <2>1 DEF Places
    <3>3. call'[u] = [op |-> call[u].op, at |-> "rlock", name |-> n, on |-> None,
                      todo |-> call[u].todo \ {n}, since |-> call[u].since,
                      got |-> found, reply |-> call[u].reply]
      BY <1>1, <2>2 DEF CallRecord
    <3> QED BY <1>1, <1>2, <3>1, <3>2, <3>3 DEF CallRecord
  <2>5. OnlyOf(u) BY <1>1, <1>4, <2>4 DEF OnlyOf
  <2>6. NamesOne(u)' BY <1>1, <1>4, <2>1, <2>3 DEF NamesOne
  <2>7. Works(u)' BY <1>1, <1>2, <1>4, <2>3 DEF Works
  <2>8. Fresh(u)' BY <1>1, <1>4, <2>3 DEF Fresh, CallRecord
  <2> QED BY <2>3, <2>5, <2>6, <2>7, <2>8
<1>5. CASE call[u].op = "GetClientsForFile" /\ call[u].todo # {}
  BY <1>4, <1>5 DEF Continues, found
<1>6. CASE call[u].op = "GetClientsForFile" /\ call[u].todo = {}
  BY <1>2, <1>3, <1>6 DEF Continues, found
<1>7. CASE call[u].op # "GetClientsForFile"
  BY <1>3, <1>7 DEF Continues
<1> QED BY <1>5, <1>6, <1>7

----------------------------------------------------------------------------
(* Calls of the registry. *)

\* A call begins (each method of Registry and of Client).
LEMMA BeginKeeps ==
  ASSUME RegistryInv, NEW u \in Users, NEW op \in world.calls[u], NEW n \in Names \cup {None},
         Begin(u, op, n),
         op \in {"StopAll", "GetClientsForFile"} \cup OnClient => n = None,
         op \notin {"StopAll", "GetClientsForFile"} \cup OnClient => n \in Names
  PROVE  RegistryInv'
<1> DEFINE held == IF op \in OnClient THEN call[u].got ELSE None
           r == [op |-> op, at |-> FirstStep(op), name |-> n, on |-> held,
                 todo |-> IF op = "GetClientsForFile" THEN Names ELSE {},
                 since |-> IF op = "RestartServer" THEN Len(client) ELSE 0,
                 got |-> held, reply |-> "none"]
<1>1. op \in Methods
  <2>1. world \in World BY WorldsAssumption DEF RegistryInv, Types
  <2> QED BY <2>1 DEF World
<1>2. /\ call' = [call EXCEPT ![u] = r] /\ call[u].at = "outside"
      /\ UNCHANGED <<world, mu, clients, client>>
      /\ op \in OnClient => call[u].got # None
  BY DEF Begin, At, Held
<1>3. /\ call[u] \in CallRecord /\ call[u].reply # "awaited"
      /\ mu.writer # u /\ u \notin mu.readers /\ u \notin mu.parked
      /\ call[u].got \in 0 .. Len(client)
      /\ call[u].got # None => client[call[u].got].initialized
  BY <1>2, LocksOf DEF Works
<1>4. Len(client) \in Nat BY DEF RegistryInv, Types
<1>5. /\ r.op = op /\ r.at = FirstStep(op) /\ r.name = n /\ r.reply = "none"
      /\ r.since = (IF op = "RestartServer" THEN Len(client) ELSE 0)
      /\ r.on = (IF op \in OnClient THEN call[u].got ELSE None) /\ r.got = r.on
      /\ r.todo = (IF op = "GetClientsForFile" THEN Names ELSE {})
      /\ FirstStep(op) \in {"lock", "rlock", "send", "kill", "register"}
      /\ FirstStep(op) \in {"send", "kill", "register"} => op \in OnClient
      /\ FirstStep(op) = "lock" => op \in Exclusive
  BY <1>1 DEF FirstStep, Methods, Exclusive, Shared, OnClient
<1>6. r \in CallRecord
  BY <1>1, <1>3, <1>4, <1>5 DEF CallRecord, Ops, Places, Replies, None
<1> HIDE DEF r
<1>7. call'[u] = r /\ OnlyOf(u)
  BY <1>2, <1>6 DEF RegistryInv, Types, OnlyOf
<1>8. Locks(u)' BY <1>2, <1>3, <1>5, <1>7 DEF Locks
<1>9. NamesOne(u)' BY <1>1, <1>2, <1>3, <1>5, <1>7 DEF NamesOne, Exclusive, OnClient, Methods
<1>10. Works(u)' BY <1>1, <1>2, <1>3, <1>4, <1>5, <1>7 DEF Works, OnClient, Methods, None
<1>11. Fresh(u)' BY <1>1, <1>2, <1>4, <1>5, <1>7 DEF Fresh, Methods
<1>12. LockStep(u) BY <1>2 DEF LockStep
<1>13. call'[u].at # "initialize" BY <1>5, <1>7
<1> QED BY <1>2, <1>3, <1>7, <1>8, <1>9, <1>10, <1>11, <1>12, <1>13, KeepsCall

\* A goroutine announces that it wants the lock (Registry.mu.Lock).
LEMMA LockKeeps == ASSUME RegistryInv, NEW u \in Users, Lock(u) PROVE RegistryInv'
<1>1. /\ call[u].at = "lock" /\ Mutex!CanAnnounce(mu) /\ mu' = Mutex!Announced(mu, u)
      /\ Goes(u, "locking") /\ UNCHANGED <<world, clients, client>>
  BY DEF Lock, At
<1>2. /\ OnlyOf(u) /\ call'[u].at = "locking"
      /\ call'[u].op = call[u].op /\ call'[u].name = call[u].name
      /\ call'[u].on = call[u].on /\ call'[u].todo = call[u].todo
      /\ call'[u].since = call[u].since /\ call'[u].got = call[u].got
      /\ call'[u].reply = call[u].reply
  BY <1>1, GoesStep DEF Places
<1>3. /\ Locks(u) /\ NamesOne(u) /\ Works(u) /\ Fresh(u)
      /\ u \notin mu.readers /\ u \notin mu.parked
  BY <1>1, LocksOf
<1>4. Locks(u)' BY <1>1, <1>2, <1>3, LockSteps DEF Locks
<1>5. NamesOne(u)' BY <1>1, <1>2, <1>3 DEF NamesOne
<1>6. Works(u)' BY <1>1, <1>2, <1>3 DEF Works, Made, Ended, Linked
<1>7. Fresh(u)' BY <1>1, <1>2, <1>3 DEF Fresh, OnlyOf
<1>8. LockStep(u) BY <1>1 DEF LockStep
<1> QED BY <1>1, <1>2, <1>4, <1>5, <1>6, <1>7, <1>8, KeepsCall

\* A goroutine asks for a share of the lock (Registry.mu.RLock).
LEMMA RLockKeeps == ASSUME RegistryInv, NEW u \in Users, RLock(u) PROVE RegistryInv'
<1>1. /\ call[u].at = "rlock" /\ mu' = Mutex!RLocked(mu, u)
      /\ Goes(u, "locking") /\ UNCHANGED <<world, clients, client>>
  BY DEF RLock, At
<1>2. /\ OnlyOf(u) /\ call'[u].at = "locking"
      /\ call'[u].op = call[u].op /\ call'[u].name = call[u].name
      /\ call'[u].on = call[u].on /\ call'[u].todo = call[u].todo
      /\ call'[u].since = call[u].since /\ call'[u].got = call[u].got
      /\ call'[u].reply = call[u].reply
  BY <1>1, GoesStep DEF Places
<1>3. /\ Locks(u) /\ NamesOne(u) /\ Works(u) /\ Fresh(u)
      /\ mu.writer # u /\ u \notin mu.readers /\ u \notin mu.parked
  BY <1>1, LocksOf
<1>4. mu'.writer # u BY <1>1, <1>3, LockSteps
<1>5. Locks(u)' BY <1>1, <1>2, <1>3, LockSteps DEF Locks
<1>6. NamesOne(u)' BY <1>1, <1>2, <1>3, <1>4 DEF NamesOne
<1>7. Works(u)' BY <1>1, <1>2, <1>3 DEF Works, Made, Ended, Linked
<1>8. Fresh(u)' BY <1>1, <1>2, <1>3 DEF Fresh, OnlyOf
<1>9. LockStep(u) BY <1>1 DEF LockStep
<1> QED BY <1>1, <1>2, <1>5, <1>6, <1>7, <1>8, <1>9, KeepsCall

\* A call that goes on or returns, and leaves the lock.
LEMMA ContinuesKeeps ==
  ASSUME RegistryInv, NEW u \in Users, UNCHANGED <<world, clients, client>>, LockStep(u),
         mu'.writer # u, u \notin mu'.readers, u \notin mu'.parked,
         call[u].reply # "awaited",
         NEW got \in 0 .. Len(client), got # None => client[got].initialized,
         Continues(u, got)
  PROVE  RegistryInv'
<1>1. Len(client) \in Nat /\ client' = client BY DEF RegistryInv, Types
<1>2. /\ OnlyOf(u) /\ call'[u].at \in {"outside", "rlock"}
      /\ NamesOne(u)' /\ Works(u)' /\ Fresh(u)'
  BY <1>1, ContinuesStep
<1>3. Locks(u)' BY <1>2 DEF Locks
<1> QED BY <1>2, <1>3, KeepsCall

\* A return inside the registry preserves the invariant.
LEMMA ReturnsKeeps ==
  ASSUME RegistryInv, NEW u \in Users, UNCHANGED <<world, clients, client>>, LockStep(u),
         mu'.writer # u, u \notin mu'.readers, u \notin mu'.parked,
         call[u].reply # "awaited",
         NEW got \in 0 .. Len(client), got # None => client[got].initialized,
         Returns(u, got)
  PROVE  RegistryInv'
<1>1. /\ OnlyOf(u) /\ call'[u].at = "outside" /\ call'[u].op = "none"
      /\ call'[u].name = None /\ call'[u].on = None /\ call'[u].todo = {}
      /\ call'[u].since = 0 /\ call'[u].got = got /\ call'[u].reply = "none"
  BY ReturnsStep
<1>2. Len(client) \in Nat BY DEF RegistryInv, Types
<1>3. NamesOne(u)' BY <1>1 DEF NamesOne
<1>4. Works(u)' BY <1>1, <1>2 DEF Works, None
<1>5. Fresh(u)' BY <1>1, <1>2 DEF Fresh
<1>6. Locks(u)' BY <1>1 DEF Locks
<1> QED BY <1>1, <1>3, <1>4, <1>5, <1>6, KeepsCall

\* GetClient, and the shared part of GetClientsForFile.
LEMMA LookKeeps == ASSUME RegistryInv, NEW u \in Users, Look(u) PROVE RegistryInv'
<1> DEFINE n == call[u].name
<1>1. /\ call[u].at = "locking" /\ u \in mu.readers /\ mu' = Mutex!RUnlocked(mu, u)
      /\ UNCHANGED <<world, clients, client>>
      /\ \/ Continues(u, None)
         \/ n # None /\ clients[n] # None /\ Continues(u, clients[n])
         \/ n # None /\ Returns(u, None)
         \/ n # None /\ Goes(u, "lock")
  BY DEF Look, FirstShared, At, Mutex!Shares
<1>2. /\ Locks(u) /\ NamesOne(u) /\ Works(u) /\ Fresh(u) /\ call[u] \in CallRecord
  BY LocksOf
<1>3. mu'.writer # u /\ u \notin mu'.readers /\ u \notin mu'.parked
  BY <1>1, <1>2, LockSteps DEF Locks
<1>4. LockStep(u) BY <1>1 DEF LockStep
<1>5. call[u].reply # "awaited" BY <1>1, <1>2 DEF Works
<1>6. Len(client) \in Nat BY DEF RegistryInv, Types
<1>7. CASE Continues(u, None)
  <2>1. None \in 0 .. Len(client) BY <1>6 DEF None
  <2> QED BY <1>1, <1>3, <1>4, <1>5, <1>7, <2>1, ContinuesKeeps
<1>8. CASE n # None /\ clients[n] # None /\ Continues(u, clients[n])
  <2>1. n \in Names BY <1>2, <1>8 DEF CallRecord
  <2>2. clients[n] \in 0 .. Len(client) /\ client[clients[n]].initialized
    BY <1>8, <2>1 DEF RegistryInv, Types, Registry
  <2> QED BY <1>1, <1>3, <1>4, <1>5, <1>8, <2>2, ContinuesKeeps
<1>9. CASE Returns(u, None)
  <2>1. None \in 0 .. Len(client) BY <1>6 DEF None
  <2> QED BY <1>1, <1>3, <1>4, <1>5, <1>9, <2>1, ReturnsKeeps
<1>10. CASE n # None /\ Goes(u, "lock")
  <2>1. /\ OnlyOf(u) /\ call'[u].at = "lock"
        /\ call'[u].op = call[u].op /\ call'[u].name = call[u].name
        /\ call'[u].on = call[u].on /\ call'[u].todo = call[u].todo
        /\ call'[u].since = call[u].since /\ call'[u].got = call[u].got
        /\ call'[u].reply = call[u].reply
    BY <1>10, GoesStep DEF Places
  <2>2. n \in Names BY <1>2, <1>10 DEF CallRecord
  <2>3. NamesOne(u)' BY <1>1, <1>2, <2>1, <2>2 DEF NamesOne
  <2>4. Works(u)' BY <1>1, <1>2, <2>1 DEF Works, Made, Ended, Linked
  <2>5. Fresh(u)' BY <1>1, <1>2, <2>1 DEF Fresh, OnlyOf
  <2>6. Locks(u)' BY <1>3, <2>1 DEF Locks
  <2> QED BY <1>1, <1>4, <1>5, <2>1, <2>3, <2>4, <2>5, <2>6, KeepsCall
<1> QED BY <1>1, <1>7, <1>8, <1>9, <1>10

\* The goroutine that has the lock to itself works on a configured server.
LEMMA OwnerKnows ==
  ASSUME RegistryInv, NEW u \in Users, NEW ops, First(u, ops)
  PROVE  /\ call[u].at = "locking" /\ call[u].op \in ops
         /\ mu.writer = u /\ mu.readers = {} /\ u \notin mu.parked
         /\ call[u].reply # "awaited"
         /\ call[u].op \in {"StartServer", "StopServer", "RestartServer", "Restarting",
                            "GetClientsForFile"} => call[u].name \in Names
<1>1. Locks(u) /\ NamesOne(u) /\ Works(u) BY LocksOf
<1> QED BY <1>1 DEF First, At, Mutex!Owns, Locks, NamesOne, Works

\* Whoever has the lock to himself leaves it.
LEMMA Leaves ==
  ASSUME RegistryInv, NEW u \in Users, mu.writer = u, mu' = Mutex!Unlocked(mu)
  PROVE  LockStep(u) /\ mu'.writer # u /\ u \notin mu'.readers /\ u \notin mu'.parked
<1>1. Locks(u) /\ u # Nobody BY LocksOf
<1> QED BY <1>1, LockSteps DEF LockStep, Locks

\* While one has the lock to himself, nobody else is between its steps.
LEMMA OwnerAlone ==
  ASSUME RegistryInv, NEW u \in Users, mu.writer = u, NEW v \in Users, v # u
  PROVE  call[v].at \notin {"initialize", "shutdown", "exit"}
BY DEF RegistryInv, Locks, Mutex!Owns

\* StartServer when the server runs, or cannot be started.
LEMMA StartFoundKeeps ==
  ASSUME RegistryInv, NEW u \in Users,
         First(u, {"StartServer", "Restarting", "GetClientsForFile"}),
         Continues(u, clients[call[u].name]), mu' = Mutex!Unlocked(mu),
         UNCHANGED <<world, clients, client>>
  PROVE  RegistryInv'
<1>1. mu.writer = u /\ call[u].reply # "awaited" /\ call[u].name \in Names BY OwnerKnows
<1>2. LockStep(u) /\ mu'.writer # u /\ u \notin mu'.readers /\ u \notin mu'.parked
  BY <1>1, Leaves
<1> DEFINE c == clients[call[u].name]
<1>3. c \in 0 .. Len(client) /\ (c # None => client[c].initialized)
  BY <1>1 DEF RegistryInv, Types, Registry
<1> QED BY <1>1, <1>2, <1>3, ContinuesKeeps

\* StartServer gives up a client that could not be initialized.
LEMMA InitializeFailedKeeps ==
  ASSUME RegistryInv, NEW u \in Users, InitializeFailed(u) PROVE RegistryInv'
<1>1. /\ call[u].at = "initialize" /\ call[u].reply # "awaited"
      /\ mu' = Mutex!Unlocked(mu) /\ Continues(u, None)
      /\ UNCHANGED <<world, clients, client>>
  BY DEF InitializeFailed, Answered, At
<1>2. mu.writer = u BY <1>1, LocksOf DEF Locks, Mutex!Owns
<1>3. LockStep(u) /\ mu'.writer # u /\ u \notin mu'.readers /\ u \notin mu'.parked
  BY <1>1, <1>2, Leaves
<1>4. None \in 0 .. Len(client) BY DEF RegistryInv, Types, None
<1> QED BY <1>1, <1>3, <1>4, ContinuesKeeps

\* RestartServer goes on with the start.
LEMMA RestartingStep ==
  ASSUME RegistryInv, NEW u \in Users,
         call' = [call EXCEPT ![u].op = "Restarting", ![u].at = "lock"]
  PROVE  /\ OnlyOf(u) /\ call'[u].at = "lock" /\ call'[u].op = "Restarting"
         /\ call'[u].name = call[u].name
         /\ call'[u].on = call[u].on /\ call'[u].todo = call[u].todo
         /\ call'[u].since = call[u].since /\ call'[u].got = call[u].got
         /\ call'[u].reply = call[u].reply
<1>1. call \in [Users -> CallRecord] BY DEF RegistryInv, Types
<1>2. call'[u] = [call[u] EXCEPT !.op = "Restarting", !.at = "lock"] BY <1>1
<1>3. call'[u] \in CallRecord
  <2>1. "Restarting" \in Ops /\ "lock" \in Places BY DEF Ops, Places
  <2> QED BY <1>1, <1>2, <2>1 DEF CallRecord
<1>4. OnlyOf(u) BY <1>1, <1>3 DEF OnlyOf
<1> QED BY <1>1, <1>2, <1>4 DEF CallRecord

\* Client.Shutdown begins, or is not sent again.
LEMMA BeginShutdownStep ==
  ASSUME RegistryInv, NEW u \in Users, NEW c \in Nat, BeginShutdown(u, c)
  PROVE  /\ OnlyOf(u) /\ call'[u].at \in {"shutdown", "exit"} /\ call'[u].on = c
         /\ call'[u].op = call[u].op /\ call'[u].name = call[u].name
         /\ call'[u].todo = call[u].todo
         /\ call'[u].since = call[u].since /\ call'[u].got = call[u].got
         /\ \/ call'[u].reply = call[u].reply
            \/ call'[u].reply = "awaited" /\ call'[u].at = "shutdown"
<1>1. CASE Asks(u, "shutdown", c) BY <1>1, AsksStep DEF Places
<1>2. CASE call' = [call EXCEPT ![u].on = c, ![u].at = "exit"]
  <2>1. call \in [Users -> CallRecord] BY DEF RegistryInv, Types
  <2>2. call'[u] = [call[u] EXCEPT !.on = c, !.at = "exit"] BY <1>2, <2>1
  <2>3. call'[u] \in CallRecord BY <2>1, <2>2 DEF CallRecord, Places
  <2>4. OnlyOf(u) BY <1>2, <2>1, <2>3 DEF OnlyOf
  <2> QED BY <2>1, <2>2, <2>4 DEF CallRecord
<1> QED BY <1>1, <1>2 DEF BeginShutdown

\* StopServer and the first half of RestartServer, until shutdown is sent.
LEMMA StopKeeps == ASSUME RegistryInv, NEW u \in Users, Stop(u) PROVE RegistryInv'
<1> DEFINE c == clients[call[u].name]
<1>1. /\ First(u, {"StopServer", "RestartServer"}) /\ UNCHANGED <<world, clients, client>>
      /\ \/ c # None /\ BeginShutdown(u, c) /\ UNCHANGED mu
         \/ /\ c = None /\ mu' = Mutex!Unlocked(mu)
            /\ call[u].op = "RestartServer"
            /\ call' = [call EXCEPT ![u].op = "Restarting", ![u].at = "lock"]
         \/ c = None /\ mu' = Mutex!Unlocked(mu) /\ Returns(u, None)
  BY DEF Stop
<1>2. /\ call[u].at = "locking" /\ call[u].op \in {"StopServer", "RestartServer"}
      /\ mu.writer = u /\ mu.readers = {} /\ u \notin mu.parked
      /\ call[u].reply # "awaited" /\ call[u].name \in Names
  BY <1>1, OwnerKnows
<1>3. c \in 0 .. Len(client) /\ c \in Nat /\ Len(client) \in Nat
  BY <1>2 DEF RegistryInv, Types
<1>4. Locks(u) /\ NamesOne(u) /\ Works(u) /\ Fresh(u) BY LocksOf
<1>5. CASE c # None /\ BeginShutdown(u, c) /\ UNCHANGED mu
  <2>1. /\ OnlyOf(u) /\ call'[u].at \in {"shutdown", "exit"} /\ call'[u].on = c
        /\ call'[u].op = call[u].op /\ call'[u].name = call[u].name
        /\ call'[u].todo = call[u].todo
        /\ call'[u].since = call[u].since /\ call'[u].got = call[u].got
        /\ \/ call'[u].reply = call[u].reply
           \/ call'[u].reply = "awaited" /\ call'[u].at = "shutdown"
    BY <1>3, <1>5, BeginShutdownStep
  <2>2. Locks(u)' BY <1>2, <1>5, <2>1 DEF Locks, Mutex!Owns
  <2>3. NamesOne(u)' BY <1>2, <1>4, <2>1 DEF NamesOne
  <2>4. Works(u)' BY <1>1, <1>2, <1>3, <1>4, <1>5, <2>1 DEF Works
  <2>5. Fresh(u)' BY <1>1, <1>2, <1>4, <2>1 DEF Fresh
  <2>6. LockStep(u) BY <1>5 DEF LockStep
  <2> QED BY <1>1, <1>2, <2>1, <2>2, <2>3, <2>4, <2>5, <2>6, KeepsCall
<1>6. CASE /\ c = None /\ mu' = Mutex!Unlocked(mu)
           /\ call[u].op = "RestartServer"
           /\ call' = [call EXCEPT ![u].op = "Restarting", ![u].at = "lock"]
  <2>1. /\ OnlyOf(u) /\ call'[u].at = "lock" /\ call'[u].op = "Restarting"
        /\ call'[u].name = call[u].name
        /\ call'[u].on = call[u].on /\ call'[u].todo = call[u].todo
        /\ call'[u].since = call[u].since /\ call'[u].got = call[u].got
        /\ call'[u].reply = call[u].reply
    BY <1>6, RestartingStep
  <2>2. LockStep(u) /\ mu'.writer # u /\ u \notin mu'.readers /\ u \notin mu'.parked
    BY <1>2, <1>6, Leaves
  <2>3. Locks(u)' BY <2>1, <2>2 DEF Locks
  <2>4. NamesOne(u)' BY <1>2, <2>1 DEF NamesOne
  <2>5. Works(u)' BY <1>1, <1>2, <1>3, <1>4, <2>1 DEF Works
  <2>6. \A v \in Users : call'[v].at # "initialize"
    BY <1>2, <2>1, OwnerAlone DEF OnlyOf
  <2>7. Fresh(u)' BY <1>1, <1>4, <1>6, <2>1, <2>6 DEF Fresh
  <2> QED BY <1>1, <1>2, <2>1, <2>2, <2>3, <2>4, <2>5, <2>7, KeepsCall
<1>7. CASE c = None /\ mu' = Mutex!Unlocked(mu) /\ Returns(u, None)
  <2>1. LockStep(u) /\ mu'.writer # u /\ u \notin mu'.readers /\ u \notin mu'.parked
    BY <1>2, <1>7, Leaves
  <2>2. None \in 0 .. Len(client) BY <1>3 DEF None
  <2> QED BY <1>1, <1>2, <1>7, <2>1, <2>2, ReturnsKeeps
<1> QED BY <1>1, <1>5, <1>6, <1>7

\* A step of the one that has the lock to himself: clients are only made and
\* become what they were going to be, so that nobody else is disturbed.
LEMMA OthersKeep ==
  ASSUME RegistryInv, NEW u \in Users, mu.writer = u,
         OnlyOf(u), mu' = mu \/ mu' = Mutex!Unlocked(mu),
         client' \in Seq(ClientRecord), Len(client) <= Len(client'),
         \A c \in Made : /\ client[c].initialized => client'[c].initialized
                         /\ Ended(c) => Ended(c)'
  PROVE  /\ mu' \in MutexOf(Users \cup Ids)
         /\ \A v \in Users : v # u => Locks(v)' /\ NamesOne(v)' /\ Works(v)'
         /\ \A v \in Users : v # u => call'[v].at # "initialize" /\ Fresh(v)
                                      /\ call'[v] = call[v]
<1>1. LockStep(u) BY DEF LockStep
<1>2. /\ mu' \in MutexOf(Users \cup Ids)
      /\ \A v \in Users : v # u => Locks(v)'
      /\ \A v \in Users : mu'.writer = v => mu.writer = v \/ v = u
  BY <1>1, LocksKept DEF OnlyOf
<1>3. Len(client) \in Nat /\ Len(client') \in Nat /\ Made = 1 .. Len(client)
      /\ Made' = 1 .. Len(client')
  BY DEF RegistryInv, Types, Made
<1>4. ASSUME NEW v \in Users, v # u
      PROVE  /\ NamesOne(v)' /\ Works(v)' /\ call'[v].at # "initialize" /\ Fresh(v)
             /\ call'[v] = call[v]
  <2>1. call'[v] = call[v] /\ NamesOne(v) /\ Works(v) /\ Fresh(v)
        /\ call[v].at \notin {"initialize", "shutdown", "exit"} /\ mu'.writer # v
    BY <1>2, <1>4, OwnerAlone, LocksOf DEF OnlyOf
  <2>2. NamesOne(v)' BY <2>1 DEF NamesOne
  <2>3. Works(v)'
    <3>1. /\ call[v].on \in 0 .. Len(client') /\ call[v].got \in 0 .. Len(client')
          /\ call[v].got # None => client'[call[v].got].initialized
      BY <1>3, <2>1 DEF Works, None
    <3>2. call[v].op = "StopAll" => \A c \in call[v].todo : c \in Made' /\ Ended(c)'
      BY <1>3, <2>1 DEF Works
    <3> QED BY <2>1, <3>1, <3>2 DEF Works
  <2> QED BY <2>1, <2>2, <2>3
<1> QED BY <1>2, <1>4

\* StartServer makes a client.
LEMMA MakeClientKeeps ==
  ASSUME RegistryInv, NEW u \in Users,
         First(u, {"StartServer", "Restarting", "GetClientsForFile"}),
         clients[call[u].name] = None, MakeClient(u, call[u].name),
         UNCHANGED <<world, clients>>
  PROVE  RegistryInv'
<1> DEFINE n == call[u].name
           new == Len(client) + 1
<1>1. /\ mu.writer = u /\ mu.readers = {} /\ u \notin mu.parked /\ n \in Names
      /\ call[u].op \in {"StartServer", "Restarting", "GetClientsForFile"}
  BY OwnerKnows
<1>2. /\ Len(client) < MaxClients /\ client' = Append(client, NewClient(n))
      /\ Asks(u, "initialize", new) /\ mu' = mu
  BY DEF MakeClient
<1>3. /\ Len(client) \in Nat /\ Made = 1 .. Len(client) /\ new \in Nat
      /\ client \in Seq(ClientRecord)
  BY DEF RegistryInv, Types, Made
<1>4. NewClient(n) \in ClientRecord
  <2>1. Mutex!Free \in MutexOf(Users \cup {Loop}) BY DEF Mutex!Free, MutexOf
  <2> QED BY <1>1, <2>1 DEF NewClient, ClientRecord
<1>5. /\ client' \in Seq(ClientRecord) /\ Len(client') = new /\ Made' = 1 .. new
      /\ \A c \in Made : client'[c] = client[c]
      /\ client'[new] = NewClient(n)
  <2>1. NewClient(n) \in ClientRecord /\ client' = Append(client, NewClient(n))
        /\ client \in Seq(ClientRecord)
    BY <1>2, <1>3, <1>4
  <2> HIDE DEF NewClient
  <2>2. /\ client' \in Seq(ClientRecord) /\ Len(client') = new
        /\ \A c \in 1 .. Len(client) : client'[c] = client[c]
        /\ client'[new] = NewClient(n)
    BY <2>1, AppendProperties
  <2>3. DOMAIN client' = 1 .. new BY <2>2
  <2> QED BY <1>3, <2>2, <2>3 DEF Made
<1>6. /\ OnlyOf(u) /\ call'[u].at = "initialize" /\ call'[u].on = new
      /\ call'[u].reply = "awaited"
      /\ call'[u].op = call[u].op /\ call'[u].name = call[u].name
      /\ call'[u].todo = call[u].todo
      /\ call'[u].since = call[u].since /\ call'[u].got = call[u].got
  BY <1>2, <1>3, AsksStep DEF Places
<1>7. \A c \in Made : /\ client[c].initialized => client'[c].initialized
                      /\ Ended(c) => Ended(c)'
  BY <1>5 DEF Ended, Linked
<1>8. /\ mu' \in MutexOf(Users \cup Ids)
      /\ \A v \in Users : v # u => Locks(v)' /\ NamesOne(v)' /\ Works(v)'
      /\ \A v \in Users : v # u => call'[v].at # "initialize" /\ Fresh(v)
                                   /\ call'[v] = call[v]
  <2>1. Len(client) <= Len(client') /\ (mu' = mu \/ mu' = Mutex!Unlocked(mu))
    BY <1>2, <1>3, <1>5
  <2>2. client' \in Seq(ClientRecord) /\ OnlyOf(u) /\ mu.writer = u BY <1>1, <1>5, <1>6
  <2> QED BY <1>7, <2>1, <2>2, OthersKeep
<1>9. Locks(u) /\ NamesOne(u) /\ Works(u) /\ Fresh(u) BY LocksOf
<1>10. Types'
  <2>1. clients' \in [Names -> 0 .. Len(client')] BY <1>3, <1>5 DEF RegistryInv, Types
  <2> QED BY <1>2, <1>3, <1>5, <1>6, <1>8, <2>1, BoundsAssumption
          DEF RegistryInv, Types, OnlyOf
<1>11. Locks(u)' BY <1>1, <1>2, <1>6 DEF Locks, Mutex!Owns
<1>12. NamesOne(u)' BY <1>1, <1>6, <1>9 DEF NamesOne
<1>13. Works(u)'
  <2>1. /\ call'[u].on \in 0 .. new /\ call'[u].got \in 0 .. new
        /\ call'[u].got # None => client'[call'[u].got].initialized
    BY <1>3, <1>5, <1>6, <1>9 DEF Works, None
  <2>2. ~client'[new].initialized /\ client'[new].name = n BY <1>5 DEF NewClient
  <2> QED BY <1>1, <1>3, <1>5, <1>6, <2>1, <2>2 DEF Works, None
<1>14. ASSUME NEW v \in Users PROVE Fresh(v)'
  <2>1. /\ call'[v].since = call[v].since /\ call'[v].op = call[v].op
        /\ call'[v].name = call[v].name /\ Fresh(v) /\ call[v].since \in Nat
    BY <1>6, <1>8, <1>9, LocksOf DEF CallRecord
  <2>2. call[v].since < new BY <1>3, <2>1 DEF Fresh
  <2>3. \A w \in Users : call'[w].at = "initialize" => call'[w].on = new
    BY <1>6, <1>8
  <2> QED BY <1>3, <1>5, <2>1, <2>2, <2>3 DEF Fresh
<1>15. Registry' BY <1>3, <1>5 DEF RegistryInv, Registry, Types, None
<1>16. NoServerLost'
  <2>1. ~client'[new].initialized BY <1>5 DEF NewClient
  <2> QED BY <1>3, <1>5, <2>1 DEF RegistryInv, NoServerLost, Linked
<1>17. Inboxes'
  <2>1. client'[new].inbox = <<>> BY <1>5 DEF NewClient
  <2>2. ASSUME NEW c \in Made, NEW i \in DOMAIN client[c].inbox,
               client[c].inbox[i] # Notice
        PROVE  Waiting(client[c].inbox[i], c)'
    <3>1. client[c].inbox[i] \in Users /\ call[client[c].inbox[i]].reply = "awaited"
          /\ call[client[c].inbox[i]].on = c
      BY <2>2, NotInInboxes
    <3>2. call[u].reply # "awaited" BY <1>1, OwnerKnows
    <3>3. client[c].inbox[i] # u BY <3>1, <3>2
    <3>4. call'[client[c].inbox[i]] = call[client[c].inbox[i]] BY <1>8, <3>1, <3>3
    <3>5. client'[c] = client[c] BY <1>5
    <3> QED BY <3>1, <3>4, <3>5 DEF Waiting
  <2> QED BY <1>3, <1>5, <2>1, <2>2 DEF RegistryInv, Inboxes, Linked
<1> QED BY <1>8, <1>10, <1>11, <1>12, <1>13, <1>14, <1>15, <1>16, <1>17 DEF RegistryInv

\* StartServer: the server is found, made, or cannot be made.
LEMMA StartKeeps == ASSUME RegistryInv, NEW u \in Users, Start(u) PROVE RegistryInv'
BY StartFoundKeeps, MakeClientKeeps DEF Start

\* An answer waits in no inbox for a goroutine that does not wait for it.
LEMMA InboxesOfOne ==
  ASSUME RegistryInv, NEW u \in Users, call[u].reply # "awaited", OnlyOf(u),
         client' \in Seq(ClientRecord), Len(client') = Len(client),
         \A c \in Made : client'[c].inbox = client[c].inbox /\ client'[c].link = client[c].link
  PROVE  Inboxes'
<1>1. ASSUME NEW c \in Made, NEW i \in DOMAIN client[c].inbox,
             client[c].inbox[i] # Notice
      PROVE  Waiting(client[c].inbox[i], c)'
  <2>1. client[c].inbox[i] \in Users /\ call[client[c].inbox[i]].reply = "awaited"
        /\ call[client[c].inbox[i]].on = c
    BY <1>1, NotInInboxes
  <2>2. call'[client[c].inbox[i]] = call[client[c].inbox[i]] BY <2>1 DEF OnlyOf
  <2>3. client'[c].inbox = client[c].inbox OBVIOUS
  <2> QED BY <2>1, <2>2, <2>3 DEF Waiting
<1> QED BY <1>1, InboxesKept

\* StartServer registers the client that it has initialized.
LEMMA RegisteredKeeps == ASSUME RegistryInv, NEW u \in Users, Registered(u) PROVE RegistryInv'
<1> DEFINE c == call[u].on
           n == call[u].name
<1>1. /\ call[u].at = "initialize" /\ call[u].reply = "result"
      /\ mu' = Mutex!Unlocked(mu) /\ world' = world
      /\ \/ /\ Linked(c) /\ client' = [client EXCEPT ![c].initialized = TRUE]
            /\ clients' = [clients EXCEPT ![client[c].name] = c] /\ Continues(u, c)
         \/ Continues(u, None) /\ UNCHANGED <<clients, client>>
  BY DEF Registered, Answered, At
<1>2. mu.writer = u BY <1>1, LocksOf DEF Locks, Mutex!Owns
<1>3. LockStep(u) /\ mu'.writer # u /\ u \notin mu'.readers /\ u \notin mu'.parked
  BY <1>1, <1>2, Leaves
<1>4. Len(client) \in Nat /\ Made = 1 .. Len(client) /\ client \in Seq(ClientRecord)
      /\ clients \in [Names -> 0 .. Len(client)]
  BY DEF RegistryInv, Types, Made
<1>5. CASE Continues(u, None) /\ UNCHANGED <<clients, client>>
  <2>1. None \in 0 .. Len(client) BY <1>4 DEF None
  <2> QED BY <1>1, <1>3, <1>5, <2>1, ContinuesKeeps
<1>6. CASE /\ Linked(c) /\ client' = [client EXCEPT ![c].initialized = TRUE]
           /\ clients' = [clients EXCEPT ![client[c].name] = c] /\ Continues(u, c)
  <2>1. /\ c \in Made /\ client[c].name = n /\ clients[n] = None /\ n \in Names
        /\ client[c] \in ClientRecord
    <3>1. Works(u) /\ NamesOne(u) BY LocksOf
    <3>2. c \in Made /\ client[c].name = n /\ clients[n] = None
      BY <1>1, <1>4, <3>1 DEF Works, None
    <3> QED BY <3>2, <1>4, ClientTyped DEF ClientRecord
  <2>2. [client[c] EXCEPT !.initialized = TRUE] \in ClientRecord BY <2>1 DEF ClientRecord
  <2>3. /\ client' = [client EXCEPT ![c] = [client[c] EXCEPT !.initialized = TRUE]]
        /\ client' \in Seq(ClientRecord) /\ Len(client') = Len(client)
        /\ Made' = Made /\ clients' = [clients EXCEPT ![n] = c]
    BY <1>4, <1>6, <2>1, <2>2 DEF Made
  <2>4. \A k \in Made : /\ client'[k].name = client[k].name
                        /\ (client'[k].initialized <=> k = c \/ client[k].initialized)
                        /\ client'[k].cancelled = client[k].cancelled
                        /\ client'[k].link = client[k].link
                        /\ client'[k].inbox = client[k].inbox
    <3>1. ASSUME NEW k \in Made, k # c PROVE client'[k] = client[k]
      BY <2>3, <3>1 DEF Made
    <3>2. client'[c] = [client[c] EXCEPT !.initialized = TRUE]
      BY <2>1, <2>3 DEF Made
    <3> QED BY <2>1, <3>1, <3>2 DEF ClientRecord
  <2>5. \A k \in Made : /\ client[k].initialized => client'[k].initialized
                        /\ Ended(k) => Ended(k)'
    BY <2>4 DEF Ended, Linked
  <2>6. /\ OnlyOf(u) /\ call'[u].at \in {"outside", "rlock"}
        /\ NamesOne(u)' /\ Works(u)' /\ Fresh(u)'
    <3>1. c \in 0 .. Len(client') /\ client'[c].initialized /\ call[u].reply # "awaited"
          /\ Len(client') \in Nat /\ Len(client) <= Len(client')
      BY <1>1, <1>4, <2>1, <2>3, <2>4
    <3> QED BY <1>4, <1>6, <2>5, <3>1, ContinuesStep
  <2>7. /\ mu' \in MutexOf(Users \cup Ids)
        /\ \A v \in Users : v # u => Locks(v)' /\ NamesOne(v)' /\ Works(v)'
        /\ \A v \in Users : v # u => call'[v].at # "initialize" /\ Fresh(v)
                                     /\ call'[v] = call[v]
    <3>1. Len(client) <= Len(client') /\ (mu' = mu \/ mu' = Mutex!Unlocked(mu))
      BY <1>1, <1>4, <2>3
    <3> QED BY <1>2, <2>3, <2>5, <2>6, <3>1, OthersKeep
  <2>8. Types'
    <3>1. clients' \in [Names -> 0 .. Len(client')] BY <1>4, <2>1, <2>3
    <3>2. Len(client') <= MaxClients /\ world' \in Worlds
      BY <1>1, <2>3 DEF RegistryInv, Types
    <3> QED BY <2>3, <2>6, <2>7, <3>1, <3>2 DEF Types, OnlyOf
  <2>9. Locks(u)' BY <1>3, <2>6 DEF Locks
  <2>10. ASSUME NEW v \in Users PROVE Fresh(v)'
    <3>1. CASE v = u BY <2>6, <3>1
    <3>2. CASE v # u
      <4>1. Fresh(v) /\ call'[v] = call[v] BY <2>7, <3>2
      <4>2. \A w \in Users : call'[w].at # "initialize" BY <2>6, <2>7
      <4>3. call[v].op = "Restarting" /\ call[v].name = n => c > call[v].since
        BY <1>1, <4>1 DEF Fresh
      <4>4. call[v].op = "Restarting" => call[v].name \in Names
        BY LocksOf DEF NamesOne
      <4> QED BY <1>4, <2>3, <4>1, <4>2, <4>3, <4>4 DEF Fresh
    <3> QED BY <3>1, <3>2
  <2>11. Registry'
    BY <1>4, <2>1, <2>3, <2>4 DEF RegistryInv, Registry, None
  <2>12. NoServerLost'
    BY <1>4, <2>1, <2>3, <2>4 DEF RegistryInv, NoServerLost, Linked, None
  <2>13. Inboxes' BY <1>1, <2>3, <2>4, <2>6, InboxesOfOne
  <2> QED BY <2>6, <2>7, <2>8, <2>9, <2>10, <2>11, <2>12, <2>13 DEF RegistryInv
<1> QED BY <1>1, <1>5, <1>6

\* A step on one client.
LEMMA ClientStep ==
  ASSUME RegistryInv, NEW c \in Made, NEW r \in ClientRecord,
         client' = [client EXCEPT ![c] = r]
  PROVE  /\ client' \in Seq(ClientRecord) /\ Len(client') = Len(client) /\ Made' = Made
         /\ Made = 1 .. Len(client) /\ Len(client) \in Nat
         /\ client'[c] = r
         /\ \A k \in Made : k # c => client'[k] = client[k]
<1>1. client \in Seq(ClientRecord) /\ Made = 1 .. Len(client) /\ Len(client) \in Nat
  BY DEF RegistryInv, Types, Made
<1>2. client' \in Seq(ClientRecord) /\ Len(client') = Len(client) BY <1>1 DEF Made
<1> QED BY <1>1, <1>2 DEF Made

\* StopAll: the next server, or the end.
LEMMA StopAllKeeps == ASSUME RegistryInv, NEW u \in Users, StopAll(u) PROVE RegistryInv'
<1> DEFINE rest == {clients[n] : n \in Names} \ (call[u].todo \cup {None})
<1>1. /\ First(u, {"StopAll"}) /\ UNCHANGED <<world, client>>
      /\ \/ /\ rest = {} /\ clients' = [n \in Names |-> None]
            /\ mu' = Mutex!Unlocked(mu) /\ Returns(u, None)
         \/ (\E c \in rest : BeginShutdown(u, c)) /\ UNCHANGED <<clients, mu>>
  BY DEF StopAll
<1>2. /\ call[u].at = "locking" /\ call[u].op = "StopAll"
      /\ mu.writer = u /\ mu.readers = {} /\ u \notin mu.parked
      /\ call[u].reply # "awaited"
  BY <1>1, OwnerKnows
<1>3. Len(client) \in Nat /\ Made = 1 .. Len(client) /\ client \in Seq(ClientRecord)
      /\ clients \in [Names -> 0 .. Len(client)]
  BY DEF RegistryInv, Types, Made
<1>4. Locks(u) /\ NamesOne(u) /\ Works(u) /\ Fresh(u) BY LocksOf
<1>5. ASSUME NEW c \in rest, BeginShutdown(u, c), UNCHANGED <<clients, mu>>
      PROVE  RegistryInv'
  <2>1. c \in 0 .. Len(client) /\ c # None /\ c \in Nat BY <1>3
  <2>2. /\ OnlyOf(u) /\ call'[u].at \in {"shutdown", "exit"} /\ call'[u].on = c
        /\ call'[u].op = call[u].op /\ call'[u].name = call[u].name
        /\ call'[u].todo = call[u].todo
        /\ call'[u].since = call[u].since /\ call'[u].got = call[u].got
        /\ \/ call'[u].reply = call[u].reply
           \/ call'[u].reply = "awaited" /\ call'[u].at = "shutdown"
    BY <1>5, <2>1, BeginShutdownStep
  <2>3. Locks(u)' BY <1>2, <1>5, <2>2 DEF Locks, Mutex!Owns
  <2>4. NamesOne(u)' BY <1>2, <1>4, <2>2 DEF NamesOne
  <2>5. Works(u)' BY <1>1, <1>2, <1>3, <1>4, <2>1, <2>2 DEF Works, Made, Ended, Linked
  <2>6. Fresh(u)' BY <1>1, <1>2, <1>4, <2>2 DEF Fresh
  <2>7. LockStep(u) BY <1>5 DEF LockStep
  <2> QED BY <1>1, <1>2, <1>5, <2>2, <2>3, <2>4, <2>5, <2>6, <2>7, KeepsCall
<1>6. CASE /\ rest = {} /\ clients' = [n \in Names |-> None]
           /\ mu' = Mutex!Unlocked(mu) /\ Returns(u, None)
  <2>1. /\ OnlyOf(u) /\ call'[u].at = "outside" /\ call'[u].op = "none"
        /\ call'[u].name = None /\ call'[u].on = None /\ call'[u].todo = {}
        /\ call'[u].since = 0 /\ call'[u].got = None /\ call'[u].reply = "none"
    BY <1>6, ReturnsStep DEF None
  <2>2. /\ mu' \in MutexOf(Users \cup Ids)
        /\ \A v \in Users : v # u => Locks(v)' /\ NamesOne(v)' /\ Works(v)'
        /\ \A v \in Users : v # u => call'[v].at # "initialize" /\ Fresh(v)
                                     /\ call'[v] = call[v]
    <3>1. /\ Len(client) <= Len(client') /\ (mu' = mu \/ mu' = Mutex!Unlocked(mu))
          /\ client' \in Seq(ClientRecord)
      BY <1>1, <1>3, <1>6
    <3>2. \A c \in Made : /\ client[c].initialized => client'[c].initialized
                          /\ Ended(c) => Ended(c)'
      BY <1>1 DEF Ended, Linked
    <3> QED BY <1>2, <2>1, <3>1, <3>2, OthersKeep
  <2>3. mu'.writer # u /\ u \notin mu'.readers /\ u \notin mu'.parked
    BY <1>2, <1>6, Leaves
  <2>4. Locks(u)' BY <2>1, <2>3 DEF Locks
  <2>5. NamesOne(u)' BY <2>1 DEF NamesOne
  <2>6. Works(u)' BY <1>1, <1>3, <2>1 DEF Works, None
  <2>7. \A n \in Names : clients'[n] = None BY <1>6
  <2>8. ASSUME NEW v \in Users PROVE Fresh(v)'
    <3>1. CASE v = u BY <1>1, <1>3, <2>1, <3>1 DEF Fresh
    <3>2. CASE v # u
      <4>1. Fresh(v) /\ call'[v] = call[v] BY <2>2, <3>2
      <4>2. \A w \in Users : call'[w].at # "initialize" BY <2>1, <2>2
      <4>3. call[v].op = "Restarting" => call[v].name \in Names
        BY LocksOf DEF NamesOne
      <4> QED BY <1>1, <2>7, <4>1, <4>2, <4>3 DEF Fresh
    <3> QED BY <3>1, <3>2
  <2>9. Types'
    <3>1. clients' \in [Names -> 0 .. Len(client')] BY <1>1, <1>3, <1>6 DEF None
    <3> QED BY <1>1, <2>1, <2>2, <3>1 DEF RegistryInv, Types, OnlyOf
  <2>10. Registry' BY <2>7 DEF Registry
  <2>11. NoServerLost'
    <3> SUFFICES ASSUME NEW c \in Made, client[c].initialized, Linked(c), ~client[c].cancelled
                 PROVE  FALSE
      BY <1>1 DEF NoServerLost, Linked, Made
    <3>1. clients[client[c].name] = c /\ client[c].name \in Names
      BY ClientTyped DEF RegistryInv, NoServerLost, ClientRecord
    <3>2. c \in call[u].todo BY <1>3, <1>6, <3>1, ClientTyped
    <3> QED BY <1>2, <1>4, <3>2 DEF Works, Ended
  <2>12. Inboxes'
    <3>1. /\ client' \in Seq(ClientRecord) /\ Len(client') = Len(client)
          /\ \A c \in Made : /\ client'[c].inbox = client[c].inbox
                             /\ client'[c].link = client[c].link
      BY <1>1, <1>3
    <3> QED BY <1>2, <2>1, <3>1, InboxesOfOne
  <2> QED BY <2>2, <2>4, <2>5, <2>6, <2>8, <2>9, <2>10, <2>11, <2>12 DEF RegistryInv
<1> QED BY <1>1, <1>5, <1>6

\* The server did not confirm that it shuts down.
LEMMA ShutdownFailedKeeps ==
  ASSUME RegistryInv, NEW u \in Users, ShutdownFailed(u) PROVE RegistryInv'
<1>1. /\ call[u].at = "shutdown" /\ call[u].reply # "awaited" /\ Goes(u, "exit")
      /\ UNCHANGED <<world, mu, clients, client>>
  BY DEF ShutdownFailed, Answered, At
<1>2. /\ OnlyOf(u) /\ call'[u].at = "exit"
      /\ call'[u].op = call[u].op /\ call'[u].name = call[u].name
      /\ call'[u].on = call[u].on /\ call'[u].todo = call[u].todo
      /\ call'[u].since = call[u].since /\ call'[u].got = call[u].got
      /\ call'[u].reply = call[u].reply
  BY <1>1, GoesStep DEF Places
<1>3. Locks(u) /\ NamesOne(u) /\ Works(u) /\ Fresh(u) BY LocksOf
<1>4. Locks(u)' BY <1>1, <1>2, <1>3 DEF Locks, Mutex!Owns
<1>5. NamesOne(u)' BY <1>1, <1>2, <1>3 DEF NamesOne
<1>6. Works(u)' BY <1>1, <1>2, <1>3 DEF Works, Made, Ended, Linked
<1>7. Fresh(u)' BY <1>1, <1>2, <1>3 DEF Fresh, OnlyOf
<1>8. LockStep(u) BY <1>1 DEF LockStep
<1> QED BY <1>1, <1>2, <1>4, <1>5, <1>6, <1>7, <1>8, KeepsCall

\* The server confirmed that it shuts down.
LEMMA ShutdownAnsweredKeeps ==
  ASSUME RegistryInv, NEW u \in Users, ShutdownAnswered(u) PROVE RegistryInv'
<1> DEFINE c == call[u].on
           r == [client[c] EXCEPT !.shutdown = TRUE]
<1>1. /\ call[u].at = "shutdown" /\ call[u].reply # "awaited" /\ Goes(u, "exit")
      /\ client' = [client EXCEPT ![c].shutdown = TRUE]
      /\ UNCHANGED <<world, mu, clients>>
  BY DEF ShutdownAnswered, Answered, At
<1>2. /\ OnlyOf(u) /\ call'[u].at = "exit"
      /\ call'[u].op = call[u].op /\ call'[u].name = call[u].name
      /\ call'[u].on = call[u].on /\ call'[u].todo = call[u].todo
      /\ call'[u].since = call[u].since /\ call'[u].got = call[u].got
      /\ call'[u].reply = call[u].reply
  BY <1>1, GoesStep DEF Places
<1>3. Locks(u) /\ NamesOne(u) /\ Works(u) /\ Fresh(u) BY LocksOf
<1>4. c \in Made /\ client[c] \in ClientRecord
  <2>1. c \in 0 .. Len(client) /\ c # None BY <1>1, <1>3 DEF Works
  <2>2. c \in Made BY <2>1 DEF RegistryInv, Types, Made, None
  <2> QED BY <2>2, ClientTyped
<1>5. r \in ClientRecord /\ client' = [client EXCEPT ![c] = r]
  BY <1>1, <1>4 DEF ClientRecord
<1>6. /\ client' \in Seq(ClientRecord) /\ Len(client') = Len(client) /\ Made' = Made
      /\ Made = 1 .. Len(client) /\ Len(client) \in Nat
      /\ client'[c] = r
      /\ \A k \in Made : k # c => client'[k] = client[k]
  <2> HIDE DEF r
  <2> QED BY <1>4, <1>5, ClientStep
<1>7. \A k \in Made :
        /\ client'[k].name = client[k].name /\ client'[k].initialized = client[k].initialized
        /\ client'[k].cancelled = client[k].cancelled
        /\ client'[k].inbox = client[k].inbox /\ client'[k].link = client[k].link
  <2>1. /\ r.name = client[c].name /\ r.initialized = client[c].initialized
        /\ r.cancelled = client[c].cancelled
        /\ r.inbox = client[c].inbox /\ r.link = client[c].link
    BY <1>4 DEF ClientRecord
  <2> HIDE DEF r
  <2> QED BY <1>6, <2>1
<1>8. \A k \in Made : GoesOn(k) BY <1>7 DEF GoesOn, Ended, Linked
<1>9. Locks(u)' BY <1>1, <1>2, <1>3 DEF Locks, Mutex!Owns
<1>10. NamesOne(u)' BY <1>1, <1>2, <1>3 DEF NamesOne
<1>11. Works(u)'
  <2>1. call[u].got # None => client'[call[u].got].initialized
    BY <1>3, <1>6, <1>7 DEF Works, None
  <2>2. call[u].op = "StopAll" => \A k \in call[u].todo : k \in Made' /\ Ended(k)'
    BY <1>3, <1>6, <1>8 DEF Works, GoesOn
  <2> QED BY <1>1, <1>2, <1>3, <1>6, <2>1, <2>2 DEF Works
<1>12. Fresh(u)' BY <1>1, <1>2, <1>3, <1>6 DEF Fresh, OnlyOf
<1>13. LockStep(u) BY <1>1 DEF LockStep
<1>14. \A k \in Made : \A i \in DOMAIN client[k].inbox :
         client[k].inbox[i] = u => Waiting(u, k)'
  BY <1>1, NotInInboxes, UsersAssumption DEF Notice
<1> QED BY <1>1, <1>2, <1>6, <1>7, <1>8, <1>9, <1>10, <1>11, <1>12, <1>13, <1>14, KeepsOne

\* Client.Exit, after which the registry forgets the client.
LEMMA ExitKeeps == ASSUME RegistryInv, NEW u \in Users, Exit(u) PROVE RegistryInv'
<1> DEFINE c == call[u].on
           n == call[u].name
           r == [client[c] EXCEPT !.cancelled = @ \/ Linked(c)]
<1>1. /\ call[u].at = "exit" /\ world' = world
      /\ client' = [client EXCEPT ![c].cancelled = @ \/ Linked(c)]
      /\ \/ call[u].op = "StopAll" /\ NextClient(u) /\ UNCHANGED <<mu, clients>>
         \/ /\ call[u].op # "StopAll" /\ clients' = [clients EXCEPT ![n] = None]
            /\ mu' = Mutex!Unlocked(mu)
            /\ \/ /\ call[u].op = "RestartServer"
                  /\ call' = [call EXCEPT ![u].op = "Restarting", ![u].at = "lock"]
               \/ Returns(u, None)
  BY DEF Exit, At
<1>2. /\ Locks(u) /\ NamesOne(u) /\ Works(u) /\ Fresh(u) /\ call[u] \in CallRecord
      /\ call \in [Users -> CallRecord]
  BY LocksOf DEF RegistryInv, Types
<1>3. mu.writer = u /\ mu.readers = {} /\ call[u].reply # "awaited"
      /\ call[u].op \in {"StopServer", "RestartServer", "StopAll"}
  BY <1>1, <1>2 DEF Locks, Mutex!Owns, Works, NamesOne
<1>4. c \in Made /\ client[c] \in ClientRecord
  <2>1. c \in 0 .. Len(client) /\ c # None BY <1>1, <1>2 DEF Works
  <2>2. c \in Made BY <2>1 DEF RegistryInv, Types, Made, None
  <2> QED BY <2>2, ClientTyped
<1>5. r \in ClientRecord /\ client' = [client EXCEPT ![c] = r]
  BY <1>1, <1>4 DEF ClientRecord, Linked
<1>6. /\ client' \in Seq(ClientRecord) /\ Len(client') = Len(client) /\ Made' = Made
      /\ Made = 1 .. Len(client) /\ Len(client) \in Nat
      /\ client'[c] = r
      /\ \A k \in Made : k # c => client'[k] = client[k]
  <2> HIDE DEF r
  <2> QED BY <1>4, <1>5, ClientStep
<1>7. \A k \in Made :
        /\ client'[k].name = client[k].name /\ client'[k].initialized = client[k].initialized
        /\ client[k].cancelled => client'[k].cancelled
        /\ client'[k].inbox = client[k].inbox /\ client'[k].link = client[k].link
  <2>1. /\ r.name = client[c].name /\ r.initialized = client[c].initialized
        /\ r.cancelled = (client[c].cancelled \/ Linked(c))
        /\ r.inbox = client[c].inbox /\ r.link = client[c].link
    BY <1>4 DEF ClientRecord
  <2> HIDE DEF r
  <2> QED BY <1>6, <2>1
<1>8. client'[c].cancelled \/ client'[c].link # "open"
  <2>1. client'[c].cancelled = (client[c].cancelled \/ Linked(c)) BY <1>4, <1>6 DEF ClientRecord
  <2>2. client'[c].link = client[c].link BY <1>4, <1>7
  <2> QED BY <2>1, <2>2 DEF Linked
<1> HIDE DEF r
<1>9. \A k \in Made : GoesOn(k) BY <1>7 DEF GoesOn, Ended, Linked
<1>10. \A k \in Made : /\ client[k].initialized => client'[k].initialized
                       /\ Ended(k) => Ended(k)'
  BY <1>9 DEF GoesOn
<1>11. call[u].got # None => client'[call[u].got].initialized
  BY <1>2, <1>6, <1>7 DEF Works, None
<1>12. CASE call[u].op = "StopAll" /\ NextClient(u) /\ UNCHANGED <<mu, clients>>
  <2>1. call'[u] = [call[u] EXCEPT !.at = "locking", !.todo = @ \cup {c}, !.reply = "none"]
    BY <1>2, <1>12 DEF NextClient
  <2>2. /\ call'[u].at = "locking" /\ call'[u].todo = call[u].todo \cup {c}
        /\ call'[u].reply = "none" /\ call'[u].op = call[u].op
        /\ call'[u].name = call[u].name /\ call'[u].on = call[u].on
        /\ call'[u].since = call[u].since /\ call'[u].got = call[u].got
    BY <1>2, <2>1 DEF CallRecord
  <2>3. call'[u] \in CallRecord
    <3>1. "locking" \in Places /\ "none" \in Replies BY DEF Places, Replies
    <3>2. call[u].todo \cup {c} \in SUBSET (Names \cup Nat)
      BY <1>2, <1>4, ClientTyped DEF CallRecord
    <3> QED BY <1>2, <2>1, <3>1, <3>2 DEF CallRecord
  <2>4. OnlyOf(u) BY <1>2, <1>12, <2>3 DEF NextClient, OnlyOf
  <2>5. Locks(u)' BY <1>2, <1>3, <1>12, <2>2 DEF Locks
  <2>6. NamesOne(u)' BY <1>2, <1>12, <2>2 DEF NamesOne
  <2>7. Works(u)'
    <3>1. \A k \in call'[u].todo : k \in Made' /\ Ended(k)'
      BY <1>2, <1>4, <1>6, <1>8, <1>10, <1>12, <2>2 DEF Works, Ended, Linked
    <3> QED BY <1>2, <1>6, <1>11, <1>12, <2>2, <3>1 DEF Works
  <2>8. Fresh(u)' BY <1>2, <1>6, <1>12, <2>2 DEF Fresh
  <2>9. LockStep(u) BY <1>12 DEF LockStep
  <2>10. \A k \in Made : \A i \in DOMAIN client[k].inbox :
          client[k].inbox[i] = u => Waiting(u, k)'
    BY <1>3, NotInInboxes, UsersAssumption DEF Notice
  <2> QED BY <1>1, <1>6, <1>7, <1>9, <1>12, <2>2, <2>4, <2>5, <2>6, <2>7, <2>8, <2>9, <2>10,
             KeepsOne
<1>13. CASE /\ call[u].op # "StopAll" /\ clients' = [clients EXCEPT ![n] = None]
            /\ mu' = Mutex!Unlocked(mu)
            /\ \/ /\ call[u].op = "RestartServer"
                  /\ call' = [call EXCEPT ![u].op = "Restarting", ![u].at = "lock"]
               \/ Returns(u, None)
  <2>1. /\ OnlyOf(u) /\ call'[u].at \in {"outside", "lock"}
        /\ call'[u].reply # "awaited" /\ call'[u].op \in {"none", "Restarting"}
        /\ call'[u].op = "Restarting" =>
             /\ call'[u].name = n /\ call'[u].since = call[u].since
             /\ call'[u].on = call[u].on /\ call'[u].got = call[u].got
        /\ call'[u].op = "none" =>
             call'[u].on = None /\ call'[u].got = None /\ call'[u].since = 0
    <3>1. CASE call' = [call EXCEPT ![u].op = "Restarting", ![u].at = "lock"]
      BY <1>3, <3>1, RestartingStep
    <3>2. CASE Returns(u, None) BY <3>2, ReturnsStep DEF None
    <3> QED BY <1>13, <3>1, <3>2
  <2>2. n \in Names /\ clients[n] = c
    BY <1>1, <1>2, <1>3, <1>13 DEF NamesOne, Works
  <2>3. clients \in [Names -> 0 .. Len(client)] BY DEF RegistryInv, Types
  <2>4. clients'[n] = None /\ \A m \in Names : m # n => clients'[m] = clients[m]
    BY <1>13, <2>2, <2>3
  <2>5. /\ mu' \in MutexOf(Users \cup Ids)
        /\ \A v \in Users : v # u => Locks(v)' /\ NamesOne(v)' /\ Works(v)'
        /\ \A v \in Users : v # u => call'[v].at # "initialize" /\ Fresh(v)
                                     /\ call'[v] = call[v]
    <3>1. Len(client) <= Len(client') /\ (mu' = mu \/ mu' = Mutex!Unlocked(mu))
      BY <1>6, <1>13
    <3> QED BY <1>3, <1>6, <1>10, <2>1, <3>1, OthersKeep
  <2>6. mu'.writer # u /\ u \notin mu'.readers /\ u \notin mu'.parked
    BY <1>3, <1>13, Leaves
  <2>7. Locks(u)' BY <2>1, <2>6 DEF Locks
  <2>8. NamesOne(u)' BY <2>1, <2>2 DEF NamesOne
  <2>9. Works(u)' BY <1>2, <1>6, <1>11, <2>1 DEF Works, None
  <2>10. ASSUME NEW v \in Users PROVE Fresh(v)'
    <3>1. \A w \in Users : call'[w].at # "initialize" BY <2>1, <2>5
    <3>2. CASE v = u BY <1>2, <1>6, <2>1, <2>4, <3>1, <3>2 DEF Fresh
    <3>3. CASE v # u
      <4>1. Fresh(v) /\ call'[v] = call[v] BY <2>5, <3>3
      <4>2. call[v].op = "Restarting" => call[v].name \in Names
        BY LocksOf DEF NamesOne
      <4> QED BY <1>6, <2>4, <3>1, <4>1, <4>2 DEF Fresh
    <3> QED BY <3>2, <3>3
  <2>11. Types'
    <3>1. clients' \in [Names -> 0 .. Len(client')] 
      <4>1. None \in 0 .. Len(client) BY <1>6 DEF None
      <4> QED BY <1>6, <1>13, <2>3, <4>1
    <3>2. Len(client') <= MaxClients /\ world' \in Worlds BY <1>1, <1>6 DEF RegistryInv, Types
    <3> QED BY <1>6, <2>1, <2>5, <3>1, <3>2 DEF Types, OnlyOf
  <2>12. Registry'
    <3> SUFFICES ASSUME NEW m \in Names, clients'[m] # None
                 PROVE  client'[clients'[m]].name = m /\ client'[clients'[m]].initialized
      BY DEF Registry
    <3>1. m # n /\ clients'[m] = clients[m] BY <2>4
    <3>2. clients[m] \in Made BY <1>6, <2>3, <3>1 DEF None
    <3> QED BY <1>7, <3>1, <3>2 DEF RegistryInv, Registry
  <2>13. NoServerLost'
    <3> SUFFICES ASSUME NEW k \in Made, client'[k].initialized, Linked(k)', ~client'[k].cancelled
                 PROVE  clients'[client'[k].name] = k
      BY <1>6 DEF NoServerLost
    <3>1. /\ client[k].initialized /\ Linked(k) /\ ~client[k].cancelled
          /\ client'[k].name = client[k].name
      BY <1>7 DEF Linked
    <3>2. clients[client[k].name] = k /\ client[k].name \in Names
      BY <3>1, ClientTyped DEF RegistryInv, NoServerLost, ClientRecord
    <3>3. k # c BY <1>8 DEF Linked
    <3> QED BY <2>2, <2>4, <3>1, <3>2, <3>3
  <2>14. Inboxes' BY <1>3, <1>6, <1>7, <2>1, InboxesOfOne
  <2> QED BY <2>5, <2>7, <2>8, <2>9, <2>10, <2>11, <2>12, <2>13, <2>14 DEF RegistryInv
<1> QED BY <1>1, <1>12, <1>13

----------------------------------------------------------------------------
(* Steps on a client. *)

\* The inbox of one client is as it should be.
InboxOK(c) ==
  /\ ~Linked(c) => client[c].inbox = <<>>
  /\ \A i \in DOMAIN client[c].inbox : client[c].inbox[i] # Notice =>
       /\ Waiting(client[c].inbox[i], c)
       /\ \A j \in DOMAIN client[c].inbox : client[c].inbox[j] = client[c].inbox[i] => j = i

\* The inbox that an update of one client gives it.
LEMMA InboxIs ==
  ASSUME NEW c, NEW s, client'[c].inbox = s, client'[c].link = "open",
         \A i \in DOMAIN s : s[i] # Notice =>
           /\ Waiting(s[i], c)'
           /\ \A j \in DOMAIN s : s[j] = s[i] => j = i
  PROVE  InboxOK(c)'
BY DEF InboxOK, Linked, Waiting

\* What a client was and stays, and what becomes of it.
Onward(k, r) ==
  /\ r \in ClientRecord
  /\ r.name = k.name /\ r.initialized = k.initialized
  /\ k.cancelled => r.cancelled
  /\ k.link # "open" => r.link # "open"

\* A step that moves its goroutine to a later place in the same method.
LEMMA OnwardStep ==
  ASSUME RegistryInv, NEW c \in Made, NEW r, Onward(client[c], r),
         client' = [client EXCEPT ![c] = r]
  PROVE  /\ client' \in Seq(ClientRecord) /\ Len(client') = Len(client) /\ Made' = Made
         /\ Made = 1 .. Len(client) /\ Len(client) \in Nat
         /\ client'[c] = r
         /\ \A k \in Made : k # c => client'[k] = client[k]
         /\ \A k \in Made : GoesOn(k)
<1>1. r \in ClientRecord BY DEF Onward
<1>2. /\ client' \in Seq(ClientRecord) /\ Len(client') = Len(client) /\ Made' = Made
      /\ Made = 1 .. Len(client) /\ Len(client) \in Nat
      /\ client'[c] = r
      /\ \A k \in Made : k # c => client'[k] = client[k]
  BY <1>1, ClientStep
<1>3. \A k \in Made : GoesOn(k) BY <1>2 DEF GoesOn, Ended, Linked, Onward
<1> QED BY <1>2, <1>3

\* A step of a server, a connection or a read loop.
LEMMA KeepsClient ==
  ASSUME RegistryInv, NEW c \in Made, UNCHANGED <<world, clients, call>>, LockStep(c),
         NEW r, Onward(client[c], r), client' = [client EXCEPT ![c] = r], InboxOK(c)'
  PROVE  RegistryInv'
<1>1. /\ client' \in Seq(ClientRecord) /\ Len(client') = Len(client) /\ Made' = Made
      /\ Made = 1 .. Len(client) /\ Len(client) \in Nat
      /\ client'[c] = r
      /\ \A k \in Made : k # c => client'[k] = client[k]
      /\ \A k \in Made : GoesOn(k)
  BY OnwardStep
<1>2. c \in Ids BY <1>1, BoundsAssumption DEF RegistryInv, Types, Ids
<1>3. c \notin Users BY <1>1, UsersAssumption
<1>4. /\ mu' \in MutexOf(Users \cup Ids)
      /\ \A v \in Users : Locks(v)'
      /\ \A v \in Users : mu'.writer = v => mu.writer = v
  BY <1>2, <1>3, LocksKept
<1>5. \A v \in Users : Stays(v) BY <1>4 DEF Stays
<1>6. call' \in [Users -> CallRecord] BY DEF RegistryInv, Types
<1>7. ASSUME NEW k \in Made PROVE InboxOK(k)'
  <2>1. InboxOK(k) BY DEF RegistryInv, Inboxes, InboxOK
  <2>2. CASE k # c BY <1>1, <2>1, <2>2 DEF InboxOK, Linked, Waiting
  <2> QED BY <2>2
<1>8. Inboxes' BY <1>1, <1>7 DEF Inboxes, InboxOK
<1> QED BY <1>1, <1>4, <1>5, <1>6, <1>8, Keeps

\* A step of a goroutine on a client, or one of the client that wakes it.
LEMMA KeepsPair ==
  ASSUME RegistryInv, NEW u \in Users, NEW c \in Made,
         UNCHANGED <<world, mu, clients>>, OnlyOf(u),
         NEW r, Onward(client[c], r), client' = [client EXCEPT ![c] = r],
         call'[u].at = "initialize" => call[u].at = "initialize"
           /\ call'[u].name = call[u].name /\ call'[u].on = call[u].on,
         \A k \in Made : k # c /\ Waiting(u, k) => Waiting(u, k)',
         Locks(u)', NamesOne(u)', Works(u)', Fresh(u)', InboxOK(c)'
  PROVE  RegistryInv'
<1>1. /\ client' \in Seq(ClientRecord) /\ Len(client') = Len(client) /\ Made' = Made
      /\ Made = 1 .. Len(client) /\ Len(client) \in Nat
      /\ client'[c] = r
      /\ \A k \in Made : k # c => client'[k] = client[k]
      /\ \A k \in Made : GoesOn(k)
  BY OnwardStep
<1>2. LockStep(u) BY DEF LockStep
<1>3. /\ mu' \in MutexOf(Users \cup Ids)
      /\ \A v \in Users : Locks(v)'
  BY <1>2, LocksKept DEF OnlyOf
<1>4. \A v \in Users : Stays(v) \/ (NamesOne(v)' /\ Works(v)' /\ Fresh(v)')
  BY DEF Stays, OnlyOf
<1>5. \A v \in Users : call'[v].at = "initialize" =>
        call[v].at = "initialize" /\ call'[v].name = call[v].name /\ call'[v].on = call[v].on
  BY DEF OnlyOf
<1>6. ASSUME NEW k \in Made PROVE InboxOK(k)'
  <2>1. CASE k # c
    <3>1. InboxOK(k) /\ client'[k] = client[k] BY <1>1, <2>1 DEF RegistryInv, Inboxes, InboxOK
    <3>2. ASSUME NEW i \in DOMAIN client[k].inbox, client[k].inbox[i] # Notice
          PROVE  Waiting(client[k].inbox[i], k)'
      <4>1. client[k].inbox[i] \in Users BY <3>2, NotInInboxes
      <4>2. Waiting(client[k].inbox[i], k) BY <3>1, <3>2 DEF InboxOK
      <4>3. CASE client[k].inbox[i] = u BY <2>1, <3>1, <4>2, <4>3 DEF Waiting
      <4>4. CASE client[k].inbox[i] # u BY <3>1, <4>1, <4>2, <4>4 DEF Waiting, OnlyOf
      <4> QED BY <4>3, <4>4
    <3> QED BY <3>1, <3>2 DEF InboxOK, Linked
  <2> QED BY <2>1
<1>7. Inboxes' BY <1>1, <1>6 DEF Inboxes, InboxOK
<1>8. call' \in [Users -> CallRecord] BY DEF OnlyOf
<1> QED BY <1>1, <1>3, <1>4, <1>5, <1>7, <1>8, Keeps

\* What the router's lock does to itself is a state of the lock.
LEMMA RouterSteps ==
  ASSUME NEW m \in MutexOf(Users \cup {Loop}), NEW g \in Users \cup {Loop}
  PROVE  /\ Mutex!Announced(m, g) \in MutexOf(Users \cup {Loop})
         /\ Mutex!Unlocked(m) \in MutexOf(Users \cup {Loop})
         /\ Mutex!RUnlocked(m, g) \in MutexOf(Users \cup {Loop})
         /\ Mutex!RLocked(m, g) \in MutexOf(Users \cup {Loop})
<1> DEFINE S == Users \cup {Loop}
<1>1. m \in MutexOf(S) /\ g \in S OBVIOUS
<1> HIDE DEF S
<1> QED BY <1>1 DEF MutexOf, Mutex!Announced, Mutex!Unlocked, Mutex!RUnlocked, Mutex!RLocked

\* A request is sent, or refused by a client that is not initialized.
LEMMA SendKeeps == ASSUME RegistryInv, NEW u \in Users, Send(u) PROVE RegistryInv'
<1>1. /\ call[u].at = "send" /\ UNCHANGED <<world, mu, clients, client>>
      /\ Asks(u, "request", call[u].got) \/ Returns(u, call[u].got)
  BY DEF Send, At, Held
<1>2. /\ Locks(u) /\ NamesOne(u) /\ Works(u) /\ Fresh(u)
      /\ mu.writer # u /\ u \notin mu.readers /\ u \notin mu.parked
  BY <1>1, LocksOf
<1>3. /\ call[u].reply # "awaited" /\ call[u].got \in 0 .. Len(client)
      /\ call[u].got # None /\ client[call[u].got].initialized
      /\ call[u].got \in Nat
  BY <1>1, <1>2 DEF Works
<1>4. LockStep(u) BY <1>1 DEF LockStep
<1>5. CASE Returns(u, call[u].got) BY <1>1, <1>2, <1>3, <1>4, <1>5, ReturnsKeeps
<1>6. CASE Asks(u, "request", call[u].got)
  <2>1. /\ OnlyOf(u) /\ call'[u].at = "request" /\ call'[u].on = call[u].got
        /\ call'[u].reply = "awaited"
        /\ call'[u].op = call[u].op /\ call'[u].name = call[u].name
        /\ call'[u].todo = call[u].todo
        /\ call'[u].since = call[u].since /\ call'[u].got = call[u].got
    BY <1>3, <1>6, AsksStep DEF Places
  <2>2. Locks(u)' BY <1>1, <1>2, <2>1 DEF Locks
  <2>3. NamesOne(u)' BY <1>1, <1>2, <2>1 DEF NamesOne
  <2>4. Works(u)' BY <1>1, <1>2, <1>3, <2>1 DEF Works, Made, Ended, Linked
  <2>5. Fresh(u)' BY <1>1, <1>2, <2>1 DEF Fresh, OnlyOf
  <2> QED BY <1>1, <1>3, <1>4, <2>1, <2>2, <2>3, <2>4, <2>5, KeepsCall
<1> QED BY <1>1, <1>5, <1>6

\* A request ends with a result or an error.
LEMMA RequestDoneKeeps ==
  ASSUME RegistryInv, NEW u \in Users, RequestDone(u) PROVE RegistryInv'
<1>1. /\ call[u].at = "request" /\ call[u].reply # "awaited"
      /\ UNCHANGED <<world, mu, clients, client>> /\ Returns(u, call[u].got)
  BY DEF RequestDone, Answered, At, Held
<1>2. /\ Works(u) /\ mu.writer # u /\ u \notin mu.readers /\ u \notin mu.parked
  BY <1>1, LocksOf
<1>3. call[u].got \in 0 .. Len(client) /\ client[call[u].got].initialized
  BY <1>1, <1>2 DEF Works
<1>4. LockStep(u) BY <1>1 DEF LockStep
<1> QED BY <1>1, <1>2, <1>3, <1>4, ReturnsKeeps

\* The client that a goroutine holds.
LEMMA HeldClient ==
  ASSUME RegistryInv, NEW u \in Users,
         call[u].at \in {"send", "request", "kill", "register", "registering"}
  PROVE  /\ Held(u) \in Made /\ client[Held(u)] \in ClientRecord
         /\ client[Held(u)].initialized /\ Held(u) = call[u].got
         /\ InboxOK(Held(u))
         /\ mu.writer # u /\ u \notin mu.readers /\ u \notin mu.parked
<1>1. /\ Works(u) /\ mu.writer # u /\ u \notin mu.readers /\ u \notin mu.parked BY LocksOf
<1>2. call[u].got \in Made /\ client[call[u].got].initialized
  BY <1>1 DEF Works, RegistryInv, Types, Made, None
<1> QED BY <1>1, <1>2, ClientTyped DEF Held, RegistryInv, Inboxes, InboxOK

\* A call on a client returns it.
LEMMA ReturnsHeld ==
  ASSUME RegistryInv, NEW u \in Users, mu' = mu,
         call[u].at \in {"send", "request", "kill", "register", "registering"},
         Returns(u, Held(u)),
         Len(client') = Len(client), client'[Held(u)].initialized
  PROVE  /\ OnlyOf(u) /\ call'[u].at = "outside"
         /\ Locks(u)' /\ NamesOne(u)' /\ Works(u)' /\ Fresh(u)'
<1>1. /\ Held(u) \in Made /\ Held(u) \in Nat /\ Held(u) \in 1 .. Len(client)
      /\ Held(u) = call[u].got /\ Len(client) \in Nat
      /\ mu.writer # u /\ u \notin mu.readers /\ u \notin mu.parked
  BY HeldClient, ClientTyped DEF RegistryInv, Types
<1>2. /\ OnlyOf(u) /\ call'[u].at = "outside" /\ call'[u].op = "none"
      /\ call'[u].name = None /\ call'[u].on = None /\ call'[u].todo = {}
      /\ call'[u].since = 0 /\ call'[u].got = Held(u) /\ call'[u].reply = "none"
  BY <1>1, ReturnsStep
<1>3. client'[call'[u].got].initialized BY <1>2
<1>4. Locks(u)' BY <1>1, <1>2 DEF Locks
<1>5. NamesOne(u)' BY <1>2 DEF NamesOne
<1>6. Works(u)' BY <1>1, <1>2, <1>3 DEF Works, None
<1>7. Fresh(u)' BY <1>1, <1>2 DEF Fresh
<1> QED BY <1>2, <1>4, <1>5, <1>6, <1>7

\* Whoever waits for no answer goes on not waiting.
LEMMA NotWaiting ==
  ASSUME RegistryInv, NEW u \in Users,
         call[u].at \notin {"initialize", "shutdown", "request"}
  PROVE  call[u].reply # "awaited" /\ \A k \in Made : ~Waiting(u, k)
BY LocksOf DEF Works, Waiting

\* Client.Kill: context cancelled, connection closed.
LEMMA KillKeeps == ASSUME RegistryInv, NEW u \in Users, Kill(u) PROVE RegistryInv'
<1> DEFINE c == Held(u)
<1>1. /\ call[u].at = "kill" /\ Returns(u, c) /\ UNCHANGED <<world, mu, clients>>
      /\ client' = [client EXCEPT ![c] = [Closed(@) EXCEPT !.cancelled = TRUE]]
  BY DEF Kill, At
<1>2. c \in Made /\ client[c] \in ClientRecord /\ client[c].initialized
  BY <1>1, HeldClient
<1>3. PICK k \in Made : k = c BY <1>2
<1> DEFINE r == [Closed(client[k]) EXCEPT !.cancelled = TRUE]
<1>4. client' = [client EXCEPT ![k] = r]
  <2>1. client' = [client EXCEPT ![c] = [Closed(client[c]) EXCEPT !.cancelled = TRUE]]
    BY <1>1
  <2> HIDE DEF c
  <2> QED BY <1>3, <2>1
<1>5. Onward(client[k], r) /\ r.inbox = <<>> /\ r.initialized
  <2>1. client[k] \in ClientRecord BY <1>2, <1>3
  <2>2. Closed(client[k]) \in ClientRecord
    <3>1. <<>> \in Seq(Message) OBVIOUS
    <3> QED BY <2>1, <3>1 DEF Closed, ClientRecord
  <2>3. /\ Closed(client[k]).name = client[k].name
        /\ Closed(client[k]).initialized = client[k].initialized
        /\ Closed(client[k]).link = "closed" /\ Closed(client[k]).inbox = <<>>
    BY <2>1 DEF Closed, ClientRecord
  <2> HIDE DEF Closed
  <2>4. r \in ClientRecord /\ r.name = client[k].name
        /\ r.initialized = client[k].initialized
        /\ r.cancelled = TRUE /\ r.link = "closed" /\ r.inbox = <<>>
    BY <2>2, <2>3 DEF ClientRecord
  <2> QED BY <1>2, <1>3, <2>4 DEF Onward
<1> HIDE DEF r
<1>6. client'[k] = r /\ Len(client') = Len(client) BY <1>4, <1>5, OnwardStep
<1>7. /\ OnlyOf(u) /\ call'[u].at = "outside"
      /\ Locks(u)' /\ NamesOne(u)' /\ Works(u)' /\ Fresh(u)'
  BY <1>1, <1>3, <1>5, <1>6, ReturnsHeld
<1>8. InboxOK(k)' BY <1>5, <1>6 DEF InboxOK
<1>9. \A j \in Made : ~Waiting(u, j) BY <1>1, NotWaiting
<1> QED BY <1>1, <1>4, <1>5, <1>7, <1>8, <1>9, KeepsPair

\* A goroutine takes its place in a client's router, or leaves it.
LEMMA RouterOnward ==
  ASSUME RegistryInv, NEW c \in Made, NEW m \in MutexOf(Users \cup {Loop})
  PROVE  /\ Onward(client[c], [client[c] EXCEPT !.router = m])
         /\ [client[c] EXCEPT !.router = m].inbox = client[c].inbox
         /\ [client[c] EXCEPT !.router = m].link = client[c].link
         /\ client[c].router \in MutexOf(Users \cup {Loop})
<1>1. client[c] \in ClientRecord BY ClientTyped
<1> HIDE DEF MutexOf
<1> QED BY <1>1 DEF Onward, ClientRecord

\* A goroutine wants the router's lock.
LEMMA RegisterHandlerKeeps ==
  ASSUME RegistryInv, NEW u \in Users, RegisterHandler(u) PROVE RegistryInv'
<1> DEFINE c == Held(u)
<1>1. /\ call[u].at = "register" /\ Goes(u, "registering") /\ UNCHANGED <<world, mu, clients>>
      /\ client' = [client EXCEPT ![c].router = Mutex!Announced(@, u)]
  BY DEF RegisterHandler, At
<1>2. PICK k \in Made : k = c BY <1>1, HeldClient
<1> DEFINE m == Mutex!Announced(client[k].router, u)
           r == [client[k] EXCEPT !.router = m]
<1>3. client' = [client EXCEPT ![k] = r] BY <1>1, <1>2
<1>4. m \in MutexOf(Users \cup {Loop}) BY ClientTyped, RouterSteps DEF ClientRecord
<1> HIDE DEF m
<1>5. Onward(client[k], r) /\ r.inbox = client[k].inbox /\ r.link = client[k].link
  BY <1>4, RouterOnward
<1> HIDE DEF r
<1>6. /\ client'[k] = r /\ Len(client') = Len(client) /\ Made' = Made
      /\ \A j \in Made : GoesOn(j)
  BY <1>3, <1>5, OnwardStep
<1>7. /\ OnlyOf(u) /\ call'[u].at = "registering"
      /\ call'[u].op = call[u].op /\ call'[u].name = call[u].name
      /\ call'[u].on = call[u].on /\ call'[u].todo = call[u].todo
      /\ call'[u].since = call[u].since /\ call'[u].got = call[u].got
      /\ call'[u].reply = call[u].reply
  BY <1>1, GoesStep DEF Places
<1>8. /\ Locks(u) /\ NamesOne(u) /\ Works(u) /\ Fresh(u)
      /\ mu.writer # u /\ u \notin mu.readers /\ u \notin mu.parked
      /\ \A j \in Made : ~Waiting(u, j)
  BY <1>1, LocksOf, NotWaiting
<1>9. Locks(u)' BY <1>1, <1>7, <1>8 DEF Locks
<1>10. NamesOne(u)' BY <1>1, <1>7, <1>8 DEF NamesOne
<1>11. Works(u)'
  <2>1. call[u].got = k /\ client'[call[u].got].initialized
    BY <1>1, <1>2, <1>6, HeldClient DEF GoesOn
  <2>2. call[u].op = "StopAll" => \A j \in call[u].todo : j \in Made' /\ Ended(j)'
    BY <1>6, <1>8 DEF Works, GoesOn
  <2> QED BY <1>1, <1>6, <1>7, <1>8, <2>1, <2>2 DEF Works
<1>12. Fresh(u)' BY <1>1, <1>6, <1>7, <1>8 DEF Fresh, OnlyOf
<1>13. InboxOK(k)'
  <2>1. InboxOK(k) BY DEF RegistryInv, Inboxes, InboxOK
  <2>2. ASSUME NEW i \in DOMAIN client[k].inbox, client[k].inbox[i] # Notice
        PROVE  Waiting(client[k].inbox[i], k)'
    <3>1. client[k].inbox[i] \in Users /\ client[k].inbox[i] # u
      BY <1>8, <2>1, <2>2, NotInInboxes DEF InboxOK
    <3> QED BY <1>5, <1>6, <1>7, <2>1, <2>2, <3>1 DEF InboxOK, Waiting, OnlyOf
  <2> QED BY <1>5, <1>6, <2>1, <2>2 DEF InboxOK, Linked
<1> QED BY <1>1, <1>3, <1>5, <1>7, <1>8, <1>9, <1>10, <1>11, <1>12, <1>13, KeepsPair

\* The handler is registered.
LEMMA HandlerRegisteredKeeps ==
  ASSUME RegistryInv, NEW u \in Users, HandlerRegistered(u) PROVE RegistryInv'
<1> DEFINE c == Held(u)
<1>1. /\ call[u].at = "registering" /\ Returns(u, c) /\ UNCHANGED <<world, mu, clients>>
      /\ client' = [client EXCEPT ![c].router = Mutex!Unlocked(@)]
  BY DEF HandlerRegistered, At
<1>2. PICK k \in Made : k = c BY <1>1, HeldClient
<1> DEFINE m == Mutex!Unlocked(client[k].router)
           r == [client[k] EXCEPT !.router = m]
<1>3. client' = [client EXCEPT ![k] = r] BY <1>1, <1>2
<1>4. m \in MutexOf(Users \cup {Loop}) BY ClientTyped, RouterSteps DEF ClientRecord
<1> HIDE DEF m
<1>5. Onward(client[k], r) /\ r.inbox = client[k].inbox /\ r.link = client[k].link
  BY <1>4, RouterOnward
<1> HIDE DEF r
<1>6. client'[k] = r /\ Len(client') = Len(client) BY <1>3, <1>5, OnwardStep
<1>7. client[k].initialized /\ r.initialized BY <1>1, <1>2, <1>5, HeldClient DEF Onward
<1>8. /\ OnlyOf(u) /\ call'[u].at = "outside"
      /\ Locks(u)' /\ NamesOne(u)' /\ Works(u)' /\ Fresh(u)'
  BY <1>1, <1>2, <1>6, <1>7, ReturnsHeld
<1>9. \A j \in Made : ~Waiting(u, j) BY <1>1, NotWaiting
<1>10. InboxOK(k)'
  <2>1. InboxOK(k) BY DEF RegistryInv, Inboxes, InboxOK
  <2>2. ASSUME NEW i \in DOMAIN client[k].inbox, client[k].inbox[i] # Notice
        PROVE  Waiting(client[k].inbox[i], k)'
    <3>1. client[k].inbox[i] \in Users /\ client[k].inbox[i] # u
      BY <1>9, <2>1, <2>2, NotInInboxes DEF InboxOK
    <3> QED BY <1>5, <1>6, <1>8, <2>1, <2>2, <3>1 DEF InboxOK, Waiting, OnlyOf
  <2> QED BY <1>5, <1>6, <2>1, <2>2 DEF InboxOK, Linked
<1> QED BY <1>1, <1>3, <1>5, <1>8, <1>9, <1>10, KeepsPair

\* What a goroutine that waits has: its call goes on whatever the reply.
LEMMA AnsweredStep ==
  ASSUME RegistryInv, NEW u \in Users, NEW reply \in {"result", "error"},
         UNCHANGED <<mu, clients>>, Len(client') = Len(client), Made' = Made,
         \A k \in Made : GoesOn(k),
         call[u].reply = "awaited", call' = [call EXCEPT ![u].reply = reply]
  PROVE  /\ OnlyOf(u) /\ call'[u].at = call[u].at /\ call'[u].name = call[u].name
         /\ call'[u].on = call[u].on /\ call'[u].reply = reply
         /\ Locks(u)' /\ NamesOne(u)' /\ Works(u)' /\ Fresh(u)'
<1>1. /\ Locks(u) /\ NamesOne(u) /\ Works(u) /\ Fresh(u)
      /\ call[u] \in CallRecord /\ call \in [Users -> CallRecord]
      /\ Made = 1 .. Len(client) /\ Len(client) \in Nat
  BY LocksOf DEF RegistryInv, Types, Made
<1>2. call'[u] = [call[u] EXCEPT !.reply = reply] BY <1>1
<1>3. /\ call'[u].at = call[u].at /\ call'[u].name = call[u].name
      /\ call'[u].on = call[u].on /\ call'[u].reply = reply
      /\ call'[u].op = call[u].op /\ call'[u].todo = call[u].todo
      /\ call'[u].since = call[u].since /\ call'[u].got = call[u].got
  BY <1>1, <1>2 DEF CallRecord
<1>4. OnlyOf(u)
  <2>1. call'[u] \in CallRecord BY <1>1, <1>2 DEF CallRecord, Replies
  <2> QED BY <1>1, <2>1 DEF OnlyOf
<1>5. Locks(u)' BY <1>1, <1>3 DEF Locks, Mutex!Owns
<1>6. NamesOne(u)' BY <1>1, <1>3 DEF NamesOne
<1>7. Works(u)'
  <2>1. /\ call[u].got # None => client'[call[u].got].initialized
        /\ call[u].at = "initialize" =>
             /\ ~client'[call[u].on].initialized
             /\ client'[call[u].on].name = call[u].name
    BY <1>1 DEF Works, GoesOn, None
  <2>2. call[u].op = "StopAll" => \A j \in call[u].todo : j \in Made' /\ Ended(j)'
    BY <1>1 DEF Works, GoesOn
  <2> QED BY <1>1, <1>3, <2>1, <2>2 DEF Works
<1>8. Fresh(u)' BY <1>1, <1>3, <1>4 DEF Fresh, OnlyOf
<1> QED BY <1>3, <1>4, <1>5, <1>6, <1>7, <1>8

\* A call on a closed connection fails.
LEMMA DisconnectedKeeps ==
  ASSUME RegistryInv, NEW u \in Users, Disconnected(u) PROVE RegistryInv'
<1>1. /\ \E c \in Made : Waiting(u, c) /\ ~Linked(c)
      /\ call' = [call EXCEPT ![u].reply = "error"]
      /\ UNCHANGED <<world, mu, clients, client>>
  BY DEF Disconnected
<1>2. PICK c \in Made : Waiting(u, c) /\ ~Linked(c) BY <1>1
<1>3. \A k \in Made : GoesOn(k) BY <1>1 DEF GoesOn, Ended, Linked
<1>4. /\ OnlyOf(u) /\ call'[u].at = call[u].at /\ call'[u].name = call[u].name
      /\ call'[u].on = call[u].on /\ call'[u].reply = "error"
      /\ Locks(u)' /\ NamesOne(u)' /\ Works(u)' /\ Fresh(u)'
  <2>1. Made' = Made /\ Len(client') = Len(client) BY <1>1 DEF Made
  <2> QED BY <1>1, <1>2, <1>3, <2>1, AnsweredStep DEF Waiting
<1>5. \A k \in Made : \A i \in DOMAIN client[k].inbox :
         client[k].inbox[i] = u => Waiting(u, k)'
  BY <1>2, NotInInboxes, UsersAssumption DEF Notice, Waiting
<1>6. client' \in Seq(ClientRecord) /\ LockStep(u) BY <1>1 DEF RegistryInv, Types, LockStep
<1> QED BY <1>1, <1>3, <1>4, <1>5, <1>6, KeepsOne

\* The read loop gives an answer to its caller.
LEMMA DeliverAnswerKeeps ==
  ASSUME RegistryInv, NEW c \in Made, UNCHANGED <<world, mu, clients>>,
         client[c].inbox # <<>>, Head(client[c].inbox) # Notice, Linked(c),
         client' = [client EXCEPT ![c].inbox = Tail(@)],
         NEW reply \in {"result", "error"},
         call' = [call EXCEPT ![Head(client[c].inbox)].reply = reply]
  PROVE  RegistryInv'
<1>0. PICK r : r = [client[c] EXCEPT !.inbox = Tail(@)] OBVIOUS
<1>1. client[c] \in ClientRecord /\ client[c].inbox \in Seq(Message) BY ClientTyped
<1>2. client' = [client EXCEPT ![c] = r] BY <1>0
<1>3. /\ Tail(client[c].inbox) \in Seq(Message)
      /\ Head(client[c].inbox) = client[c].inbox[1]
      /\ Len(Tail(client[c].inbox)) = Len(client[c].inbox) - 1
      /\ \A i \in 1 .. Len(client[c].inbox) - 1 :
           Tail(client[c].inbox)[i] = client[c].inbox[i + 1]
      /\ Len(client[c].inbox) \in Nat \ {0}
  BY <1>1
<1>4. Onward(client[c], r) /\ r.inbox = Tail(client[c].inbox) /\ r.link = client[c].link
  BY <1>0, <1>1, <1>3 DEF Onward, ClientRecord
<1>5. /\ client'[c] = r /\ Len(client') = Len(client) /\ Made' = Made
      /\ \A j \in Made : GoesOn(j)
  BY <1>2, <1>4, OnwardStep
<1>6. PICK u \in Users : u = Head(client[c].inbox) /\ Waiting(u, c)
  <2>1. 1 \in DOMAIN client[c].inbox BY <1>1, <1>3
  <2> QED BY <1>3, <2>1, NotInInboxes DEF Waiting
<1>7. /\ OnlyOf(u) /\ call'[u].at = call[u].at /\ call'[u].name = call[u].name
      /\ call'[u].on = call[u].on /\ call'[u].reply = reply
      /\ Locks(u)' /\ NamesOne(u)' /\ Works(u)' /\ Fresh(u)'
  BY <1>5, <1>6, AnsweredStep DEF Waiting
<1>8. \A k \in Made : k # c => ~Waiting(u, k) BY <1>6 DEF Waiting
<1>9. InboxOK(c)'
  <2>1. InboxOK(c) BY DEF RegistryInv, Inboxes, InboxOK
  <2>2. DOMAIN client[c].inbox = 1 .. Len(client[c].inbox)
        /\ DOMAIN r.inbox = 1 .. Len(client[c].inbox) - 1
    BY <1>1, <1>3, <1>4
  <2>3. ASSUME NEW i \in DOMAIN r.inbox, r.inbox[i] # Notice
        PROVE  /\ Waiting(r.inbox[i], c)'
               /\ \A j \in DOMAIN r.inbox : r.inbox[j] = r.inbox[i] => j = i
    <3>1. i + 1 \in DOMAIN client[c].inbox /\ 1 \in DOMAIN client[c].inbox
          /\ r.inbox[i] = client[c].inbox[i + 1] /\ i + 1 # 1
      BY <1>3, <1>4, <2>2, <2>3
    <3>2. r.inbox[i] # u BY <1>3, <1>6, <2>1, <2>3, <3>1 DEF InboxOK
    <3>3. ASSUME NEW j \in DOMAIN r.inbox, r.inbox[j] = r.inbox[i] PROVE j + 1 = i + 1
      <4>1. j + 1 \in DOMAIN client[c].inbox /\ r.inbox[j] = client[c].inbox[j + 1]
        BY <1>3, <1>4, <2>2
      <4>2. client[c].inbox[i + 1] # Notice BY <2>3, <3>1
      <4> QED BY <2>1, <3>1, <3>3, <4>1, <4>2 DEF InboxOK
    <3>4. Waiting(r.inbox[i], c) /\ r.inbox[i] \in Users
      BY <2>1, <2>3, <3>1, NotInInboxes DEF InboxOK
    <3>5. call'[r.inbox[i]] = call[r.inbox[i]] BY <1>7, <3>2, <3>4 DEF OnlyOf
    <3>6. \A j \in DOMAIN r.inbox : r.inbox[j] = r.inbox[i] => j = i
      BY <2>2, <3>3
    <3> QED BY <1>5, <3>4, <3>5, <3>6 DEF Waiting
  <2>4. client'[c].inbox = r.inbox /\ client'[c].link = "open"
    BY <1>4, <1>5 DEF Linked
  <2> QED BY <2>3, <2>4, InboxIs
<1> QED BY <1>2, <1>4, <1>7, <1>8, <1>9, KeepsPair

\* Servers that answer and notify.
LEMMA AnswerKeeps ==
  ASSUME RegistryInv, NEW c \in Made, NEW u \in Users, Answer(c, u) PROVE RegistryInv'
<1>1. /\ Linked(c) /\ Waiting(u, c) /\ ~Contains(client[c].inbox, u)
      /\ client' = [client EXCEPT ![c].inbox = Append(@, u)]
      /\ UNCHANGED <<world, mu, clients, call>>
  BY DEF Answer, Sends
<1>2. PICK r : r = [client[c] EXCEPT !.inbox = Append(@, u)] OBVIOUS
<1>3. client[c] \in ClientRecord /\ client[c].inbox \in Seq(Message) /\ u \in Message
  BY ClientTyped DEF Message
<1>4. /\ Append(client[c].inbox, u) \in Seq(Message)
      /\ Len(Append(client[c].inbox, u)) = Len(client[c].inbox) + 1
      /\ \A i \in 1 .. Len(client[c].inbox) :
           Append(client[c].inbox, u)[i] = client[c].inbox[i]
      /\ Append(client[c].inbox, u)[Len(client[c].inbox) + 1] = u
      /\ Len(client[c].inbox) \in Nat
  BY <1>3, AppendProperties
<1>5. /\ Onward(client[c], r) /\ r.inbox = Append(client[c].inbox, u)
      /\ r.link = client[c].link
  BY <1>2, <1>3, <1>4 DEF Onward, ClientRecord
<1>6. client' = [client EXCEPT ![c] = r] BY <1>1, <1>2
<1>7. client'[c] = r BY <1>5, <1>6, OnwardStep
<1>8. InboxOK(c)'
  <2>1. InboxOK(c) BY DEF RegistryInv, Inboxes, InboxOK
  <2>2. /\ DOMAIN client[c].inbox = 1 .. Len(client[c].inbox)
        /\ DOMAIN r.inbox = 1 .. Len(client[c].inbox) + 1
    BY <1>3, <1>4, <1>5
  <2>3. \A i \in DOMAIN client[c].inbox : client[c].inbox[i] # u
    BY <1>1 DEF Contains
  <2>4. ASSUME NEW i \in DOMAIN r.inbox, r.inbox[i] # Notice
        PROVE  /\ Waiting(r.inbox[i], c)'
               /\ \A j \in DOMAIN r.inbox : r.inbox[j] = r.inbox[i] => j = i
    <3>1. Waiting(r.inbox[i], c)
      BY <1>1, <1>4, <1>5, <2>1, <2>2, <2>4 DEF InboxOK
    <3>2. \A j \in DOMAIN r.inbox : r.inbox[j] = r.inbox[i] => j = i
      <4>1. CASE i = Len(client[c].inbox) + 1 BY <1>4, <1>5, <2>2, <2>3, <4>1
      <4>2. CASE i \in DOMAIN client[c].inbox
        BY <1>4, <1>5, <2>1, <2>2, <2>3, <2>4, <4>2 DEF InboxOK
      <4> QED BY <1>4, <2>2, <4>1, <4>2
    <3> QED BY <1>1, <3>1, <3>2 DEF Waiting
  <2>5. client'[c].inbox = r.inbox /\ client'[c].link = "open"
    BY <1>1, <1>5, <1>7 DEF Linked
  <2> QED BY <2>4, <2>5, InboxIs
<1>9. LockStep(c) BY <1>1 DEF LockStep
<1> QED BY <1>1, <1>5, <1>6, <1>8, <1>9, KeepsClient

\* A server sends a notification.
LEMMA NotifyKeeps == ASSUME RegistryInv, NEW c \in Made, Notify(c) PROVE RegistryInv'
<1>1. /\ Linked(c)
      /\ client' = [client EXCEPT ![c].inbox = Append(@, Notice), ![c].notices = @ + 1]
      /\ UNCHANGED <<world, mu, clients, call>>
  BY DEF Notify
<1>2. PICK r : r = [client[c] EXCEPT !.inbox = Append(client[c].inbox, Notice),
                                     !.notices = client[c].notices + 1]
  OBVIOUS
<1>3. client[c] \in ClientRecord /\ client[c].inbox \in Seq(Message) /\ Notice \in Message
      /\ client \in Seq(ClientRecord)
  BY ClientTyped DEF Message, RegistryInv, Types
<1>4. /\ Append(client[c].inbox, Notice) \in Seq(Message)
      /\ Len(Append(client[c].inbox, Notice)) = Len(client[c].inbox) + 1
      /\ \A i \in 1 .. Len(client[c].inbox) :
           Append(client[c].inbox, Notice)[i] = client[c].inbox[i]
      /\ Append(client[c].inbox, Notice)[Len(client[c].inbox) + 1] = Notice
      /\ Len(client[c].inbox) \in Nat
  BY <1>3, AppendProperties
<1>5. /\ Onward(client[c], r) /\ r.inbox = Append(client[c].inbox, Notice)
      /\ r.link = client[c].link
  <2>1. PICK s : s = Append(client[c].inbox, Notice) OBVIOUS
  <2>2. PICK n : n = client[c].notices + 1 OBVIOUS
  <2>3. s \in Seq(Message) /\ n \in Nat BY <1>3, <1>4, <2>1, <2>2 DEF ClientRecord
  <2>4. r = [client[c] EXCEPT !.inbox = s, !.notices = n] BY <1>2, <2>1, <2>2
  <2>5. /\ r \in ClientRecord /\ r.inbox = s /\ r.name = client[c].name
        /\ r.initialized = client[c].initialized /\ r.cancelled = client[c].cancelled
        /\ r.link = client[c].link
    BY <1>3, <2>3, <2>4 DEF ClientRecord
  <2> QED BY <2>1, <2>5 DEF Onward
<1>6. client' = [client EXCEPT ![c] = r]
  <2>1. client' = [client EXCEPT ![c] = [client[c] EXCEPT
                     !.inbox = Append(client[c].inbox, Notice),
                     !.notices = client[c].notices + 1]]
    BY <1>1, <1>3 DEF Made, ClientRecord
  <2> QED BY <1>2, <2>1
<1>7. client'[c] = r BY <1>5, <1>6, OnwardStep
<1>8. InboxOK(c)'
  <2>1. InboxOK(c) BY DEF RegistryInv, Inboxes, InboxOK
  <2>2. /\ DOMAIN client[c].inbox = 1 .. Len(client[c].inbox)
        /\ DOMAIN r.inbox = 1 .. Len(client[c].inbox) + 1
    BY <1>3, <1>4, <1>5
  <2>3. ASSUME NEW i \in DOMAIN r.inbox, r.inbox[i] # Notice
        PROVE  /\ Waiting(r.inbox[i], c)'
               /\ \A j \in DOMAIN r.inbox : r.inbox[j] = r.inbox[i] => j = i
    <3>1. i \in DOMAIN client[c].inbox /\ r.inbox[i] = client[c].inbox[i]
      BY <1>4, <1>5, <2>2, <2>3
    <3>2. Waiting(r.inbox[i], c)' BY <1>1, <2>1, <2>3, <3>1 DEF InboxOK, Waiting
    <3>3. \A j \in DOMAIN r.inbox : r.inbox[j] = r.inbox[i] => j = i
      BY <1>4, <1>5, <2>1, <2>2, <2>3, <3>1 DEF InboxOK
    <3> QED BY <3>2, <3>3
  <2>4. client'[c].inbox = r.inbox /\ client'[c].link = "open"
    BY <1>1, <1>5, <1>7 DEF Linked
  <2> QED BY <2>3, <2>4, InboxIs
<1>9. LockStep(c) BY <1>1 DEF LockStep
<1> QED BY <1>1, <1>5, <1>6, <1>8, <1>9, KeepsClient

\* Steps that leave the inbox and the connection of a client as they are.
LEMMA KeepsInbox ==
  ASSUME RegistryInv, NEW c \in Made, UNCHANGED <<world, clients, call>>, LockStep(c),
         NEW r \in ClientRecord, r.name = client[c].name,
         r.initialized = client[c].initialized, r.cancelled = client[c].cancelled,
         r.inbox = client[c].inbox, r.link = client[c].link,
         client' = [client EXCEPT ![c] = r]
  PROVE  RegistryInv'
<1>1. Onward(client[c], r) BY DEF Onward
<1>2. client'[c] = r BY <1>1, OnwardStep
<1>3. InboxOK(c) BY DEF RegistryInv, Inboxes, InboxOK
<1>4. InboxOK(c)' BY <1>2, <1>3 DEF InboxOK, Linked, Waiting
<1> QED BY <1>1, <1>4, KeepsClient

\* A process ends.
LEMMA DiesKeeps ==
  ASSUME RegistryInv, NEW c \in Made,
         Crash(c) \/ HangUp(c) \/ Killed(c) \/ Reap(c)
  PROVE  RegistryInv'
<1>1. UNCHANGED <<world, mu, clients, call>> BY DEF Crash, HangUp, Killed, Reap
<1>2. client[c] \in ClientRecord /\ client \in Seq(ClientRecord)
  BY ClientTyped DEF RegistryInv, Types
<1>3. LockStep(c) BY <1>1 DEF LockStep
<1>4. CASE Dies(c)
  <2>1. PICK r : r = [client[c] EXCEPT !.process = "dead", !.output = "ended"] OBVIOUS
  <2>2. client' = [client EXCEPT ![c] = r] BY <1>2, <1>4, <2>1 DEF Dies, Made
  <2>3. r \in ClientRecord /\ r.name = client[c].name /\ r.initialized = client[c].initialized
        /\ r.cancelled = client[c].cancelled
        /\ r.inbox = client[c].inbox /\ r.link = client[c].link
    BY <1>2, <2>1 DEF ClientRecord
  <2> QED BY <1>1, <1>3, <2>2, <2>3, KeepsInbox
<1>5. CASE client' = [client EXCEPT ![c].output = "ended"]
  <2>1. PICK r : r = [client[c] EXCEPT !.output = "ended"] OBVIOUS
  <2>2. client' = [client EXCEPT ![c] = r] BY <1>5, <2>1
  <2>3. r \in ClientRecord /\ r.name = client[c].name /\ r.initialized = client[c].initialized
        /\ r.cancelled = client[c].cancelled
        /\ r.inbox = client[c].inbox /\ r.link = client[c].link
    BY <1>2, <2>1 DEF ClientRecord
  <2> QED BY <1>1, <1>3, <2>2, <2>3, KeepsInbox
<1> QED BY <1>4, <1>5 DEF Crash, HangUp, Killed, Reap

\* A step of the registry's lock by a client's read loop.
LEMMA RunHandlerKeeps ==
  ASSUME RegistryInv, NEW c \in Made, RunHandler(c) PROVE RegistryInv'
<1>1. /\ client' = [client EXCEPT ![c].loop = "handling"]
      /\ mu' = Mutex!RLocked(mu, c) \/ mu' = mu
      /\ UNCHANGED <<world, clients, call>>
  BY DEF RunHandler
<1>2. client[c] \in ClientRecord BY ClientTyped
<1>3. PICK r : r = [client[c] EXCEPT !.loop = "handling"] OBVIOUS
<1>4. client' = [client EXCEPT ![c] = r] BY <1>1, <1>3
<1>5. r \in ClientRecord /\ r.name = client[c].name /\ r.initialized = client[c].initialized
      /\ r.cancelled = client[c].cancelled
      /\ r.inbox = client[c].inbox /\ r.link = client[c].link
  BY <1>2, <1>3 DEF ClientRecord
<1>6. LockStep(c) BY <1>1 DEF LockStep
<1> QED BY <1>1, <1>4, <1>5, <1>6, KeepsInbox

\* A handler of a notification returns.
LEMMA HandlerReturnsKeeps ==
  ASSUME RegistryInv, NEW c \in Made, HandlerReturns(c) PROVE RegistryInv'
<1>1. /\ client' = [client EXCEPT ![c].loop = "reading",
                                  ![c].router = Mutex!RUnlocked(@, Loop)]
      /\ mu' = Mutex!RUnlocked(mu, c)
      /\ UNCHANGED <<world, clients, call>>
  BY DEF HandlerReturns
<1>2. client[c] \in ClientRecord /\ client \in Seq(ClientRecord)
  BY ClientTyped DEF RegistryInv, Types
<1>3. PICK m : m = Mutex!RUnlocked(client[c].router, Loop) OBVIOUS
<1>4. m \in MutexOf(Users \cup {Loop})
  BY <1>2, <1>3, RouterSteps DEF ClientRecord
<1>5. PICK r : r = [client[c] EXCEPT !.loop = "reading", !.router = m] OBVIOUS
<1>6. client' = [client EXCEPT ![c] = r]
  <2>1. client' = [client EXCEPT ![c] = [client[c] EXCEPT !.loop = "reading",
                     !.router = Mutex!RUnlocked(client[c].router, Loop)]]
    BY <1>1, <1>2 DEF Made, ClientRecord
  <2> QED BY <1>3, <1>5, <2>1
<1> HIDE DEF MutexOf
<1>7. r \in ClientRecord /\ r.name = client[c].name /\ r.initialized = client[c].initialized
      /\ r.cancelled = client[c].cancelled
      /\ r.inbox = client[c].inbox /\ r.link = client[c].link
  BY <1>2, <1>4, <1>5 DEF ClientRecord
<1>8. LockStep(c) BY <1>1 DEF LockStep
<1> QED BY <1>1, <1>6, <1>7, <1>8, KeepsInbox

\* A read loop finds the end of the output.
LEMMA SeeEndKeeps == ASSUME RegistryInv, NEW c \in Made, SeeEnd(c) PROVE RegistryInv'
<1>1. /\ client' = [client EXCEPT ![c] = Closed(@)]
      /\ UNCHANGED <<world, mu, clients, call>>
  BY DEF SeeEnd
<1>2. client[c] \in ClientRecord BY ClientTyped
<1>3. PICK r : r = Closed(client[c]) OBVIOUS
<1>4. client' = [client EXCEPT ![c] = r] BY <1>1, <1>3
<1>5. /\ r \in ClientRecord /\ r.name = client[c].name
      /\ r.initialized = client[c].initialized /\ r.cancelled = client[c].cancelled
      /\ r.inbox = <<>> /\ r.link = "closed"
  <2>1. <<>> \in Seq(Message) OBVIOUS
  <2> QED BY <1>2, <1>3, <2>1 DEF Closed, ClientRecord
<1>6. Onward(client[c], r) BY <1>5 DEF Onward
<1>7. client'[c] = r BY <1>4, <1>6, OnwardStep
<1>8. InboxOK(c)' BY <1>5, <1>7 DEF InboxOK
<1>9. LockStep(c) BY <1>1 DEF LockStep
<1> QED BY <1>1, <1>4, <1>6, <1>8, <1>9, KeepsClient

\* The read loop takes a notification to the router.
LEMMA DeliverNoticeKeeps ==
  ASSUME RegistryInv, NEW c \in Made, Deliver(c), Head(client[c].inbox) = Notice
  PROVE  RegistryInv'
<1>0. /\ client' = [client EXCEPT ![c].inbox = Tail(@), ![c].loop = "routing",
                                  ![c].router = Mutex!RLocked(@, Loop)]
      /\ UNCHANGED <<world, mu, clients, call>> /\ Linked(c) /\ client[c].inbox # <<>>
  BY DEF Deliver
<1>1. client[c] \in ClientRecord /\ client[c].inbox \in Seq(Message)
      /\ client \in Seq(ClientRecord)
  BY ClientTyped DEF RegistryInv, Types
<1>2. PICK m : m = Mutex!RLocked(client[c].router, Loop) OBVIOUS
<1>3. m \in MutexOf(Users \cup {Loop})
  BY <1>1, <1>2, RouterSteps DEF ClientRecord
<1>4. PICK s : s = Tail(client[c].inbox) OBVIOUS
<1>5. /\ s \in Seq(Message) /\ Len(client[c].inbox) \in Nat \ {0}
      /\ DOMAIN s = 1 .. Len(client[c].inbox) - 1
      /\ DOMAIN client[c].inbox = 1 .. Len(client[c].inbox)
      /\ \A i \in 1 .. Len(client[c].inbox) - 1 : s[i] = client[c].inbox[i + 1]
  BY <1>0, <1>1, <1>4
<1>6. PICK r : r = [client[c] EXCEPT !.inbox = s, !.loop = "routing", !.router = m] OBVIOUS
<1>7. client' = [client EXCEPT ![c] = r]
  <2>1. client' = [client EXCEPT ![c] = [client[c] EXCEPT !.inbox = Tail(client[c].inbox),
                     !.loop = "routing",
                     !.router = Mutex!RLocked(client[c].router, Loop)]]
    BY <1>0, <1>1 DEF Made, ClientRecord
  <2> QED BY <1>2, <1>4, <1>6, <2>1
<1> HIDE DEF MutexOf
<1>8. /\ r \in ClientRecord /\ r.name = client[c].name
      /\ r.initialized = client[c].initialized /\ r.cancelled = client[c].cancelled
      /\ r.inbox = s /\ r.link = client[c].link
  BY <1>1, <1>3, <1>5, <1>6 DEF ClientRecord
<1>9. Onward(client[c], r) BY <1>8 DEF Onward
<1>10. client'[c] = r BY <1>7, <1>9, OnwardStep
<1>11. InboxOK(c)'
  <2>1. InboxOK(c) BY DEF RegistryInv, Inboxes, InboxOK
  <2>2. ASSUME NEW i \in DOMAIN s, s[i] # Notice
        PROVE  Waiting(s[i], c)' /\ \A j \in DOMAIN s : s[j] = s[i] => j = i
    <3>1. i + 1 \in DOMAIN client[c].inbox /\ s[i] = client[c].inbox[i + 1] BY <1>5, <2>2
    <3>2. Waiting(s[i], c)' BY <1>0, <2>1, <2>2, <3>1 DEF InboxOK, Waiting
    <3>3. ASSUME NEW j \in DOMAIN s, s[j] = s[i] PROVE j = i
      <4>1. j + 1 \in DOMAIN client[c].inbox /\ s[j] = client[c].inbox[j + 1] BY <1>5
      <4>2. j + 1 = i + 1 BY <2>1, <2>2, <3>1, <3>3, <4>1 DEF InboxOK
      <4> QED BY <1>5, <4>2
    <3> QED BY <3>2, <3>3
  <2>3. client'[c].inbox = s /\ client'[c].link = "open"
    <3>1. client[c].link = "open" BY <1>0 DEF Linked
    <3> QED BY <1>8, <1>10, <3>1
  <2> QED BY <2>2, <2>3, InboxIs
<1>12. LockStep(c) BY <1>0 DEF LockStep
<1> QED BY <1>0, <1>7, <1>9, <1>11, <1>12, KeepsClient

\* A read loop takes the next message of its inbox.
LEMMA DeliverKeeps == ASSUME RegistryInv, NEW c \in Made, Deliver(c) PROVE RegistryInv'
<1>1. Linked(c) /\ client[c].inbox # <<>> /\ UNCHANGED <<world, mu, clients>>
  BY DEF Deliver
<1>2. CASE Head(client[c].inbox) = Notice
  BY <1>2, DeliverNoticeKeeps
<1>3. CASE Head(client[c].inbox) # Notice
  <2>1. client' = [client EXCEPT ![c].inbox = Tail(@)] BY <1>3 DEF Deliver
  <2>2. PICK reply \in {"result", "error"} :
          call' = [call EXCEPT ![Head(client[c].inbox)].reply = reply]
    BY <1>3 DEF Deliver
  <2> QED BY <1>1, <1>3, <2>1, <2>2, DeliverAnswerKeeps
<1> QED BY <1>2, <1>3

\* Taking one message out of an inbox keeps the others, in their order.
LEMMA RemoveAtSteps ==
  ASSUME NEW S, NEW s \in Seq(S), NEW i \in 1 .. Len(s)
  PROVE  /\ RemoveAt(s, i) \in Seq(S)
         /\ Len(RemoveAt(s, i)) = Len(s) - 1
         /\ \A j \in 1 .. Len(s) - 1 :
              RemoveAt(s, i)[j] = IF j < i THEN s[j] ELSE s[j + 1]
<1> DEFINE front == SubSeq(s, 1, i - 1)
           back == SubSeq(s, i + 1, Len(s))
<1>1. /\ front \in Seq(S) /\ Len(front) = i - 1
      /\ \A j \in 1 .. i - 1 : front[j] = s[j]
  OBVIOUS
<1>2. /\ back \in Seq(S) /\ Len(back) = Len(s) - i
      /\ \A j \in 1 .. Len(s) - i : back[j] = s[j + i]
  OBVIOUS
<1>3. RemoveAt(s, i) = front \o back BY DEF RemoveAt
<1> HIDE DEF front, back
<1>4. /\ front \o back \in Seq(S) /\ Len(front \o back) = Len(s) - 1
      /\ \A j \in 1 .. Len(s) - 1 :
           (front \o back)[j] = IF j <= i - 1 THEN front[j] ELSE back[j - (i - 1)]
  <2>1. Len(front) + Len(back) = Len(s) - 1 BY <1>1, <1>2
  <2>2. front \in Seq(S) /\ back \in Seq(S) BY <1>1, <1>2
  <2>3. /\ front \o back \in Seq(S)
        /\ Len(front \o back) = Len(front) + Len(back)
        /\ \A j \in 1 .. Len(front) + Len(back) : (front \o back)[j] =
             IF j <= Len(front) THEN front[j] ELSE back[j - Len(front)]
    BY <2>2, ConcatProperties
  <2> QED BY <1>1, <2>1, <2>3
<1>5. ASSUME NEW j \in 1 .. Len(s) - 1
      PROVE  (front \o back)[j] = IF j < i THEN s[j] ELSE s[j + 1]
  <2>1. CASE j < i BY <1>1, <1>4, <2>1
  <2>2. CASE ~(j < i)
    <3>1. j - (i - 1) \in 1 .. Len(s) - i /\ j - (i - 1) + i = j + 1 BY <2>2
    <3>2. (front \o back)[j] = back[j - (i - 1)] BY <1>4, <2>2
    <3> QED BY <1>2, <2>2, <3>1, <3>2
  <2> QED BY <2>1, <2>2
<1> QED BY <1>3, <1>4, <1>5

\* A context ends: the answer that has come is dropped.
LEMMA ExpireKeeps == ASSUME RegistryInv, NEW u \in Users, Expire(u) PROVE RegistryInv'
<1>1. PICK c \in Made : Waiting(u, c) /\ client' = [client EXCEPT ![c] = Forget(@, u)]
  BY DEF Expire
<1>2. call' = [call EXCEPT ![u].reply = "error"] /\ UNCHANGED <<world, mu, clients>>
  BY DEF Expire
<1>3. client[c] \in ClientRecord /\ client[c].inbox \in Seq(Message) BY ClientTyped
<1>4. PICK s : s = client[c].inbox OBVIOUS
<1>5. PICK r : r = Forget(client[c], u) OBVIOUS
<1>6. client' = [client EXCEPT ![c] = r] BY <1>1, <1>5
<1>7. s \in Seq(Message) /\ Len(s) \in Nat /\ DOMAIN s = 1 .. Len(s) BY <1>3, <1>4
<1>8. InboxOK(c) BY DEF RegistryInv, Inboxes, InboxOK
<1>9. /\ \A i \in DOMAIN s : s[i] # Notice =>
           /\ s[i] \in Users /\ Waiting(s[i], c)
           /\ \A j \in DOMAIN s : s[j] = s[i] => j = i
      /\ client[c].link # "open" => s = <<>>
  BY <1>4, <1>8, NotInInboxes DEF InboxOK, Linked
<1>10. u # Notice BY LocksOf
<1>11. PICK t : /\ r = [client[c] EXCEPT !.inbox = t] /\ t \in Seq(Message)
                /\ \A i \in DOMAIN t : t[i] # u
                /\ \A i \in DOMAIN t : t[i] # Notice =>
                     /\ t[i] \in Users /\ Waiting(t[i], c)
                     /\ \A j \in DOMAIN t : t[j] = t[i] => j = i
                /\ client[c].link # "open" => t = <<>>
  <2>1. CASE \E i \in DOMAIN s : s[i] = u
    <3>1. PICK at \in DOMAIN s : s[at] = u /\ r = [client[c] EXCEPT !.inbox = RemoveAt(s, at)]
      <4>1. PICK at : at = CHOOSE i \in DOMAIN s : s[i] = u OBVIOUS
      <4>2. at \in DOMAIN s /\ s[at] = u BY <2>1, <4>1
      <4>3. r = [client[c] EXCEPT !.inbox = RemoveAt(s, at)]
        BY <1>4, <1>5, <2>1, <4>1 DEF Forget
      <4> QED BY <4>2, <4>3
    <3>2. PICK t : t = RemoveAt(s, at) OBVIOUS
    <3>3. /\ t \in Seq(Message) /\ Len(t) = Len(s) - 1
          /\ \A j \in 1 .. Len(s) - 1 : t[j] = IF j < at THEN s[j] ELSE s[j + 1]
      BY <1>7, <3>2, RemoveAtSteps
    <3>4. DOMAIN t = 1 .. Len(s) - 1 BY <3>3
    <3> DEFINE from(j) == IF j < at THEN j ELSE j + 1
    <3>5. \A j \in DOMAIN t : from(j) \in DOMAIN s /\ from(j) # at /\ t[j] = s[from(j)]
      BY <1>7, <3>3, <3>4
    <3>6. \A i, j \in DOMAIN t : from(i) = from(j) => i = j BY <1>7, <3>4
    <3> HIDE DEF from
    <3>7. \A i \in DOMAIN t : t[i] # u BY <1>9, <1>10, <3>1, <3>5
    <3>8. ASSUME NEW i \in DOMAIN t, t[i] # Notice
          PROVE  /\ t[i] \in Users /\ Waiting(t[i], c)
                 /\ \A j \in DOMAIN t : t[j] = t[i] => j = i
      <4>1. from(i) \in DOMAIN s /\ s[from(i)] = t[i] BY <3>5
      <4>2. t[i] \in Users /\ Waiting(t[i], c) BY <1>9, <3>8, <4>1
      <4>3. ASSUME NEW j \in DOMAIN t, t[j] = t[i] PROVE j = i
        <5>1. from(j) \in DOMAIN s /\ s[from(j)] = s[from(i)] BY <3>5, <4>3
        <5>2. from(j) = from(i) BY <1>9, <3>8, <4>1, <5>1
        <5> QED BY <3>6, <5>2
      <4> QED BY <4>2, <4>3
    <3>9. client[c].link # "open" => t = <<>>
      <4>1. s # <<>> BY <1>7, <3>1
      <4> QED BY <1>9, <4>1
    <3> QED BY <3>1, <3>2, <3>3, <3>7, <3>8, <3>9
  <2>2. CASE ~\E i \in DOMAIN s : s[i] = u
    <3>1. r = client[c] BY <1>4, <1>5, <2>2 DEF Forget
    <3>2. r = [client[c] EXCEPT !.inbox = s] BY <1>3, <1>4, <3>1 DEF ClientRecord
    <3> QED BY <1>7, <1>9, <2>2, <3>2
  <2> QED BY <2>1, <2>2
<1>12. /\ Onward(client[c], r) /\ r.inbox = t /\ r.link = client[c].link
  BY <1>3, <1>11 DEF Onward, ClientRecord
<1>13. /\ client'[c] = r /\ Len(client') = Len(client) /\ Made' = Made
       /\ \A k \in Made : GoesOn(k)
  BY <1>6, <1>12, OnwardStep
<1>14. /\ OnlyOf(u) /\ call'[u].at = call[u].at /\ call'[u].name = call[u].name
       /\ call'[u].on = call[u].on /\ call'[u].reply = "error"
       /\ Locks(u)' /\ NamesOne(u)' /\ Works(u)' /\ Fresh(u)'
  BY <1>1, <1>2, <1>13, AnsweredStep DEF Waiting
<1>15. \A k \in Made : k # c => ~Waiting(u, k) BY <1>1 DEF Waiting
<1>16. InboxOK(c)'
  <2>1. \A i \in DOMAIN t : t[i] # Notice =>
          Waiting(t[i], c)' /\ \A j \in DOMAIN t : t[j] = t[i] => j = i
    BY <1>11, <1>14 DEF Waiting, OnlyOf
  <2>2. CASE client[c].link = "open" BY <1>12, <1>13, <2>1, <2>2, InboxIs
  <2>3. CASE client[c].link # "open"
    <3>1. t = <<>> /\ client'[c].inbox = t BY <1>11, <1>12, <1>13, <2>3
    <3> QED BY <3>1 DEF InboxOK
  <2> QED BY <2>2, <2>3
<1> QED BY <1>2, <1>6, <1>12, <1>14, <1>15, <1>16, KeepsPair

----------------------------------------------------------------------------
(* The theorems. *)

\* Every step keeps the invariant.
LEMMA RegistryNext == RegistryInv /\ [Next]_vars => RegistryInv'
<1> SUFFICES ASSUME RegistryInv, [Next]_vars PROVE RegistryInv' OBVIOUS
<1>1. ASSUME NEW u \in Users, NEW op \in world.calls[u],
             op \in {"StopAll", "GetClientsForFile"} \cup OnClient, Begin(u, op, None)
      PROVE  RegistryInv'
  <2>1. None \in Names \cup {None} OBVIOUS
  <2> QED BY <1>1, <2>1, BeginKeeps
<1>2. ASSUME NEW u \in Users, NEW op \in world.calls[u], NEW n \in Names,
             op \notin {"StopAll", "GetClientsForFile"} \cup OnClient, Begin(u, op, n)
      PROVE  RegistryInv'
  <2>1. n \in Names \cup {None} OBVIOUS
  <2> QED BY <1>2, <2>1, BeginKeeps
<1>3. ASSUME NEW u \in Users, Step(u) PROVE RegistryInv'
  BY <1>3, RLockKeeps, LookKeeps, StartKeeps, RegisteredKeeps, InitializeFailedKeeps,
     StopKeeps, StopAllKeeps, ShutdownAnsweredKeeps, ShutdownFailedKeeps, ExitKeeps,
     SendKeeps, RequestDoneKeeps, KillKeeps, HandlerRegisteredKeeps, DisconnectedKeeps
  DEF Step
<1>4. ASSUME NEW u \in Users, Lock(u) \/ RegisterHandler(u) \/ Expire(u)
      PROVE  RegistryInv'
  BY <1>4, LockKeeps, RegisterHandlerKeeps, ExpireKeeps
<1>5. ASSUME NEW c \in Made, NEW u \in Users, Answer(c, u) PROVE RegistryInv'
  BY <1>5, AnswerKeeps
<1>6. ASSUME NEW c \in Made,
             Notify(c) \/ Crash(c) \/ HangUp(c) \/ Killed(c) \/ Reap(c) \/ ReadLoop(c)
      PROVE  RegistryInv'
  BY <1>6, NotifyKeeps, DiesKeeps, DeliverKeeps, SeeEndKeeps, RunHandlerKeeps,
     HandlerReturnsKeeps DEF ReadLoop
<1>7. CASE UNCHANGED vars
  <2>1. UNCHANGED <<world, mu, clients, client, call>> BY <1>7 DEF vars
  <2> QED BY <2>1 DEF RegistryInv, Types, Locks, NamesOne, Works, Fresh, Registry,
                      NoServerLost, Inboxes, Made, Ended, Linked, Waiting, Mutex!Owns
<1>8. CASE Next BY <1>1, <1>2, <1>3, <1>4, <1>5, <1>6, <1>8 DEF Next
<1> QED BY <1>7, <1>8

\* The invariant holds in every state of the specification.
THEOREM RegistryInvariant == Spec => []RegistryInv
BY RegistryInit, RegistryNext, PTL DEF Spec

\* The states are well typed, and whoever is outside of the registry has not
\* kept its lock, for any goroutines, names and bound on the clients (the
\* methods of Registry, Client and Router).
THEOREM RegistryTyped == Spec => []TypeOK
<1>1. RegistryInv => TypeOK
  <2> SUFFICES ASSUME RegistryInv PROVE TypeOK OBVIOUS
  <2>1. /\ world \in Worlds /\ Len(client) <= MaxClients
        /\ mu \in MutexOf(Users \cup Ids) /\ Made = 1 .. Len(client)
        /\ clients \in [Names -> 0 .. Len(client)] /\ Len(client) \in Nat
    BY DEF RegistryInv, Types, Made
  <2>2. Mutex!IsMutex(mu, Users \cup Ids) BY <2>1 DEF MutexOf, Mutex!IsMutex
  <2>3. \A n \in Names : clients[n] # None =>
          clients[n] \in Made /\ client[clients[n]].name = n
    BY <2>1 DEF RegistryInv, Registry, None
  <2>4. ASSUME NEW c \in Made
        PROVE  /\ client[c].process \in {"running", "dead"}
               /\ client[c].output \in {"open", "ended"}
               /\ client[c].link \in {"open", "closed"}
               /\ client[c].loop \in {"reading", "routing", "handling"}
               /\ Mutex!IsMutex(client[c].router, Users \cup {Loop})
               /\ \A i \in DOMAIN client[c].inbox :
                    client[c].inbox[i] \in Users \cup {Notice}
    <3>1. client[c] \in ClientRecord /\ client[c].inbox \in Seq(Message) BY ClientTyped
    <3>2. \A i \in DOMAIN client[c].inbox : client[c].inbox[i] \in Message BY <3>1
    <3>3. client[c].router \in MutexOf(Users \cup {Loop}) BY <3>1 DEF ClientRecord
    <3>4. Mutex!IsMutex(client[c].router, Users \cup {Loop})
      BY <3>3 DEF MutexOf, Mutex!IsMutex
    <3> QED BY <3>1, <3>2, <3>4 DEF ClientRecord, Message
  <2>5. ASSUME NEW u \in Users
        PROVE  /\ call[u].on \in {None} \cup Made /\ call[u].got \in {None} \cup Made
               /\ call[u].reply \in {"none", "awaited", "result", "error"}
               /\ At(u, "outside") => mu.writer # u /\ u \notin mu.readers
    BY <2>1, LocksOf DEF Works, CallRecord, Replies, At, None
  <2> QED BY <2>1, <2>2, <2>3, <2>4, <2>5 DEF TypeOK
<1> QED BY <1>1, RegistryInvariant, PTL

\* No server that was initialized, is connected and was not told to exit is lost
\* from the registry, however starts, stops, restarts and failures of any number
\* of goroutines are interleaved (a server of which initialize failed never was
\* in the registry, and its process may live on; StartServer, StopServer,
\* RestartServer, StopAll).
THEOREM ServersAreKept == Spec => []NoServerLost
<1>1. RegistryInv => NoServerLost BY DEF RegistryInv
<1> QED BY <1>1, RegistryInvariant, PTL

\* Nobody holds a client that is not initialized, and every answer in an inbox
\* is one that its goroutine waits for (StartServer, GetClient; Client.call).
THEOREM ServedCallers == Spec => []CallersAreServed
<1>1. RegistryInv => CallersAreServed
  <2> SUFFICES ASSUME RegistryInv PROVE CallersAreServed OBVIOUS
  <2>1. OnlyInitialized BY LocksOf DEF OnlyInitialized, Held, Works
  <2>2. AnswersAreAwaited BY DEF RegistryInv, Inboxes, AnswersAreAwaited
  <2> QED BY <2>1, <2>2 DEF CallersAreServed
<1> QED BY <1>1, RegistryInvariant, PTL

\* A goroutine's step is one of its own call.
LEMMA OthersCall ==
  ASSUME RegistryInv, NEW u \in Users, NEW w \in Users, w # u,
         \/ Step(u) \/ Lock(u) \/ RegisterHandler(u) \/ Expire(u)
         \/ \E op, n : Begin(u, op, n)
  PROVE  call'[w] = call[w]
<1> USE DEF Goes, Returns, Asks
<1>1. call \in [Users -> CallRecord] BY DEF RegistryInv, Types
<1>2. \A got : Continues(u, got) => call'[w] = call[w]
  <2> SUFFICES ASSUME NEW got, Continues(u, got) PROVE call'[w] = call[w] OBVIOUS
  <2>1. CASE call[u].op = "GetClientsForFile" /\ call[u].todo # {}
    BY <1>1, <2>1 DEF Continues
  <2>2. CASE call[u].op = "GetClientsForFile" /\ call[u].todo = {}
    BY <1>1, <2>2 DEF Continues
  <2>3. CASE call[u].op # "GetClientsForFile" BY <1>1, <2>3 DEF Continues
  <2> QED BY <2>1, <2>2, <2>3
<1>3. \A c : BeginShutdown(u, c) => call'[w] = call[w] BY <1>1 DEF BeginShutdown
<1> HIDE DEF Goes, Returns, Asks
<1>4. /\ \A at : Goes(u, at) => call'[w] = call[w]
      /\ \A got : Returns(u, got) => call'[w] = call[w]
      /\ \A at, c : Asks(u, at, c) => call'[w] = call[w]
  BY <1>1 DEF Goes, Returns, Asks
<1>5. CASE RLock(u) \/ Look(u) \/ Start(u) \/ Registered(u) \/ InitializeFailed(u)
  BY <1>2, <1>4, <1>5 DEF RLock, Look, Start, MakeClient, Registered, InitializeFailed
<1>6. CASE Stop(u)
  <2>1. call' = [call EXCEPT ![u].op = "Restarting", ![u].at = "lock"] => call'[w] = call[w]
    BY <1>1
  <2> QED BY <1>3, <1>4, <1>6, <2>1 DEF Stop
<1>7. CASE StopAll(u) \/ ShutdownAnswered(u) \/ ShutdownFailed(u)
  BY <1>3, <1>4, <1>7 DEF StopAll, ShutdownAnswered, ShutdownFailed
<1>8. CASE Exit(u)
  <2>1. call' = [call EXCEPT ![u].op = "Restarting", ![u].at = "lock"] => call'[w] = call[w]
    BY <1>1
  <2>2. NextClient(u) => call'[w] = call[w] BY <1>1 DEF NextClient
  <2> QED BY <1>4, <1>8, <2>1, <2>2 DEF Exit
<1>9. CASE \/ Send(u) \/ RequestDone(u) \/ Kill(u) \/ HandlerRegistered(u)
           \/ Lock(u) \/ RegisterHandler(u)
  BY <1>4, <1>9 DEF Send, RequestDone, Kill, HandlerRegistered, Lock, RegisterHandler
<1>10. CASE Disconnected(u) \/ Expire(u) BY <1>1, <1>10 DEF Disconnected, Expire
<1>11. CASE \E op, n : Begin(u, op, n) BY <1>1, <1>11 DEF Begin
<1> QED BY <1>5, <1>6, <1>7, <1>8, <1>9, <1>10, <1>11 DEF Step

\* What a restarting goroutine returns is newer than its call.
LEMMA RestartingReturns ==
  ASSUME RegistryInv, NEW u \in Users, call[u].op = "Restarting",
         call'[u].op = "none", call'[u].got # None,
         \/ Step(u) \/ Lock(u) \/ RegisterHandler(u) \/ Expire(u)
  PROVE  call'[u].got > call[u].since
<1>1. /\ Locks(u) /\ NamesOne(u) /\ Works(u) /\ Fresh(u)
      /\ call[u] \in CallRecord /\ call \in [Users -> CallRecord]
      /\ clients \in [Names -> 0 .. Len(client)] /\ Len(client) \in Nat
      /\ call[u].name \in Names
  BY LocksOf DEF RegistryInv, Types, NamesOne
<1>2. ASSUME NEW at \in Places, Goes(u, at) PROVE FALSE BY <1>2, GoesStep
<1>3. ASSUME NEW got \in Nat, Returns(u, got) PROVE call'[u].got = got BY <1>3, ReturnsStep
<1>4. ASSUME NEW got \in Nat, Continues(u, got) PROVE call'[u].got = got
  BY <1>3, <1>4 DEF Continues
<1>5. None \in Nat BY DEF None
<1>6. /\ clients[call[u].name] \in Nat
      /\ clients[call[u].name] # None => clients[call[u].name] > call[u].since
  BY <1>1 DEF Fresh
<1>7. CASE RLock(u) \/ Lock(u) \/ RegisterHandler(u)
           \/ ShutdownAnswered(u) \/ ShutdownFailed(u)
  BY <1>2, <1>7 DEF RLock, Lock, RegisterHandler, ShutdownAnswered, ShutdownFailed, Places
<1>8. CASE Look(u)
  <2>1. \/ Continues(u, None) \/ Continues(u, clients[call[u].name])
        \/ Returns(u, None) \/ Goes(u, "lock")
    BY <1>8 DEF Look
  <2>2. ~Goes(u, "lock")
    <3>1. "lock" \in Places BY DEF Places
    <3> QED BY <1>2, <3>1
  <2>3. ~Continues(u, None) /\ ~Returns(u, None) BY <1>3, <1>4, <1>5
  <2>4. Continues(u, clients[call[u].name]) BY <2>1, <2>2, <2>3
  <2>5. call'[u].got = clients[call[u].name] BY <1>4, <1>6, <2>4
  <2> QED BY <1>6, <2>5
<1>9. CASE Start(u)
  <2>1. \/ Continues(u, clients[call[u].name])
        \/ Asks(u, "initialize", Len(client) + 1)
    BY <1>9 DEF Start, MakeClient
  <2>2. ~Asks(u, "initialize", Len(client) + 1)
    <3>1. Len(client) + 1 \in Nat /\ "initialize" \in Places BY <1>1 DEF Places
    <3> QED BY <3>1, AsksStep
  <2>3. Continues(u, clients[call[u].name]) BY <2>1, <2>2
  <2>4. call'[u].got = clients[call[u].name] BY <1>4, <1>6, <2>3
  <2> QED BY <1>6, <2>4
<1>10. CASE Registered(u)
  <2>1. /\ call[u].at = "initialize"
        /\ Continues(u, call[u].on) \/ Continues(u, None)
    BY <1>10 DEF Registered, Answered, At
  <2>2. call[u].on > call[u].since /\ call[u].on \in Nat
    BY <1>1, <2>1 DEF Fresh, CallRecord
  <2> QED BY <1>4, <1>5, <2>1, <2>2
<1>11. CASE InitializeFailed(u) BY <1>4, <1>5, <1>11 DEF InitializeFailed
<1>12. CASE Stop(u) \/ StopAll(u) BY <1>12 DEF Stop, StopAll, First
<1>13. CASE Exit(u) BY <1>1, <1>13 DEF Exit, At, NamesOne
<1>14. CASE Send(u) \/ RequestDone(u) \/ Kill(u) \/ HandlerRegistered(u)
  BY <1>1, <1>14 DEF Send, RequestDone, Kill, HandlerRegistered, Answered, At, NamesOne, OnClient
<1>15. CASE Disconnected(u) \/ Expire(u)
  <2>1. call' = [call EXCEPT ![u].reply = "error"] BY <1>15 DEF Disconnected, Expire
  <2>2. call'[u].op = call[u].op BY <1>1, <2>1 DEF CallRecord
  <2> QED BY <2>2
<1> QED BY <1>7, <1>8, <1>9, <1>10, <1>11, <1>12, <1>13, <1>14, <1>15 DEF Step

\* RestartServer returns a server that was started after it was called, also
\* when others start and stop servers between its two halves (Registry.
\* RestartServer, which gives up the lock between them).
THEOREM RestartsAreFresh == Spec => RestartIsFresh
<1>1. ASSUME RegistryInv, [Next]_vars
      PROVE  [\A u \in Users :
                call[u].op = "Restarting" /\ call'[u].op = "none" /\ call'[u].got # None
                  => call'[u].got > call[u].since]_vars
  <2> SUFFICES ASSUME Next, NEW u \in Users, call[u].op = "Restarting",
                      call'[u].op = "none", call'[u].got # None
               PROVE  call'[u].got > call[u].since
    BY <1>1
  <2>1. call \in [Users -> CallRecord] BY <1>1 DEF RegistryInv, Types
  <2>2. ASSUME NEW v \in Users, v # u,
               \/ Step(v) \/ Lock(v) \/ RegisterHandler(v) \/ Expire(v)
               \/ \E op, n : Begin(v, op, n)
        PROVE  FALSE
    <3>1. call'[u] = call[u] BY <1>1, <2>2, OthersCall
    <3> QED BY <3>1
  <2>3. ASSUME NEW op \in world.calls[u], NEW n, Begin(u, op, n) PROVE FALSE
    <3>1. call'[u].op = op BY <2>1, <2>3 DEF Begin
    <3>2. world \in World BY <1>1, WorldsAssumption DEF RegistryInv, Types
    <3>3. op \in Methods BY <3>2 DEF World
    <3> QED BY <3>1, <3>3 DEF Methods
  <2>4. CASE Step(u) \/ Lock(u) \/ RegisterHandler(u) \/ Expire(u)
    BY <1>1, <2>4, RestartingReturns
  <2>5. ASSUME NEW c \in Made,
               \/ \E v \in Users : Answer(c, v)
               \/ Notify(c) \/ Crash(c) \/ HangUp(c) \/ Killed(c) \/ Reap(c) \/ ReadLoop(c)
        PROVE  FALSE
    <3>1. CASE Deliver(c)
      <4>1. call' = call \/ \E r \in {"result", "error"} :
              call' = [call EXCEPT ![Head(client[c].inbox)].reply = r]
        BY <3>1 DEF Deliver
      <4>2. call'[u].op = call[u].op BY <2>1, <4>1 DEF CallRecord
      <4> QED BY <4>2
    <3>2. CASE ~Deliver(c)
      <4>1. call' = call
        BY <2>5, <3>2 DEF Answer, Notify, Crash, HangUp, Killed, Reap, ReadLoop, SeeEnd,
                          RunHandler, HandlerReturns
      <4> QED BY <4>1
    <3> QED BY <3>1, <3>2
  <2>6. PICK v \in Users :
          \/ Step(v) \/ Lock(v) \/ RegisterHandler(v) \/ Expire(v)
          \/ \E op \in world.calls[v] : \E n : Begin(v, op, n)
    BY <2>5 DEF Next
  <2> QED BY <2>2, <2>3, <2>4, <2>6
<1> QED BY <1>1, RegistryInvariant, PTL DEF Spec, RestartIsFresh
=============================================================================
