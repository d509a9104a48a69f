----------------------------- MODULE LspRegistry -----------------------------
(* Language servers shared by the goroutines of one program                  *)
(* (src/powernap/pkg: registry, lsp, transport). The registry keeps one      *)
(* client per server name behind one lock, which it holds while it waits for *)
(* a server to answer initialize or shutdown. A client owns a process, a     *)
(* JSON-RPC connection whose read loop also runs the handlers of the         *)
(* server's messages, and the router that keeps these handlers.              *)
(*                                                                           *)
(* A goroutine's call goes through the steps of its method: at the lock,     *)
(* inside, waiting for a server, leaving. What else moves: servers answer,   *)
(* notify, crash and hang up; contexts end; read loops deliver.              *)
EXTENDS Naturals, Sequences, FiniteSets, SequencesExt

CONSTANTS
  Users,        \* goroutines that use the registry
  Nobody,
  Names,        \* the configured servers
  MaxClients,   \* bound: how many servers are ever started
  Worlds        \* what each may do and rely on, see World

ASSUME UsersAssumption ==
  /\ Nobody \notin Users \cup Nat
  /\ Users \cap (Nat \cup {"notice", "loop"}) = {}
ASSUME NamesAssumption == 0 \notin Names
ASSUME BoundsAssumption == MaxClients \in Nat

Methods == {"StartServer", "StopServer", "RestartServer", "StopAll", "GetClient",
            "GetClientsForFile", "Request", "Kill", "RegisterHandler"}

\* A world says which methods each goroutine calls, how many notifications a
\* server may send (a bound), whether handlers are quiet or ask the registry for
\* its clients, and whether every context ends ("deadlines") or contexts may
\* never end but servers answer ("answers").
World == [calls : [Users -> SUBSET Methods], notices : Nat,
          handlers : {"quiet", "asking"}, relies : {"deadlines", "answers"}]
ASSUME WorldsAssumption == Worlds \subseteq World

VARIABLES
  world,     \* which of Worlds this is
  mu,        \* Registry.mu
  clients,   \* Registry.clients: the client of each name, or None
  client,    \* the clients, in the order they were made
  call       \* what each goroutine is doing

vars == <<world, mu, clients, client, call>>

Mutex == INSTANCE RWMutex

None == 0
Notice == "notice"  \* in an inbox: a notification, not an answer to a goroutine
Loop == "loop"      \* the read loop of a client, when it holds the router's lock
Ids == 1 .. MaxClients
Made == DOMAIN client

\* A goroutine between calls: it holds the client that the last call gave it.
Idle == [op |-> "none", at |-> "outside", name |-> None, on |-> None,
         todo |-> {}, since |-> 0, got |-> None, reply |-> "none"]

Init ==
  /\ world \in Worlds
  /\ mu = Mutex!Free
  /\ clients = [n \in Names |-> None]
  /\ client = <<>>
  /\ call = [u \in Users |-> Idle]

At(u, at) == call[u].at = at
Goes(u, at) == call' = [call EXCEPT ![u].at = at]

\* u has sent a request to client c and waits for the reply, or has it.
Asks(u, at, c) ==
  call' = [call EXCEPT ![u].at = at, ![u].on = c, ![u].reply = "awaited"]
Waiting(u, c) == call[u].on = c /\ call[u].reply = "awaited"
Answered(u, at, replies) == At(u, at) /\ call[u].reply \in replies
Held(u) == call[u].got

----------------------------------------------------------------------------
(* The life of a client *)

\* NewClient: the process runs, the read loop waits.
NewClient(name) ==
  [name |-> name, process |-> "running", output |-> "open", link |-> "open",
   initialized |-> FALSE, shutdown |-> FALSE, cancelled |-> FALSE,
   inbox |-> <<>>, notices |-> 0, loop |-> "reading", router |-> Mutex!Free]

Linked(c) == client[c].link = "open"

\* The connection is closed: nothing more is read.
Closed(k) == [k EXCEPT !.link = "closed", !.inbox = <<>>]

\* A slip: an answer that comes too late is kept for the next call.
ForgetNothing(k, u) == k

\* Whoever waits for u's answer no longer does.
Forget(k, u) ==
  IF \E i \in DOMAIN k.inbox : k.inbox[i] = u
  THEN [k EXCEPT !.inbox = RemoveAt(@, CHOOSE i \in DOMAIN k.inbox : k.inbox[i] = u)]
  ELSE k

----------------------------------------------------------------------------
(* Calls of the registry *)

Exclusive == {"StartServer", "StopServer", "RestartServer", "StopAll"}
Shared == {"GetClient", "GetClientsForFile"}
OnClient == {"Request", "Kill", "RegisterHandler"}

FirstStep(op) ==
  CASE op \in Exclusive -> "lock"
    [] op \in Shared -> "rlock"
    [] op = "Request" -> "send"
    [] op = "Kill" -> "kill"
    [] op = "RegisterHandler" -> "register"

Begin(u, op, name) ==
  /\ At(u, "outside")
  /\ op \in OnClient => Held(u) # None
  /\ LET held == IF op \in OnClient THEN Held(u) ELSE None
     IN  call' = [call EXCEPT ![u] =
           [op |-> op, at |-> FirstStep(op), name |-> name, on |-> held,
            todo |-> IF op = "GetClientsForFile" THEN Names ELSE {},
            since |-> IF op = "RestartServer" THEN Len(client) ELSE 0,
            got |-> held, reply |-> "none"]]
  /\ UNCHANGED <<world, mu, clients, client>>

Lock(u) ==
  /\ At(u, "lock") /\ Mutex!CanAnnounce(mu)
  /\ mu' = Mutex!Announced(mu, u)
  /\ Goes(u, "locking")
  /\ UNCHANGED <<world, clients, client>>

RLock(u) ==
  /\ At(u, "rlock")
  /\ mu' = Mutex!RLocked(mu, u)
  /\ Goes(u, "locking")
  /\ UNCHANGED <<world, clients, client>>

\* u has the lock it asked for, and none of its method is done yet.
First(u, ops) == At(u, "locking") /\ call[u].op \in ops /\ Mutex!Owns(mu, u)
FirstShared(u) == At(u, "locking") /\ Mutex!Shares(mu, u)

\* A method returns client got, or an error; GetClientsForFile goes on with the
\* next server that knows the file, RestartServer with the start.
Returns(u, got) ==
  call' = [call EXCEPT ![u] = [Idle EXCEPT !.got = got]]

Continues(u, got) ==
  LET found == IF got = None THEN call[u].got ELSE got
  IN  CASE call[u].op = "GetClientsForFile" /\ call[u].todo # {} ->
             \E n \in call[u].todo :
               call' = [call EXCEPT ![u].at = "rlock", ![u].name = n, ![u].on = None,
                                    ![u].todo = @ \ {n}, ![u].got = found]
        [] call[u].op = "GetClientsForFile" /\ call[u].todo = {} -> Returns(u, found)
        [] OTHER -> Returns(u, got)

\* GetClient. The first look of GetClientsForFile only collects the names.
Look(u) ==
  /\ FirstShared(u)
  /\ mu' = Mutex!RUnlocked(mu, u)
  /\ LET n == call[u].name
     IN  CASE n = None -> Continues(u, None)
           [] n # None /\ clients[n] # None -> Continues(u, clients[n])
           [] n # None /\ clients[n] = None ->
                IF call[u].op = "GetClient" THEN Returns(u, None) ELSE Goes(u, "lock")
  /\ UNCHANGED <<world, clients, client>>

\* StartServer, until initialize is sent.
MakeClient(u, n) ==
  /\ Len(client) < MaxClients
  /\ client' = Append(client, NewClient(n))
  /\ Asks(u, "initialize", Len(client) + 1)
  /\ UNCHANGED mu

\* A slip: whether somebody else has started the server is not looked up again.
StartRegardless(u) ==
  /\ First(u, {"StartServer", "Restarting", "GetClientsForFile"})
  /\ MakeClient(u, call[u].name)
  /\ UNCHANGED <<world, clients>>

\* A slip: the client is registered before it is initialized.
StartRegistering(u) ==
  /\ First(u, {"StartServer", "Restarting", "GetClientsForFile"})
  /\ LET n == call[u].name
     IN  IF clients[n] = None
         THEN MakeClient(u, n) /\ clients' = [clients EXCEPT ![n] = Len(client) + 1]
         ELSE /\ Continues(u, clients[n]) /\ mu' = Mutex!Unlocked(mu)
              /\ UNCHANGED <<client, clients>>
  /\ UNCHANGED world

Start(u) ==
  /\ First(u, {"StartServer", "Restarting", "GetClientsForFile"})
  /\ LET n == call[u].name
     IN  \/ clients[n] = None /\ MakeClient(u, n)
         \/ /\ Continues(u, clients[n])  \* None: no configuration, root or process
            /\ mu' = Mutex!Unlocked(mu)
            /\ UNCHANGED client
  /\ UNCHANGED <<world, clients>>

\* StartServer, when initialize was answered: the client is told that this is
\* done and is registered.
Registered(u) ==
  /\ Answered(u, "initialize", {"result"})
  /\ mu' = Mutex!Unlocked(mu)
  /\ LET c == call[u].on
     IN  IF Linked(c)
         THEN /\ client' = [client EXCEPT ![c].initialized = TRUE]
              /\ clients' = [clients EXCEPT ![client[c].name] = c]
              /\ Continues(u, c)
         ELSE Continues(u, None) /\ UNCHANGED <<clients, client>>
  /\ UNCHANGED world

\* A slip: the error is returned with the lock held.
InitializeFailedLocked(u) ==
  /\ Answered(u, "initialize", {"error"})
  /\ Continues(u, None)
  /\ UNCHANGED <<world, mu, clients, client>>

\* When it was not, the error is returned and the client dropped as it is.
InitializeFailed(u) ==
  /\ Answered(u, "initialize", {"error"})
  /\ mu' = Mutex!Unlocked(mu)
  /\ Continues(u, None)
  /\ UNCHANGED <<world, clients, client>>

\* Client.Shutdown, sent once.
BeginShutdown(u, c) ==
  IF client[c].shutdown
  THEN call' = [call EXCEPT ![u].on = c, ![u].at = "exit"]
  ELSE Asks(u, "shutdown", c)

Stop(u) ==
  /\ First(u, {"StopServer", "RestartServer"})
  /\ LET c == clients[call[u].name]
     IN  IF c # None THEN BeginShutdown(u, c) /\ UNCHANGED mu
         ELSE /\ mu' = Mutex!Unlocked(mu)
              /\ IF call[u].op = "RestartServer"
                 THEN call' = [call EXCEPT ![u].op = "Restarting", ![u].at = "lock"]
                 ELSE Returns(u, None)
  /\ UNCHANGED <<world, clients, client>>

\* The next client in the range of StopAll.
StopAll(u) ==
  /\ First(u, {"StopAll"})
  /\ LET rest == {clients[n] : n \in Names} \ (call[u].todo \cup {None})
     IN  IF rest = {}
         THEN /\ clients' = [n \in Names |-> None]
              /\ mu' = Mutex!Unlocked(mu)
              /\ Returns(u, None)
         ELSE /\ \E c \in rest : BeginShutdown(u, c)
              /\ UNCHANGED <<clients, mu>>
  /\ UNCHANGED <<world, client>>

NextClient(u) ==
  call' = [call EXCEPT ![u].at = "locking", ![u].todo = @ \cup {call[u].on},
                       ![u].reply = "none"]

\* Shutdown was answered, or an error is noted: both lead to Exit.
ShutdownAnswered(u) ==
  /\ Answered(u, "shutdown", {"result"})
  /\ client' = [client EXCEPT ![call[u].on].shutdown = TRUE]
  /\ Goes(u, "exit")
  /\ UNCHANGED <<world, mu, clients>>

ShutdownFailed(u) ==
  /\ Answered(u, "shutdown", {"error"})
  /\ Goes(u, "exit")
  /\ UNCHANGED <<world, mu, clients, client>>

\* A slip: a stopped server is still registered.
ExitKeeping(u) ==
  /\ At(u, "exit") /\ call[u].op # "StopAll"
  /\ client' = [client EXCEPT ![call[u].on].cancelled = @ \/ Linked(call[u].on)]
  /\ mu' = Mutex!Unlocked(mu)
  /\ IF call[u].op = "RestartServer"
     THEN call' = [call EXCEPT ![u].op = "Restarting", ![u].at = "lock"]
     ELSE Returns(u, None)
  /\ UNCHANGED <<world, clients>>

\* Client.Exit cancels the process's context if the notification could be
\* sent; the registry forgets the client in any case.
Exit(u) ==
  /\ At(u, "exit")
  /\ client' = [client EXCEPT ![call[u].on].cancelled = @ \/ Linked(call[u].on)]
  /\ IF call[u].op = "StopAll"
     THEN NextClient(u) /\ UNCHANGED <<mu, clients>>
     ELSE /\ clients' = [clients EXCEPT ![call[u].name] = None]
          /\ mu' = Mutex!Unlocked(mu)
          /\ IF call[u].op = "RestartServer"
             THEN call' = [call EXCEPT ![u].op = "Restarting", ![u].at = "lock"]
             ELSE Returns(u, None)
  /\ UNCHANGED world

----------------------------------------------------------------------------
(* Calls on a client that the goroutine holds *)

\* A request such as RequestHover, and its end.
Send(u) ==
  /\ At(u, "send")
  /\ IF client[Held(u)].initialized
     THEN Asks(u, "request", Held(u))
     ELSE Returns(u, Held(u))
  /\ UNCHANGED <<world, mu, clients, client>>

RequestDone(u) ==
  /\ Answered(u, "request", {"result", "error"})
  /\ Returns(u, Held(u))
  /\ UNCHANGED <<world, mu, clients, client>>

\* Client.Kill: the context is cancelled and the connection closed.
Kill(u) ==
  /\ At(u, "kill")
  /\ client' = [client EXCEPT ![Held(u)] = [Closed(@) EXCEPT !.cancelled = TRUE]]
  /\ Returns(u, Held(u))
  /\ UNCHANGED <<world, mu, clients>>

\* RegisterNotificationHandler, through the router's lock.
RegisterHandler(u) ==
  /\ At(u, "register")
  /\ Mutex!CanAnnounce(client[Held(u)].router)
  /\ client' = [client EXCEPT ![Held(u)].router = Mutex!Announced(@, u)]
  /\ Goes(u, "registering")
  /\ UNCHANGED <<world, mu, clients>>

HandlerRegistered(u) ==
  /\ At(u, "registering")
  /\ Mutex!Owns(client[Held(u)].router, u)
  /\ client' = [client EXCEPT ![Held(u)].router = Mutex!Unlocked(@)]
  /\ Returns(u, Held(u))
  /\ UNCHANGED <<world, mu, clients>>

----------------------------------------------------------------------------
(* Servers, connections and contexts *)

Sends(c, m) == client' = [client EXCEPT ![c].inbox = Append(@, m)]

Running(c) == client[c].process = "running" /\ client[c].output = "open"

\* The server answers u, or tells the client something (diagnostics, a log).
Answer(c, u) ==
  /\ Running(c) /\ Linked(c)
  /\ Waiting(u, c) /\ ~Contains(client[c].inbox, u)
  /\ Sends(c, u)
  /\ UNCHANGED <<world, mu, clients, call>>

Notify(c) ==
  /\ Running(c) /\ Linked(c) /\ client[c].notices < world.notices
  /\ client' = [client EXCEPT ![c].inbox = Append(@, Notice), ![c].notices = @ + 1]
  /\ UNCHANGED <<world, mu, clients, call>>

\* The process ends by itself, or because its context was cancelled, or it
\* only closes its output.
Dies(c) ==
  client' = [client EXCEPT ![c].process = "dead", ![c].output = "ended"]

Crash(c) ==
  /\ Running(c)
  /\ Dies(c)
  /\ UNCHANGED <<world, mu, clients, call>>

HangUp(c) ==
  /\ Running(c)
  /\ client' = [client EXCEPT ![c].output = "ended"]
  /\ UNCHANGED <<world, mu, clients, call>>

Killed(c) ==
  /\ client[c].process = "running" /\ client[c].cancelled
  /\ Dies(c)
  /\ UNCHANGED <<world, mu, clients, call>>

\* A slip: a process that does not end by itself is waited for.
ReapWaiting(c) ==
  /\ client[c].process = "running" /\ ~Linked(c) /\ client[c].cancelled
  /\ Dies(c)
  /\ UNCHANGED <<world, mu, clients, call>>

\* processCloser.Close, run when the connection is closed: the process ends by
\* itself within five seconds or is killed.
Reap(c) ==
  /\ client[c].process = "running" /\ ~Linked(c)
  /\ Dies(c)
  /\ UNCHANGED <<world, mu, clients, call>>

\* The read loop takes the next message: an answer wakes its caller, with a
\* result or an error; a notification is routed.
Deliver(c) ==
  /\ Linked(c) /\ client[c].loop = "reading" /\ client[c].inbox # <<>>
  /\ LET m == Head(client[c].inbox)
     IN  IF m = Notice
         THEN /\ client' = [client EXCEPT ![c].inbox = Tail(@), ![c].loop = "routing",
                                          ![c].router = Mutex!RLocked(@, Loop)]
              /\ UNCHANGED call
         ELSE /\ client' = [client EXCEPT ![c].inbox = Tail(@)]
              /\ \E r \in {"result", "error"} : call' = [call EXCEPT ![m].reply = r]
  /\ UNCHANGED <<world, mu, clients>>

\* A slip: only the end of the process ends the connection.
SeeEndOfProcess(c) ==
  /\ Linked(c) /\ client[c].loop = "reading"
  /\ client[c].inbox = <<>> /\ client[c].process = "dead"
  /\ client' = [client EXCEPT ![c] = Closed(@)]
  /\ UNCHANGED <<world, mu, clients, call>>

\* The connection's end: the read loop finds that there is no more output.
SeeEnd(c) ==
  /\ Linked(c) /\ client[c].loop = "reading"
  /\ client[c].inbox = <<>> /\ client[c].output = "ended"
  /\ client' = [client EXCEPT ![c] = Closed(@)]
  /\ UNCHANGED <<world, mu, clients, call>>

\* A call on a closed connection fails, at once or while it waits.
Disconnected(u) ==
  /\ \E c \in Made : Waiting(u, c) /\ ~Linked(c)
  /\ call' = [call EXCEPT ![u].reply = "error"]
  /\ UNCHANGED <<world, mu, clients, client>>

\* The context of a call ends; an answer that comes later is dropped.
Expire(u) ==
  /\ world.relies = "deadlines"
  /\ \E c \in Made :
       /\ Waiting(u, c)
       /\ client' = [client EXCEPT ![c] = Forget(@, u)]
  /\ call' = [call EXCEPT ![u].reply = "error"]
  /\ UNCHANGED <<world, mu, clients>>

\* Router.Route: the handler runs while the lock is held. One that asks the
\* registry (ListClients) needs its lock too.
RunHandler(c) ==
  /\ client[c].loop = "routing" /\ Mutex!Shares(client[c].router, Loop)
  /\ client' = [client EXCEPT ![c].loop = "handling"]
  /\ mu' = IF world.handlers = "asking" THEN Mutex!RLocked(mu, c) ELSE mu
  /\ UNCHANGED <<world, clients, call>>

HandlerReturns(c) ==
  /\ client[c].loop = "handling"
  /\ world.handlers = "asking" => Mutex!Shares(mu, c)
  /\ mu' = Mutex!RUnlocked(mu, c)
  /\ client' = [client EXCEPT ![c].loop = "reading",
                              ![c].router = Mutex!RUnlocked(@, Loop)]
  /\ UNCHANGED <<world, clients, call>>

----------------------------------------------------------------------------
\* The steps of a goroutine inside its call, but for the waits.
Step(u) ==
  \/ RLock(u) \/ Look(u) \/ Start(u) \/ Registered(u) \/ InitializeFailed(u)
  \/ Stop(u) \/ StopAll(u) \/ ShutdownAnswered(u) \/ ShutdownFailed(u) \/ Exit(u)
  \/ Send(u) \/ RequestDone(u) \/ Kill(u) \/ HandlerRegistered(u)
  \/ Disconnected(u)

ReadLoop(c) == Deliver(c) \/ SeeEnd(c) \/ RunHandler(c) \/ HandlerReturns(c)

Next ==
  \/ \E u \in Users :
       \/ \E op \in world.calls[u] :
            \/ op \in {"StopAll", "GetClientsForFile"} \cup OnClient /\ Begin(u, op, None)
            \/ \E n \in Names :
                 /\ op \notin {"StopAll", "GetClientsForFile"} \cup OnClient
                 /\ Begin(u, op, n)
       \/ Step(u) \/ Lock(u) \/ RegisterHandler(u) \/ Expire(u)
  \/ \E c \in Made :
       \/ \E u \in Users : Answer(c, u)
       \/ Notify(c) \/ Crash(c) \/ HangUp(c) \/ Killed(c) \/ Reap(c)
       \/ ReadLoop(c)

Spec == Init /\ [][Next]_vars

\* Goroutines run, locks are granted to those who keep waiting, the system
\* kills and reaps; contexts end or servers answer, whichever the world says.
Fairness ==
  /\ \A u \in Users :
       /\ WF_vars(Step(u)) /\ WF_vars(Expire(u))
       /\ SF_vars(Lock(u)) /\ SF_vars(RegisterHandler(u))
  /\ \A c \in Ids :
       /\ WF_vars(c \in Made /\ ReadLoop(c))
       /\ WF_vars(c \in Made /\ (Killed(c) \/ Reap(c)))
       /\ \A u \in Users : WF_vars(world.relies = "answers" /\ c \in Made /\ Answer(c, u))

FairSpec == Spec /\ Fairness

----------------------------------------------------------------------------
(* Properties *)

\* The states are well typed; a name is registered to a client of that name,
\* and whoever is outside of the registry has not kept its lock.
TypeOK ==
  /\ world \in Worlds
  /\ Mutex!IsMutex(mu, Users \cup Ids)
  /\ Len(client) <= MaxClients
  /\ \A n \in Names : clients[n] # None => clients[n] \in Made /\ client[clients[n]].name = n
  /\ \A c \in Made :
       /\ client[c].process \in {"running", "dead"}
       /\ client[c].output \in {"open", "ended"} /\ client[c].link \in {"open", "closed"}
       /\ client[c].loop \in {"reading", "routing", "handling"}
       /\ Mutex!IsMutex(client[c].router, Users \cup {Loop})
       /\ \A i \in DOMAIN client[c].inbox : client[c].inbox[i] \in Users \cup {Notice}
  /\ \A u \in Users :
       /\ call[u].on \in {None} \cup Made /\ call[u].got \in {None} \cup Made
       /\ call[u].reply \in {"none", "awaited", "result", "error"}
       /\ At(u, "outside") => mu.writer # u /\ u \notin mu.readers

\* No server that works is lost: one that was initialized, is connected and
\* was not told to exit is the one that the registry has under its name,
\* however starts, stops, restarts and failures of the two are interleaved
\* (StartServer, StopServer, StopAll).
NoServerLost ==
  \A c \in Made :
    client[c].initialized /\ Linked(c) /\ ~client[c].cancelled
      => clients[client[c].name] = c

\* Nobody is given a client that is not initialized (GetClient and the other
\* methods while StartServer waits for the server or fails).
OnlyInitialized ==
  \A u \in Users : Held(u) # None => client[Held(u)].initialized

\* An answer is waited for by the goroutine it is delivered to, and by that
\* call of its: one that has given up is not given it later.
AnswersAreAwaited ==
  \A c \in Made : \A i \in DOMAIN client[c].inbox :
    LET m == client[c].inbox[i] IN m # Notice => Waiting(m, c)

\* RestartServer returns a server that was started after it was called, also
\* when others start and stop servers between its two halves.
RestartIsFresh ==
  [][\A u \in Users :
       call[u].op = "Restarting" /\ call'[u].op = "none" /\ call'[u].got # None
         => call'[u].got > call[u].since]_vars

\* Every call returns, provided that contexts end or that servers answer and
\* handlers are quiet: crashes, hang-ups, kills and full restarts included.
CallsReturn == \A u \in Users : ~At(u, "outside") ~> At(u, "outside")

\* The process of a server that the registry no longer has ends.
RemovedServersEnd ==
  \A c \in Ids :
    c \in Made /\ client[c].initialized /\ clients[client[c].name] # c
      ~> c \in Made /\ client[c].process = "dead"

\* Callers and clients are paired: a caller is given a client that is
\* initialized, and an answer goes to the call that waits for it (StartServer,
\* GetClient; Client.call and its pending answers).
CallersAreServed == OnlyInitialized /\ AnswersAreAwaited
=============================================================================
