--------------------------------- MODULE Hub --------------------------------
(***************************************************************************)
(* internal/handler/ws.go: the hub of one server instance.  It maps the QQ  *)
(* number of every logged-in user to a connection, under h.mu, and its      *)
(* handlers run on the read goroutines of the connections (Conn.tla), next  *)
(* to the goroutines that push offline messages and the one that shuts the  *)
(* server down.                                                            *)
(*                                                                         *)
(* A section that holds h.mu is one step, except the loop of Shutdown.  A   *)
(* connection that was looked up under the lock is used after the unlock,   *)
(* in a later step.  What a request reads or writes in the database is not  *)
(* part of this module: a request is a reply on its own connection followed *)
(* by messages to the connections of some set of users.                     *)
(***************************************************************************)
EXTENDS Conn, FiniteSets

CONSTANTS
  QQs,          \* QQ numbers
  NoQQ,         \* c.QQ = 0: not logged in
  NoConn,       \* no entry in h.conns
  MaxConns,     \* h.maxConns
  MaxOffline,   \* bound on the offline messages one login finds
  Relogin       \* may a client log in on a connection that is logged in?

ASSUME HubAssumption ==
  /\ NoQQ \notin QQs
  /\ NoConn \notin Conns
  /\ MaxConns \in Nat \ {0}
  /\ MaxOffline \in Nat
  /\ Relogin \in BOOLEAN

VARIABLES
  conns,        \* h.conns
  qq,           \* c.QQ of every connection
  mu,           \* h.mu as a writer sees it; "leaked": locked for ever
  stopped,      \* Shutdown was called
  accounts,     \* the users of the database
  pc,           \* what a goroutine does next
  who,          \* the user that a login or an offline push is about
  rcpts,        \* users a handler has still to look up
  found,        \* the connection a goroutine looked up and has yet to use
  left,         \* messages an offline push has still to send
  again,        \* history: connections that logged in although they were logged in
  dropped       \* history: connections that a message was dropped for

shared == <<conns, qq, mu, stopped, accounts>>
hubVars == <<shared, pc, who, rcpts, found, left>>
observed == <<again, dropped>>
vars == <<connVars, hubVars, observed>>

\* handleConnection and the handlers run on Conns, pushOfflineMessages on
\* Background: a goroutine of it is one slot for "go h.pushOfflineMessages".
ConnPC == {"none", "admitted", "register", "login", "greet", "spawn", "reply",
           "route", "send", "gone"}
PushPC == {"none", "query", "look", "push"}

ServerTypeOK ==
  /\ TypeOK
  /\ conns \in [QQs -> Conns \cup {NoConn}]
  /\ qq \in [Conns -> QQs \cup {NoQQ}]
  /\ mu \in {"free", "leaked", "shutdown"}
  /\ stopped \in BOOLEAN
  /\ accounts \in SUBSET QQs
  /\ pc \in [Goroutines -> ConnPC \cup PushPC]
  /\ who \in [Goroutines -> QQs \cup {NoQQ}]
  /\ rcpts \in [Conns -> SUBSET QQs]
  /\ found \in [Goroutines -> Conns \cup {NoConn}]
  /\ left \in [Background -> Nat]

HubTypeOK == ServerTypeOK /\ again \subseteq Conns /\ dropped \subseteq Conns

HubInit ==
  /\ Init
  /\ conns = [q \in QQs |-> NoConn]
  /\ qq = [c \in Conns |-> NoQQ]
  /\ mu = "free"
  /\ stopped = FALSE
  /\ accounts \in SUBSET QQs
  /\ pc = [g \in Goroutines |-> "none"]
  /\ who = [g \in Goroutines |-> NoQQ]
  /\ rcpts = [c \in Conns |-> {}]
  /\ found = [g \in Goroutines |-> NoConn]
  /\ left = [g \in Background |-> 0]
  /\ again = {} /\ dropped = {}

Goto(g, l) == pc' = [pc EXCEPT ![g] = l]

-----------------------------------------------------------------------------
(* ServeWS: the limit is checked, and the connection upgraded later.       *)

Registered == {q \in QQs : conns[q] # NoConn}

Admit(c) ==
  /\ reader[c] = "idle" /\ pc[c] = "none"
  /\ mu = "free"
  /\ Cardinality(Registered) < MaxConns
  /\ Goto(c, "admitted")
  /\ UNCHANGED <<connVars, shared, who, rcpts, found, left>>

Upgrade(c) ==
  /\ pc[c] = "admitted"
  /\ Start(c)
  /\ Goto(c, "none")
  /\ UNCHANGED <<shared, who, rcpts, found, left>>

UpgradeFails(c) ==
  /\ pc[c] = "admitted"
  /\ Goto(c, "none")
  /\ UNCHANGED <<connVars, shared, who, rcpts, found, left>>

-----------------------------------------------------------------------------
(* dispatch: what a client may ask for.                                    *)

MayLogin(c) == Relogin \/ qq[c] = NoQQ

\* The credentials were accepted; the registration in the hub comes next.
ReceiveLogin(c, q) ==
  /\ ReadMessage(c)
  /\ MayLogin(c)
  /\ q \in accounts
  /\ Goto(c, "login")
  /\ who' = [who EXCEPT ![c] = q]
  /\ UNCHANGED <<shared, rcpts, found, left>>

ReceiveRegister(c, q) ==
  /\ ReadMessage(c)
  /\ MayLogin(c)
  /\ q \notin accounts
  /\ accounts' = accounts \cup {q}
  /\ Goto(c, "register")
  /\ who' = [who EXCEPT ![c] = q]
  /\ UNCHANGED <<conns, qq, mu, stopped, rcpts, found, left>>

\* Any other request, refused logins included: a reply, then messages to S
\* (nobody, the peer of a chat or friend request, the members of a group).
ReceiveRequest(c, S) ==
  /\ ReadMessage(c)
  /\ Goto(c, "reply")
  /\ rcpts' = [rcpts EXCEPT ![c] = S]
  /\ UNCHANGED <<shared, who, found, left>>

\* Acks, receipts and malformed input are handled without writing anything.
ReceiveSilent(c) ==
  /\ ReadMessage(c)
  /\ Goto(c, "route")
  /\ UNCHANGED <<shared, who, rcpts, found, left>>

Receive(c) ==
  \/ \E q \in QQs : ReceiveLogin(c, q) \/ ReceiveRegister(c, q)
  \/ \E S \in SUBSET QQs : ReceiveRequest(c, S)
  \/ ReceiveSilent(c)

-----------------------------------------------------------------------------
(* Requests.                                                               *)

Reply(c) ==
  /\ pc[c] = "reply" /\ reader[c] = "handling"
  /\ \E m \in Msgs : WriteProto(c, c, m)
  /\ Goto(c, "route")
  /\ UNCHANGED <<shared, who, rcpts, found, left>>

\* sendToUser, broadcastToGroup, notifyFriend...: the lookup under the lock
LookUp(c, q) ==
  /\ pc[c] = "route" /\ reader[c] = "handling"
  /\ q \in rcpts[c]
  /\ mu = "free"
  /\ rcpts' = [rcpts EXCEPT ![c] = @ \ {q}]
  /\ found' = [found EXCEPT ![c] = conns[q]]
  /\ Goto(c, IF conns[q] = NoConn THEN "route" ELSE "send")
  /\ UNCHANGED <<connVars, shared, who, left>>

\* ... and the write, after the unlock, on the connection found then.
SendFound(c) ==
  /\ pc[c] = "send" /\ reader[c] = "handling"
  /\ \E m \in Msgs : WriteProto(c, found[c], m)
  /\ found' = [found EXCEPT ![c] = NoConn]
  /\ Goto(c, "route")
  /\ UNCHANGED <<shared, who, rcpts, left>>

Return(c) ==
  /\ pc[c] = "route"
  /\ rcpts[c] = {}
  /\ HandlerReturns(c)
  /\ Goto(c, "none")
  /\ UNCHANGED <<shared, who, rcpts, found, left>>

-----------------------------------------------------------------------------
(* handleRegister and handleLogin.                                         *)

\* The automatic login after a registration can fail; nothing is said then.
RegisterReply(c) ==
  /\ pc[c] = "register" /\ reader[c] = "handling"
  /\ \E m \in Msgs : WriteProto(c, c, m)
  /\ \/ Goto(c, "login") /\ UNCHANGED who
     \/ Goto(c, "route") /\ who' = [who EXCEPT ![c] = NoQQ]
  /\ UNCHANGED <<shared, rcpts, found, left>>

\* c.Send of every connection after oldConn.Close() in a login of q.
\* Mutants of Evict: the old connection stays open, or its channel is closed
\* without the test of done that Close makes.
EvictNobody(q) == sendClosed
EvictUnchecked(q) == [c \in Conns |-> sendClosed[c] \/ c = conns[q]]
Evict(q) == ClosedBy({conns[q]})

\* h.conns after "h.conns[qq] = c".  Mutant of Entered: an entry that is there
\* stays.
EnteredIfNew(c, q) == IF conns[q] = NoConn THEN [conns EXCEPT ![q] = c] ELSE conns
Entered(c, q) == [conns EXCEPT ![q] = c]

\* The section between h.mu.Lock() and h.mu.Unlock().  There is no defer: if
\* closing the old connection panics, the lock is never released.
EnterHub(c) ==
  LET q == who[c] old == conns[q] IN
  /\ pc[c] = "login" /\ reader[c] = "handling"
  /\ mu = "free"
  /\ IF old # NoConn /\ ClosePanics(old)
     THEN /\ mu' = "leaked"
          /\ Panic(c)
          /\ UNCHANGED <<sendClosed, conns, qq, pc>>
     ELSE /\ sendClosed' = Evict(q)
          /\ qq' = [qq EXCEPT ![c] = q]
          /\ conns' = Entered(c, q)
          /\ Goto(c, "greet")
          /\ UNCHANGED <<mu, reader, process>>
  /\ UNCHANGED <<send, done, writer, closers>>
  /\ UNCHANGED <<stopped, accounts, who, rcpts, found, left>>

\* LoginResponse carries h.Count(), which takes the read lock.
Greet(c) ==
  /\ pc[c] = "greet" /\ reader[c] = "handling"
  /\ mu = "free"
  /\ \E m \in Msgs : WriteProto(c, c, m)
  /\ Goto(c, "spawn")
  /\ UNCHANGED <<shared, who, rcpts, found, left>>

SpawnPush(c, p) ==
  /\ pc[c] = "spawn" /\ reader[c] = "handling"
  /\ pc[p] = "none"
  /\ pc' = [pc EXCEPT ![c] = "route", ![p] = "query"]
  /\ who' = [who EXCEPT ![p] = who[c], ![c] = NoQQ]
  /\ UNCHANGED <<connVars, shared, rcpts, found, left>>

-----------------------------------------------------------------------------
(* After ReadLoop: RemoveUser(c.QQ), which looks the user up again.  The    *)
(* unlock is deferred, so a panic leaves the entry but not the lock.        *)

\* h.conns after "delete(h.conns, qq)".  Mutants of Deregister: the entry is
\* kept, or it is kept unless it is the connection that is cleaned up.
KeepEntry(c, q) == conns
DeregisterOwn(c, q) == IF conns[q] = c THEN [conns EXCEPT ![q] = NoConn] ELSE conns
Deregister(c, q) == [conns EXCEPT ![q] = NoConn]

Leave(c) ==
  /\ reader[c] = "left" /\ pc[c] = "none"
  /\ qq[c] = NoQQ
  /\ Goto(c, "gone")
  /\ UNCHANGED <<connVars, shared, who, rcpts, found, left>>

RemoveUser(c) ==
  LET q == qq[c] entry == conns[q] IN
  /\ reader[c] = "left" /\ pc[c] = "none"
  /\ q # NoQQ
  /\ mu = "free"
  /\ IF entry # NoConn /\ ClosePanics(entry)
     THEN Panic(c) /\ UNCHANGED <<sendClosed, conns, pc>>
     ELSE /\ sendClosed' = ClosedBy({entry})
          /\ conns' = Deregister(c, q)
          /\ Goto(c, "gone")
          /\ UNCHANGED <<reader, process>>
  /\ UNCHANGED <<send, done, writer, closers>>
  /\ UNCHANGED <<qq, mu, stopped, accounts, who, rcpts, found, left>>

-----------------------------------------------------------------------------
(* pushOfflineMessages, on its own goroutine.                              *)

PushEnds(p) ==
  /\ Goto(p, "none")
  /\ who' = [who EXCEPT ![p] = NoQQ]
  /\ found' = [found EXCEPT ![p] = NoConn]
  /\ left' = [left EXCEPT ![p] = 0]

QueryOffline(p, n) ==
  /\ pc[p] = "query"
  /\ IF n = 0
     THEN PushEnds(p)
     ELSE /\ left' = [left EXCEPT ![p] = n]
          /\ Goto(p, "look")
          /\ UNCHANGED <<who, found>>
  /\ UNCHANGED <<connVars, shared, rcpts>>

PushLookUp(p) ==
  LET d == conns[who[p]] IN
  /\ pc[p] = "look"
  /\ mu = "free"
  /\ IF d = NoConn
     THEN PushEnds(p)
     ELSE /\ found' = [found EXCEPT ![p] = d]
          /\ Goto(p, "push")
          /\ UNCHANGED <<who, left>>
  /\ UNCHANGED <<connVars, shared, rcpts>>

PushOne(p) ==
  /\ pc[p] = "push"
  /\ \E m \in Msgs : WriteProto(p, found[p], m)
  /\ IF left[p] = 1
     THEN PushEnds(p)
     ELSE /\ left' = [left EXCEPT ![p] = @ - 1]
          /\ found' = [found EXCEPT ![p] = NoConn]
          /\ Goto(p, "look")
          /\ UNCHANGED who
  /\ UNCHANGED <<shared, rcpts>>

\* proto.Marshal refuses the message: the push ends, the rest is not sent.
PushAborts(p) ==
  /\ pc[p] = "push"
  /\ PushEnds(p)
  /\ UNCHANGED <<connVars, shared, rcpts>>

-----------------------------------------------------------------------------
(* hub.Shutdown, called once by the signal handler of main.                *)

ShutdownBegins ==
  /\ ~stopped
  /\ mu = "free"
  /\ mu' = "shutdown"
  /\ stopped' = TRUE
  /\ UNCHANGED <<connVars, conns, qq, accounts, pc, who, rcpts, found, left>>

ShutdownCloses(q) ==
  /\ mu = "shutdown"
  /\ q \in Registered
  /\ \E g \in Background : Close(g, conns[q])
  /\ conns' = [conns EXCEPT ![q] = NoConn]
  /\ UNCHANGED <<closers, qq, mu, stopped, accounts, pc, who, rcpts, found, left>>

ShutdownEnds ==
  /\ mu = "shutdown"
  /\ Registered = {}
  /\ mu' = "free"
  /\ UNCHANGED <<connVars, conns, qq, stopped, accounts, pc, who, rcpts, found, left>>

Exit ==
  /\ stopped /\ mu = "free"
  /\ process' = "exited"
  /\ UNCHANGED <<send, sendClosed, done, reader, writer, closers, hubVars>>

-----------------------------------------------------------------------------
Handler(c) ==
  \/ Reply(c) \/ (\E q \in QQs : LookUp(c, q)) \/ SendFound(c) \/ Return(c)
  \/ RegisterReply(c) \/ EnterHub(c) \/ Greet(c)
  \/ \E p \in Background : SpawnPush(c, p)

CleanUp(c) == Leave(c) \/ RemoveUser(c)

Push(p) ==
  \/ \E n \in 0..MaxOffline : QueryOffline(p, n)
  \/ PushLookUp(p) \/ PushOne(p) \/ PushAborts(p)

Transport(c) ==
  /\ \/ ReadFails(c) \/ WriteLoop(c) \/ WriteMessageFails(c) \/ PingFails(c)
     \/ SpawnedClose(c)
  /\ UNCHANGED hubVars

Shutdown ==
  \/ ShutdownBegins \/ (\E q \in QQs : ShutdownCloses(q)) \/ ShutdownEnds \/ Exit

\* The history of a step: every message that is dropped leaves a go c.Close().
Observe ==
  /\ again' = again \cup {c \in Conns : qq[c] # NoQQ /\ pc[c] = "login" /\ pc'[c] = "greet"}
  /\ dropped' = dropped \cup {c \in Conns : closers'[c] > closers[c]}

HubNext ==
  /\ process = "running"
  /\ \/ \E c \in Conns : \/ Admit(c) \/ Upgrade(c) \/ UpgradeFails(c)
                         \/ Receive(c) \/ Handler(c) \/ CleanUp(c) \/ Transport(c)
     \/ \E p \in Background : Push(p)
     \/ Shutdown
  /\ Observe

HubSpec == HubInit /\ [][HubNext]_vars

\* Every goroutine of the server is scheduled; only what a client or the
\* network decides (Admit, Receive, a failing read or write) need not happen.
\* Fairness is strong where a step is disabled from time to time: h.mu is a
\* RWMutex, which starves nobody; where SlowPeers is FALSE a caller waits for
\* room in c.Send, which in the code is a send that succeeds at once; and a
\* read goroutine may find frames that were buffered before c.WS was closed,
\* but only finitely many.
Run(A) == process = "running" /\ A /\ Observe
HubFairness ==
  /\ \A c \in Conns :
       /\ SF_vars(Run(Handler(c) \/ CleanUp(c)))
       /\ WF_vars(Run(WriteLoop(c) /\ UNCHANGED hubVars))
       /\ WF_vars(Run(SpawnedClose(c) /\ UNCHANGED hubVars))
       /\ SF_vars(Run(writer[c] = "exited" /\ ReadFails(c) /\ UNCHANGED hubVars))
  /\ \A p \in Background : SF_vars(Run(Push(p)))
  /\ WF_vars(Run((\E q \in QQs : ShutdownCloses(q)) \/ ShutdownEnds))

HubFairSpec == HubSpec /\ HubFairness

-----------------------------------------------------------------------------
(* Properties that hold whatever the clients do.                           *)

Live(c) == qq[c] # NoQQ /\ ~sendClosed[c] /\ ~done[c]

\* A connection that is logged in and that nobody has closed is the one the
\* hub routes its user's messages to.  A user thus has at most one of them,
\* although logins, disconnects, overflows and Shutdown close and deregister
\* connections independently (handleLogin, RemoveUser, Shutdown, WriteProto).
LiveIsRegistered == \A c \in Conns : Live(c) => conns[qq[c]] = c

\* The hub routes a user's messages to a connection logged in as that user
\* that still has a goroutine which will deregister it (or has panicked).
\* A clean-up looks its own user up only: the entry that a connection leaves
\* behind when it logs in as somebody else stays.
RoutesToOwner ==
  \A q \in QQs : conns[q] # NoConn /\ conns[q] \notin again =>
    qq[conns[q]] = q /\ pc[conns[q]] # "gone"

\* A connection is not closed and left in the hub: whoever closes it also takes
\* it out of h.conns before h.mu is released, so that no lookup finds it and no
\* second Close panics.  There are two ways around that: go c.Close() after a
\* dropped message, and a second login on the connection, which closes itself or
\* leaves an entry of another account behind.
RegisteredIsOpen ==
  \A q \in QQs : conns[q] # NoConn /\ sendClosed[conns[q]] =>
    done[conns[q]] \/ conns[q] \in again \cup dropped

\* A panic leaves h.mu locked, so that nobody logs in or is found any more, only
\* in a login that replaces a connection which these two ways have closed: no
\* order of logins, clean-ups and Shutdown alone does.
LockLeaksByClosed ==
  mu = "leaked" => \E q \in QQs :
    conns[q] # NoConn /\ sendClosed[conns[q]] /\ conns[q] \in again \cup dropped

\* The handlers use a connection as conn.go expects it to be used: the hub
\* only calls WriteProto and Close, on connections that were started, from
\* goroutines that may call them.
ConnContract == Spec

\* A connection that was closed by a later login, by a clean-up or by Shutdown
\* ends: its writer notices, closes the socket, the reader leaves ReadLoop and
\* cleans up, unless its goroutine was stopped by a panic.
KickedEnds ==
  \A c \in Conns :
    sendClosed[c] ~> (pc[c] = "gone" \/ reader[c] = "panicked" \/ process # "running")

-----------------------------------------------------------------------------
(* What a document of the project says, and the code does not do.           *)

\* Every user has an account from the beginning, and Shutdown is not called.
PushSpec == HubInit /\ accounts = QQs /\ [][HubNext /\ UNCHANGED stopped]_vars

\* Project.md:400, offline messages are pushed at the login: pushing one of them,
\* be there more than a send buffer holds, does not end the server.
PushSurvives == [][\A p \in Background : PushOne(p) => process' = "running"]_vars
=============================================================================
