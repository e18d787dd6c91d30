# A formal model of QQGO

QQGO is a chat server in Go with a terminal client: clients keep one WebSocket
open, a hub maps user numbers (QQ numbers) to connections, messages are rows of
a SQLite database, and Redis, if enabled, connects several server instances.
This directory holds TLA+ modules of the server and of the terminal, the TLC
configurations that check them on small instances, and TLAPS proofs of what
holds for every value of the constants. `PROJECT.json` maps every definition
to the lines it models.

## Inventory

| Part | Source | State | Operations |
|---|---|---|---|
| Connection | `pkg/websocket/conn.go` | `Send` (channel of 256), `done`, the socket, two goroutines | `ReadLoop`, `WriteLoop`, `WriteProto`, `Close` |
| Hub | `internal/handler/ws.go` | `conns` (QQ number to connection) under `mu`, `c.QQ` | `ServeWS`, `dispatch` and 35 handlers, `sendToUser`, `broadcastToGroup`, `pushOfflineMessages`, `RemoveUser`, `Shutdown` |
| Messages | `internal/service/chat.go` | table `messages` (`delivered`, `read_at`, `is_recalled`) | `HandleMessage`, `GetOfflineMessages`, `MarkDelivered`, `MarkRead`, `RecallMessage`, histories, sessions, search, `CleanMessages` |
| Friends and admission | `internal/service/chat.go` | tables `friends`, `friend_groups`, `message_counts`, `blacklists` | request, accept, reject, delete, groups of friends, the quota of messages to strangers, block |
| Groups | `internal/service/chat.go` | tables `groups` (with a cached `member_cnt`) and `group_members` | create, join, leave, list |
| Accounts | `internal/service/chat.go`, `jwt.go` | table `users`, tokens | register, login by password or token, refresh, change of the password |
| Presence and routing | `internal/middleware/online.go`, `pubsub.go` | Redis keys `online:<qq>` with a time to live, channels `ch:qq:*` and `ch:group:*` | set online/offline/refresh, publish, the listening loop |
| Rate limit | `internal/middleware/ratelimit.go` | one token bucket per user | `Allow`, `Remove` |
| Server process | `cmd/server/main.go` | | start, shutdown on a signal |
| Client | `cmd/client` | the account (`myQQNumber`, `currentQQ`, `pendingLoginQQ`), token files and logs, the chat target, the place in a history, `sentCount` | commands, the handlers of the answers, acknowledgements |
| Backup | `internal/service/chat.go` | a copy of the database file | `BackupDB`, `CleanMessages` |

How they interact: net/http starts one goroutine per connection, which runs
`ReadLoop` and, inside it, one handler after the other; a second goroutine runs
`WriteLoop`. A handler of one connection looks up another connection under
`h.mu` and calls `WriteProto` on it after the unlock. `go c.Close()`,
`go h.pushOfflineMessages()`, the Redis listener and the signal handler are
further goroutines. Handlers share the database, one statement at a time and
without transactions.

What is hard, and what correctness means for each part:

* Connections: `Send` is closed while others send on it, and sending on or
  closing a closed channel panics. Messages must arrive in order, none after
  the close frame; a connection that is closed, or that dropped a message, must
  end.
* Hub: logins, clean-ups, kick-outs and shutdown rewrite `conns`
  concurrently, and every handler uses connections after it released the lock.
  A live connection must be the one its user is reached by, no closed
  connection may stay in the map, and no panic may leave `mu` locked.
* Messages: rows, pushes, sends and acknowledgements race with logins,
  disconnects and restarts. A message must not fall between the send and the
  push, and must not be marked before it was shown.
* Friends, groups and accounts: check-then-act on several rows without
  transactions. Friendship must be symmetric, limits must hold, the cached
  member count must agree with the rows, a crash must not block registration.
* Accounts: a password is compared and written in different statements, and so
  are the row of an account and its number. Tokens must not outlive the
  password they were obtained with, and what a user was told must be true.
* Histories, search, sessions: several statements each, without a transaction,
  on a table that changes between them and between two pages; an answer that
  cannot be marshalled is not sent. Who pages through a chat must not miss a row.
* Client: two goroutines share all of its state, and answers do not say which
  request they answer. Tokens and logs must belong to their account, a message
  must have one target, and the answer to a message must be displayed.
* Presence: keys that expire and are deleted non-atomically; a user who is
  connected somewhere must be found from everywhere.

## Modules

| Module | Models | Checked by |
|---|---|---|
| `Conn` | `Conn` and its goroutines, under arbitrary callers | `stream`, and `ConnContract` in `hub_slow` |
| `Stream` | what a connection promises (abstract) | |
| `ConnStream` | `Conn` with a history of what was accepted and written; implements `Stream` | `stream` |
| `Hub` | the hub of one instance, extends `Conn` and replaces its arbitrary callers by the handlers | `hub_*` |
| `Mailbox` | what the server promises about the messages to one user (abstract) | |
| `Delivery` | private messages from the row to the acknowledgement; implements `Mailbox` | `delivery_*` |
| `Friends` | friendships, the blacklist and the admission of private messages, as rows that concurrent handlers read and write | `friends` |
| `Friendship` | `Friends` with a history of which handlers about two users overlapped | `friends` |
| `Groups` | the members of a group against its cached count, the capacity and the owner | `groups` |
| `Cluster` | presence keys, channels, listeners and lifetimes of several server instances around one Redis | `cluster` |
| `Accounts` | registration, logins, tokens and passwords, as a table that concurrent handlers read and write | `accounts` |
| `Client` | the account of one terminal: its token files and logs against the answers of the server, with expiry, losses and restarts | `client` |
| `History` | the queries on the messages of one user: histories, search, sessions (operators only) | `terminal` |
| `Terminal` | the chat of one terminal: target, paging and unanswered messages, over the table of `History` as it changes | `terminal` |
| `MCHub`, `MCDelivery`, `MCAccounts` | symmetry sets | |
| `MCFriends`, `MCGroups`, `MCCluster`, `MCClient`, `MCTerminal` | who is who on the small instances | |
| `HubProofs`, `DeliveryProofs`, `FriendsProofs`, `GroupsProofs`, `ClusterProofs`, `AccountsProofs`, `TerminalProofs`, `ClientProofs` | the proofs; those of `Conn` and `ConnStream` are in `HubProofs` | |

`Hub` extends `Conn`, `ConnStream` extends `Conn` and refines `Stream`,
`Delivery` refines `Mailbox`. The others meet through what they assume of each
other: `Delivery` uses connections as `Stream` promises and the hub as `Hub`
does, `Cluster` begins where a lookup in the hub finds nobody, and `Friends` is
what a private message passes before `Delivery` stores it. `Terminal` extends
`History`, whose table its server writes; it begins where `Client` is logged in.
`Client` has a server of one connection that answers as `Accounts` does between
two of its statements.

### Conn

The variables are the fields of every `Conn` that may be created: the contents
of `Send`, whether it and `done` were closed, and where the two goroutines are.
`closers` counts the goroutines started by `go c.Close()` that have not run.
`WriteProto` has four outcomes: the message is queued (`Enqueue`), the buffer
is full (`Overflow`), the channel was closed (`SendPanics`), or, only where
peers are not slow, the writer is gone and the message will never be read
(`Discard`). `Close` panics if `Send` was closed and the reader has not left.
`Panic(g)` is what Go and net/http make of a panic: the goroutine of a
connection stops, and is never cleaned up; any other ends the process.
`WriteLoop` is its select: any ready branch. The socket is open exactly while
`WriteLoop` runs, since each of its returns closes it. Reading may go on for a
while after that, because frames may have been buffered.

Two constants bound or shape the environment. `SlowPeers` says whether buffers
may fill up; if not, `WriteProto` is only taken when there is room, which
stands for a writer that keeps up with 256 messages. `MaxClosers` bounds
`closers`.

### Hub

One action per section between two lock operations, because that is the
granularity at which the goroutines interleave: `Admit` and `Upgrade` for
`ServeWS`; `ReceiveLogin`, `EnterHub`, `Greet`, `SpawnPush` for the three
copies of the login code; `ReceiveRequest`, `Reply`, `LookUp`, `SendFound` for
all other requests (a reply, then a message to each user of some set, looked up
one by one); `RemoveUser` for the clean-up; `QueryOffline`, `PushLookUp`,
`PushOne`, `PushAborts` for the offline push, whose goroutines are the elements
of `Background`; `ShutdownBegins`, `ShutdownCloses`, `ShutdownEnds`, `Exit` for
the shutdown. `mu` is free, held by the shutdown, or leaked: the login
sections do not unlock with `defer`, so that a panic of `oldConn.Close()` keeps
it locked, while `RemoveUser` and `Shutdown` do.

A request may address any set of users, so the module covers every handler
without the database. The three logins differ in their credentials only;
registering creates the account first. `Relogin` says whether clients log in on
a connection that is logged in (the server allows it, the project's client does
it when a user types `/login` twice). Two history variables observe the steps:
`again` has the connections on which a second login succeeded, `dropped` those
that a message was dropped for. A login as number 0 (see Accounts) is left out of
this module: its entry `h.conns[0]` is not removed when the connection ends, because
`c.QQ` is 0, and a second login as 0 on one connection, or a login after it, leads to
a closed entry as every second login does, without being in `again`.

### ConnStream and Stream

`ConnStream` numbers the calls of `WriteProto` on each connection and records
what was accepted and what was written. `Stream` is the promise: messages are
written in the order in which they were accepted, none is accepted after the
close, and the close frame is written only after all of them; a stream may also
be cut.

### Delivery and Mailbox

`Delivery` follows the messages to one recipient: `Store` (the row gets the
next id), `LookUp` and `Send` in the sender's handler, the recipient's
connections one after the other or overlapping (`Login` closes the connection
the hub knows, `RemoveUser` closes and removes whatever it finds), the client,
which shows a message and sends a delivery and a read acknowledgement (`Show`),
their handling, and the offline push started by each login. `Crash` and
`PushPanics` end the process and start it again (docker-compose.yml:25,
`restart: unless-stopped`): rows and marks survive, everything else is gone.
Any acknowledgement update or offline query may fail. Connections are used as
`Stream` describes them and the hub as `Hub` does when buffers do not fill up.
`Mailbox` is the promise: stored before shown, shown before marked as
delivered, and delivered before read. The last clause leaves out the messages
whose delivery mark failed, which the history variable `unmarked` collects: a
read mark that follows them is written all the same.

### Friends

The service has no transactions, so that each statement is a step: between two
of them handlers of other connections run. A session is a connection that is
logged in and runs one handler at a time; a user has several where the handlers
of a kicked connection are still running. `pc` names the statement a session
executes next, `peer` the user it is about. A handler's first statement is part
of the action that begins it (`RequestFriend`, `AcceptFriend`, `RejectFriend`,
`DeleteFriend`, `SendMessage`, `BlockUser`, `UnblockUser`). Where that handler
only reads a row and then writes it by key, and losing the race has the same
outcome as coming second, it is one action. Unique indexes are in `Insert`:
inserting a row that exists changes nothing, and where the code ignores the
error it goes on.

`StatementFails` and `FirstStatementFails` go on where the code does, which is
mostly as if nothing had failed (`AfterFailure`). `Restart` forgets everything
but the rows. `Known` and `Chats` restrict who deals with whom and `Stored`
gives the rows at the beginning, so that a user close to his limit is within
reach of TLC; the proofs hold for any of them. The quota of messages to
strangers is 1 (`MaxNonFriendMessages`), which makes the branch that increments
an existing row unreachable.

### Groups

Written in the same way. `rows` counts the rows of each user in
`group_members`, which has no unique index, and `memberCnt` is the cached count:
`JoinGroup` reads it first, tests the capacity on it and writes it back plus one
at its end; `LeaveGroup` decrements it in place. The history variable
`overlaps` adds up, over all writes, the handlers that were under way on other
sessions. It is what the deviation of the count and of the capacity is measured
by: without overlaps and faults both are exact. Only the founder knows the id
of a group before its response, hence the state "created".

### Cluster

One user, some runs of the server, connections that each belong to one run, and
messages sent from any of them. A run has its own random id (main.go:26), so
that a restart is another instance and leaves its key to expire. A login
replaces the entry of the hub under the lock and tells Redis afterwards
(`SetOnline`, `Subscribe`), while `RemoveUser` keeps the lock until it has
talked to Redis (`GetKey`, `DelKey`, `Unsubscribe`): that difference is what
keeps keys and subscriptions from being left behind or lost. `LookUp`,
`GetInstance`, `Publish` are `sendToUser`; `Listen` and `ListenerWrites` the
listening loop, which looks up under the lock, writes after it, and ends the
process if the connection was closed in between. `Expire` may come at any time,
since no client sends the heartbeats that would renew the key. `Stop` ends the
subscription and then `Shutdown` closes the connections, `Crash` ends the run.
`aim` and `shown` record where the user was when a message was published and
which connections it was written to.

### Accounts

Statements are steps, as in `Friends`. A row is created without its number
(`RegisterCreate`) and gets it from a second statement (`RegisterNumber`), whose
error is ignored; meanwhile, the unique index refuses a second row with number 0.
The number 0 can be asked for like any other (`Login`, `LoginWithToken`,
`RefreshAccess`), and then finds that row; what a handler was asked for, and signs
its tokens for, is its local `as`. The refresh token that is sent is compared with
the column, so that the empty one, 0, matches a row that has none yet
(`MayRefresh`). A
login by password compares (`Login`) and writes its refresh token in another
statement (`WriteToken`); a change of the password compares and then replaces password and
token together. The two cryptographic conversions are modelled by what they
decide: a hash is equal to its password (`NewHash`), a refresh token is a
number that is valid while it is in its row, and an access token, which is
signed and stored nowhere, is the fact that somebody holds one for a number.
`RandomSecret` is a server without `JWT_SECRET`: a restart then makes all
access tokens worthless. `issued` and `confirmed` are history variables: to
whom a refresh token was given, after proof of which password, and which
password a user was last told.

### Client

The terminal's two goroutines, its files and one connection at a time, on which
requests and answers queue. `Type*` are the commands, `Serve*` the handlers of
the server (`Answer` is the second half of a login: the connection is
registered first, and messages may be pushed in between), `Read*` the handlers
of the answers. `life` is what each access token is worth: valid, expired or,
after a restart with a new secret, void. `Environment` is time, the network,
another terminal of the same account, the server's restart and the end of the
terminal, also between the two token files that it writes (`ReadLoginCrash`).
The terminal never connects again by itself; a login that finds its own
connection in the hub closes it (`Bind`).

`hasty`, `left` and `early` observe what the exceptions of the properties are
about: a command typed before the last one was answered, accounts that this
terminal was logged into before, and messages that overtake a login's answer.

### History and Terminal

A row's id is its place in `rows`, and times are taken to be in the order of ids
(the time is set just before the insertion that gives the id); `kept` and
`recalled` are the two columns that later statements change. `Selected` and `Window` are a history query with its range,
offset and limit, `Hits`, `ContextBefore` and `ContextAfter` the search,
`SessionList` the list of sessions. Which rows match a keyword is left open
(`Hits` is every row that may). The search and the list of sessions consist of
several statements, too; their operators compare what these return on one state
of the table, and their properties are about that.

`Terminal` has the variables that the keyboard's and the reader's goroutines
share. Where both write one without a lock, the read and the write are two
steps (`typing`, `acking`), so that updates may be lost. `Type*` are the
commands and lines, `Serve*` the server, `Read*` the answers; `Arrive`,
`PeerRecalls` and `Clean` change the table between two pages. Everything that
is answered by a plain `ServerAck` is one request (`TypeOther`), and the rate
limit refuses any request.

A page of a history takes two steps, since `Count` and `Find` are two statements:
`CountHistory` finds the rows that are counted, `ServeHistory` selects the page, and
rows come and go in between. The error of `Count` is ignored: a `Count` that
failed has counted nothing, so that there is said to be no more. After such an
error gorm fails the `Find` on the same statement as well, which the request then
answers with "query failed"; the model has both outcomes, the page and the refusal
(`Refuse`). `binary` are the stored files that are not UTF-8: a page with one of
them cannot be marshalled, `WriteProto` returns without sending it, and the terminal,
whose offset has moved on, is never told (`LosePage`).

## Runs

| Run | Instance | Shows |
|---|---|---|
| `stream` | 2 connections, 1 further goroutine, buffer of 1, 2 messages each | `Conn` implements `Stream`; a connection that dropped a message ends |
| `hub_slow` | 2 connections, 1 account, slow peers, repeated logins, 1 offline message | types; every live connection is the registered one (`LiveIsRegistered`); an entry belongs to its user but after a second login on its connection (`RoutesToOwner`); a closed entry (`RegisteredIsOpen`) and a lock that stays taken (`LockLeaksByClosed`) come from such a login or from a dropped message and nothing else; the hub uses connections as `Conn` allows (`ConnContract`) |
| `hub_live` | 2 connections of 1 account, no slow peers, one login per connection, fairness | a closed connection ends (`KickedEnds`) |
| `delivery_safe` | 2 messages, one a binary file, 2 logins, 1 crash or failure | types, `Delivery` implements `Mailbox` |
| `delivery_live` | 1 message, 2 logins, 1 crash or failure, fairness | `ShownOnceOnline` |
| `friends` | 4 users, 2 of them with a session, a limit of 2, 1 fault | types, the limit on both sides (`FriendLimit`), the quota (`QuotaKept`), friendships of one direction only after faults and overlaps (`MutualFriends`) |
| `groups` | 3 users, 4 sessions, 2 places, 5 joins and leaves, 1 fault | types, `OneRowEach`, `CountAgrees`, `CapacityKept` |
| `cluster` | 2 instances, 3 connections, 1 message | types, no key left behind (`KeyIsTrue`), no subscription lost (`NotLost`) |
| `accounts` | 2 terminals, 2 accounts, 2 passwords, 3 refresh tokens, 1 fault | types; tokens follow passwords (`RefreshFollowsPassword`), what users were told is true (`ConfirmedCounts`), registration stays open and no empty refresh token is left (`RegistrationOpen`) |
| `client` | 2 accounts, one with saved tokens and one to be registered, 1 message, 2 commands, 2 events, fairness | types; `FilesAreOwn`, `SessionAgrees`, `LoggedAsAcked`, and a saved token logs in by itself (`LogsInByItself`) |
| `terminal` | 1 peer, 1 group, 3 rows and 1 more, which may be a binary file, pages of 1, 1 range, 3 commands, 1 event | types; `OneTarget`, `PagesFollowTarget`, `LastAnswerShown`, `WalkComplete`, `StepByPage`, `ContextIsNeighbour`, `SessionsShowNewest` |
| `hub_push` | 1 connection of an existing account, buffer of 2, 4 offline messages, no shutdown | violated: a send of the offline push does not end the process (`PushSurvives`) |

Bounds. Two connections are the fewest with a kick-out and with a clean-up that
follows it, or with a dropped message and the login that then finds the closed entry
and leaks the lock. There is one account, as two are out of TLC's reach in the time
of a run; a connection that logs in as a second account, and leaves the entry of
the first one, is covered by the theorems about the same properties. A
buffer of one fills up after
one message as one of 256 does after 256: nothing in the code depends on the
capacity but `HasRoom`. One `Background` goroutine makes pushes wait for each
other; those that would run side by side touch different connections, or the
same one as handlers do. For deliveries, two messages show order and the rest
of a push that is cut short, and two logins one that overlaps the clean-up of
another. Two sessions of `friends` are the two sides of a friendship, one of
which has a friend and a request already, so that the limit is reached while
both accept. In `groups`, a user with two connections gives the doubled rows,
and five handlers a group that is filled, left and filled again beside a join
that is still under way. In `cluster`, two connections on one instance give the
kick-out and the clean-up that hits the new connection, and the third one
competes for the key.

In `accounts`, two terminals are the overlap of two registrations, and of a
login with a change of the password; three tokens are two logins and a change.
Two commands in `client` are the least with an answer that belongs to the other
one; two events are an expiry during the exchange of an expired token, or a
restart followed by one. Start and the answers are not bounded. In `terminal`, a
page of one row makes a walk of two rows have an inner boundary, with a row that arrives, is recalled or is
deleted there, or counted and not selected, and the file that cannot be sent is the
row that arrives; three commands are the first page and two steps, or a switch, a
second one before its answer, and a message. The runs `accounts` and `terminal` are
the largest, with 2.0 and 1.0 million states. The theorems below do not depend on
any of these bounds.

`CHECK_DEADLOCK FALSE` everywhere: the process may exit or crash, connections
are a finite supply, and clients may stop sending.

### Fairness

Go schedules every goroutine, so each step of the server that is ready is
eventually taken; nothing is assumed of clients and the network, which may stop
at any time, but that reads fail once `WriteLoop` has closed the socket. Strong
fairness is used where a step is enabled again and again without being enabled
all the time: for handlers that wait for `h.mu` (Go's RWMutex starves nobody),
for the `done` branch of the select, which Go picks at random among the ready
ones, and for the failing read, which comes after the finitely many frames that
were buffered. `Delivery` assumes weak fairness of the sender's handler, the
push, the clean-up and the client's read loop, and that a closed connection
ends, which is `KickedEnds` of `Hub`. `Client` assumes weak fairness of the
handler of its connection and of the reader's goroutine and, again, nothing of
the keyboard, of `Start`, or of time: `LogsInByItself` is about a terminal that
runs.

### What the documents say and the code does not do

One of these ends the server and has a run of its own, `hub_push`: `WriteProto`
on a full buffer starts `go c.Close()`, and the push goes on; one of its next sends
panics on a goroutine without recover (Project.md:400). `PushSurvives` is about that
send alone: no step of the push ends the process, in a server that is not shut
down. The others were met while
translating the code. They are part of the models, and the properties state what
holds in spite of them, with the exception named in the property.

* The clean-up of a replaced connection calls `RemoveUser(c.QQ)` and closes the
  connection that replaced it (Project.md:50).
* Two friend requests in opposite directions leave two pending rows; accepting
  one cannot create the reverse row, whose error is ignored (Project.md:343).
  `MutualFriends` says that this and a deletion between the two statements are
  the only ways to a friendship of one direction, but for faults.
* The stored form of a file is pushed in a string field, which protobuf refuses
  to marshal unless it is UTF-8; the push ends there, at every login
  (Project.md:194). `ShownOnceOnline` is checked for a text message. A page of the
  history with such a file is not sent either: `/prev` shows nothing, and the next
  one the page after it (`StepByPage`, `skipped`).
* `/logout` is local. The design (2026-05-27-jwt-auth-design.md:63) says that it
  clears `users.refresh_token`; `ClearRefreshToken` is never called, and the
  server goes on routing to the connection (`SessionAgrees`, `left`).
* A login under the number that the connection has already closes that very
  connection, and its answer is written to a closed channel. A login under another
  number leaves the entry of the first one behind. Both, and a dropped message,
  leave a closed connection in `h.conns`, and the next login of that user panics in
  `oldConn.Close()` with `h.mu` locked, for ever. `RoutesToOwner`, `RegisteredIsOpen`
  and `LockLeaksByClosed` name these causes (`again`, `dropped`).
* Two registrations at once: the second is refused as long as the first row has
  number 0 (`RegistrationOpen`). A login as number 0 finds that row, and an empty
  refresh token matches a row that has none; the access token that is signed for 0
  outlives the number (`KnownAccounts` leaves it out), and logs nobody in.
* `handleRecall` tells the members of a group, but the client never sends a group
  with `/recall`, so that nobody is told (REQUIREMENTS.md:251, CHANGELOG.md:163). A
  message that was recalled before it was delivered is still pushed at the next
  login, and `/sessions` shows recalled content (`SessionsShowNewest`).
* History pages are selected in ascending order: the first page is the oldest
  one, and `/prev` goes on to later rows (REQUIREMENTS.md:32, Project.md:440).
* In a group, the row a search shows after a hit is the next one of the same
  sender, while the one before may be anybody's (Project.md:600). The last clause of
  `ContextIsNeighbour` is what is true.
* `/togroup` answered after a `/to` leaves both targets set, which REQUIREMENTS.md:167
  (BUG-010) excludes: `OneTarget` names this one way (`crossed`). Such a message is a
  row of the group that the peer is pushed too.
* Any "not group member" answer makes the terminal leave the group it is in, also
  if it is about another request; a page that was refused leaves the offset advanced.

## Theorems

| Module | Theorem | Statement |
|---|---|---|
| `HubProofs` | `ConnTypeCorrect` | `Spec => []TypeOK` |
| `HubProofs` | `StreamCorrect` | `StreamSpec => [](StreamTypeOK /\ StreamInv)` |
| `HubProofs` | `ConnImplementsStream` | `StreamSpec => ImplementsStream` |
| `HubProofs` | `HubTypeCorrect` | `HubSpec => []HubTypeOK` |
| `HubProofs` | `OneLiveConnection` | `HubSpec => []LiveIsRegistered` |
| `HubProofs` | `SendsReachOwner` | `HubSpec => []RoutesToOwner` |
| `HubProofs` | `ClosedEntryHasCause`, `LeakHasCause` | `HubSpec => []RegisteredIsOpen`, `[]LockLeaksByClosed` |
| `HubProofs` | `HubUsesConns` | `HubSpec => ConnContract` |
| `DeliveryProofs` | `DeliveryTypeCorrect` | `Spec => []TypeOK` |
| `DeliveryProofs` | `DeliveryImplementsMailbox` | `Spec => ImplementsMailbox` |
| `FriendsProofs` | `FriendsTypeCorrect`, `FriendLimitHolds`, `QuotaHolds` | `Spec => []FriendsTypeOK`, `[]FriendLimit`, `[]QuotaKept` |
| `FriendsProofs` | `MutualFriendsHolds` | `ObservedSpec => []MutualFriends` |
| `GroupsProofs` | `GroupsTypeCorrect`, `OwnerRemainsMember`, `OneRowEachHolds` | `Spec => []GroupsTypeOK`, `[]OwnerRemains`, `[]OneRowEach` |
| `GroupsProofs` | `CountAgreesHolds`, `CapacityHolds` | `Spec => []CountAgrees`, `[]CapacityKept` |
| `ClusterProofs` | `ClusterTypeCorrect`, `KeyStaysTrue`, `NothingIsLost` | `Spec => []ClusterTypeOK`, `[]KeyIsTrue`, `[]NotLost` |
| `AccountsProofs` | `AccountsTypeCorrect`, `KnownAccountsOnly`, `RegistrationStaysOpen`, `TokensFollowPasswords`, `ConfirmedIsTrue` | `Spec => []AccountsTypeOK`, `[]KnownAccounts`, `[]RegistrationOpen`, `[]RefreshFollowsPassword`, `[]ConfirmedCounts` |
| `TerminalProofs` | `TerminalTypeCorrect`, `PagesFollowTargetHolds`, `OneTargetHolds`, `LastAnswerHolds` | `Spec => []TerminalTypeOK`, `[]PagesFollowTarget`, `[]OneTarget`, `[]LastAnswerShown` |
| `TerminalProofs` | `SessionsShowNewestHolds`, `ContextIsNeighbourHolds` | `Spec => []SessionsShowNewest`, `[]ContextIsNeighbour` |
| `TerminalProofs` | `StepByPageHolds`, `WalkCompleteHolds` | `Spec => StepByPage`, `[]WalkComplete` |
| `ClientProofs` | `ClientTypeCorrect`, `SessionAgreesHolds`, `FilesAreOwnHolds` | `Spec => []ClientTypeOK`, `[]SessionAgrees`, `[]FilesAreOwn` |
| `ClientProofs` | `LoggedAsAckedHolds` | `Spec => LoggedAsAcked` |

Assumptions are the named ASSUMEs of the modules, which TLC evaluates, and no
others: any set of connections, users, messages, any capacity and limit. Two of
them deserve a word: `MutualAssumption` says that the friendships of the table at
the beginning are mutual (and that of two strangers one has asked at most), and
`ClientAssumption` that the numbers of accounts are finitely many, so that the
tokens saved at the beginning can be numbered.

* Hub. `LiveIsRegistered` is inductive together with the types: a step that
  takes a connection out of `conns` closes it unless its reader has left, and a
  login closes the one it replaces. The three theorems
  about entries hold whatever clients do and share `EntryInv`: a pending `go
  c.Close()` was left by a dropped message, a connection that is closed without
  ever having logged in had a message dropped, and a connection in the hub has
  logged in. The first two parts say that a connection which is logging in for the
  first time is open or `dropped`, and the third tells its login from a second one; the only
  other step that closes a registered connection takes its entry out. `HubUsesConns` needs the
  program counters to agree with the readers, so that a handler only runs while
  its reader is handling a message.
* Stream. While the writer runs, the messages written followed by those queued
  are those accepted; the refinement maps writing to `Write`, because the head
  of the queue is the next accepted message.
* Delivery. `FlowInv` says where messages and acknowledgements can be: every
  message on its way has a row, every acknowledgement on its way is for a
  message that was shown, and every read acknowledgement in a queue is behind
  the delivery acknowledgement of the same message unless that one was already
  handled. Without the last clause a read receipt that overtakes is not
  excluded.

* Friends. `FriendLimit` is not inductive: a session that has compared its user
  with the limit may still create a row for him. `LimitInv` counts these
  sessions (`Committed`) together with the friends whose acceptance was
  compared (`Confirmed`); a session passes from one to the other, and a fault
  may commit every session at once, hence the product in the bound. For the
  quota the sessions about to write a message's row (`Writing`) are counted with
  the messages that got through. `MutualFriends` is inductive only with what each
  handler has read and not yet used: `RowsMatch` says which pairs of rows two users
  can have while nothing overlapped about them, `OneWayIsPassing` that a friendship
  of one direction has a handler between its two statements, and `FindsItsRows`
  what such a handler, by its program counter, will find.
* Groups. `OwnerRemains` follows from the only step that removes rows, which is
  not open to the owner. `RowInv` counts the sessions about to create a row
  (`Creating`) with the rows of their user; `NothingYet` says that nobody joins
  before the group is known. For the count and the capacity, `CountInv` compares
  `memberCnt` with the rows, and, for each session in the middle of a join or leave,
  the count that it read with what the rows were at that time (`SeenMatches`); a
  write takes the difference from one to the other. Apart from the one statement
  that a handler between its two owes (`Excess`, `Deficit`), each handler that
  another one met is one more in `overlaps`, so that the slack grows by what the
  write may forget. The number of rows is the size of `RowSet`, in which the rows of one user
  are numbered: a sum over users would be a fold, about which nothing can be proved
  by induction here.
* Cluster. Some connection bears witness to the key (`Witness`), and only its own
  clean-up, which has read the key, gives that up. For `NotLost`, `ServeInv` says
  that a clean-up holds the lock until it has talked to Redis, that there is no
  entry meanwhile, and that a connection that is served and open is the entry
  and is subscribed; `AimInv` says that a message is only aimed at a connection
  that has been served.

* Accounts. `NumbersStay` is the lemma behind all of them: rows are only added,
  and a number that was set stays. `RegistrationOpen` is inductive with the types.
  `TokenInv` adds to `RefreshFollowsPassword` what a login about to write its
  token relies on: that the row still has the password it compared, unless it was
  overtaken. `NumberInv` adds to `ConfirmedCounts` that a handler about to confirm
  a number or a password is about to write it; a failing statement then adds
  one row to `Untrue`, of which `UntrueBound` counts the rest. `KnownAccounts` is
  proved and not checked by a run: every place that signs a token or binds a
  connection has looked the number up, or uses a token that such a place signed.

* Terminal. The queues between the terminal and the server may be of any length.
  `TargetInv` for `OneTarget`: unless they `crossed`, no `/togroup` is ahead of a
  `/to` on the way to the server and back, and there is no target group while a
  `/to` is under way. `AnswersInv` counts: `sentCount` is at most the
  messages asked plus those answered and not read. For `StepByPage`, `View` lists
  the answers under way, and behind them what the requests under way will be
  answered with, and `PagesLinked` says that neighbours in that list are
  neighbouring pages of one chat; serving a request changes an entry of the list
  into what it stood for, and reading one moves the list up. For `WalkComplete`,
  `PagesInv` says what a page that is shown or under way is: a window of rows in
  increasing order, such that a row selected later is one of them or comes after
  them all, and pages of one chat arrive in the order in which they were selected.
  The pages are of two statements each, and `CountedFirst`, which is part of the type
  invariant, says what holds between them: the request is the first one still, and
  what matches now was counted or has come after all that was (or nothing was
  counted).
  `WalkGoes` relates the rows seen to the page on the screen.
  `Selected` is defined by ranks (the k-th id is the one with k ids up to it), which
  `Ranks` and `InOrderProperties` turn into a strictly increasing sequence of
  exactly the rows selected; a filter of a sequence is recursive, and nothing can be
  proved about it here.
* Client. `WhatHappens` sorts the steps by what they do to the session while the
  terminal runs and is connected. `SessionInv` follows the last login accepted: it
  is not answered, or answered and not read, or read, and only then need the two
  agree. `Visits` are the accounts that the terminal has been logged into, or will
  have been when it has read the first n answers; `RoutesInv` says that the server
  has the connection under such numbers only, and `TextInv` that every message under
  way comes after the answer of its login, or is `early`. `FilesAreOwn` needs
  `OwnInv`, and of that `Calm`: somebody who is not `hasty` has one request or one
  answer under way, and not both, a refresh is for `pending`, and a changed password
  is that of `myQQ` or nobody's. That the latter is the account that the server
  changed is `SessionInv`.

Only model-checked is liveness (`KickedEnds`, `DropEndsConnection`,
`ShownOnceOnline`, `LogsInByItself`), which TLAPS does not treat here. Every
other property of a passing run is a theorem, without a condition beyond the named
assumptions and what the modules leave out.

## Not modelled, and plan

* The wire format is generated code; the models have the kinds of messages and
  the fields that decide something. Environment variables are constants.
* The copy of the database file (`BackupDB`, and the client's writing of it): two
  backups at once use one file name and may truncate or remove each other's copy,
  but nothing reads it back.
* Groups of friends, remarks and nicknames are labels that nothing else reads, and
  so are the lists of friends, groups and members, with the online flag in them.
* Group messages from the row to each member: the fan-out looks members up as
  `SendFound` of `Hub` does and leaves no mark in the table that a later step reads.
* `h.groups` is written by the group handlers and by `RemoveUser`, and no routing
  reads it. `pingCh` is never sent to.
* The token bucket of the rate limit is a library's; `Terminal` lets it refuse any
  request. `Remove` of a bucket only makes the next one full.
* Which rows a keyword matches is SQLite's full-text index.
* `MaxConns` is tested before the connection is counted (ws.go:141), so that
  more than `MaxConns` may log in; nothing else depends on that limit.
* That the client's two goroutines write to one websocket without a lock, which
  gorilla/websocket answers with a panic, is modelled as an end of the terminal
  at any time; nothing the terminal does prevents it.

Plan for proofs, in this order:

1. An abstract specification of friendship, a symmetric relation, which
   `Friends` implements where handlers about the same two users do not overlap.
2. That the server of `Client` does what `Accounts` does: its handlers are the
   handlers of `Accounts` between which no other one runs.
3. The lemmas on sequences that `TerminalProofs` and `ClientProofs` share, in a
   module of their own.
