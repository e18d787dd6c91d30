------------------------------ MODULE Delivery ------------------------------
(***************************************************************************)
(* How a private message gets from handleChatMessage or handleFileMessage   *)
(* (internal/handler/ws.go) over the database (internal/service/chat.go) to *)
(* the client of its recipient (cmd/client/main.go) and back as an          *)
(* acknowledgement, for one recipient who logs in on one connection after   *)
(* the other, or before the previous one has ended.                         *)
(*                                                                         *)
(* A connection is used here as Stream.tla describes it, and the hub as Hub *)
(* does when send buffers do not fill up and nobody logs in twice on one    *)
(* connection: RegisteredIsOpen of that module is why no Close panics here. *)
(***************************************************************************)
EXTENDS Naturals, Sequences, FiniteSets

CONSTANTS
  N,            \* number of messages sent to the recipient
  Binary,       \* the messages that are files whose bytes are not UTF-8
  Conns,        \* the connections of the recipient
  NoConn,       \* the recipient has no entry in h.conns
  MaxFaults     \* bound on crashes and failing accesses of the database

Messages == 1..N

ASSUME DeliveryAssumption ==
  /\ N \in Nat
  /\ Binary \subseteq Messages
  /\ NoConn \notin Conns
  /\ MaxFaults \in Nat

VARIABLES
  rows,         \* the rows of table messages: survives a restart
  delivered,    \* rows whose column delivered is true
  read,         \* rows whose column read_at is set
  sender,       \* the handler that sends message m
  target,       \* the connection it found in the hub
  entry,        \* h.conns of the recipient
  link,         \* a connection, from before the login to after its clean-up
  sealed,       \* connections whose c.Send was closed
  down,         \* messages on the way to the client, c.Send and network
  up,           \* acknowledgements on the way to the server
  push,         \* pushOfflineMessages, started by the login on c
  todo,         \* messages it has still to send, in the order of their ids
  pushTo,       \* the connection it found for the next one
  shown,        \* how often the client has shown a message
  unmarked,     \* messages whose MarkDelivered failed; only observed
  faults        \* crashes that no panic of the push explains, and failures

db == <<rows, delivered, read>>
wires == <<link, sealed, down, up>>
senders == <<sender, target>>
pushes == <<push, todo, pushTo>>
faulty == <<unmarked, faults>>
vars == <<db, senders, entry, wires, pushes, shown, faulty>>

SenderState == {"unsent", "stored", "found", "done", "stopped"}
LinkState == {"new", "up", "left", "gone"}
PushState == {"none", "query", "look", "send", "failed"}
Ack == [kind : {"delivered", "read"}, id : Messages]

\* Every variable keeps its type, and what is sent is sent to a connection:
\* the handler and the push use what they looked up only if it was there.
TypeOK ==
  /\ rows \subseteq Messages
  /\ delivered \subseteq Messages
  /\ read \subseteq Messages
  /\ sender \in [Messages -> SenderState]
  /\ target \in [Messages -> Conns \cup {NoConn}]
  /\ entry \in Conns \cup {NoConn}
  /\ link \in [Conns -> LinkState]
  /\ sealed \subseteq Conns
  /\ down \in [Conns -> Seq(Messages)]
  /\ up \in [Conns -> Seq(Ack)]
  /\ push \in [Conns -> PushState]
  /\ todo \in [Conns -> SUBSET Messages]
  /\ pushTo \in [Conns -> Conns \cup {NoConn}]
  /\ shown \in [Messages -> Nat]
  /\ unmarked \subseteq Messages
  /\ faults \in 0..MaxFaults
  /\ \A m \in Messages : sender[m] = "found" => target[m] # NoConn
  /\ \A c \in Conns : push[c] = "send" => pushTo[c] # NoConn

Init ==
  /\ rows = {} /\ delivered = {} /\ read = {}
  /\ sender = [m \in Messages |-> "unsent"]
  /\ target = [m \in Messages |-> NoConn]
  /\ entry = NoConn
  /\ link = [c \in Conns |-> "new"]
  /\ sealed = {}
  /\ down = [c \in Conns |-> <<>>]
  /\ up = [c \in Conns |-> <<>>]
  /\ push = [c \in Conns |-> "none"]
  /\ todo = [c \in Conns |-> {}]
  /\ pushTo = [c \in Conns |-> NoConn]
  /\ shown = [m \in Messages |-> 0]
  /\ unmarked = {}
  /\ faults = 0

-----------------------------------------------------------------------------
(* The sender's handler.                                                   *)

\* db.Create assigns the next id: ids are in the order of the rows.  When it
\* fails there is no row and nothing is sent.
Store(m) ==
  /\ sender[m] = "unsent"
  /\ m = Cardinality(rows) + 1
  /\ rows' = rows \cup {m}
  /\ sender' = [sender EXCEPT ![m] = "stored"]
  /\ UNCHANGED <<delivered, read, target, entry, wires, pushes, shown, faulty>>

\* The sender was itself kicked out: writing its ServerAck panics, net/http
\* recovers, and the message was stored but is not sent.
SenderStops(m) ==
  /\ sender[m] = "stored"
  /\ sender' = [sender EXCEPT ![m] = "stopped"]
  /\ UNCHANGED <<db, target, entry, wires, pushes, shown, faulty>>

\* Mutant of LookUp: the recipient is taken to be online.
LookUpUnchecked(m) ==
  /\ sender[m] = "stored"
  /\ target' = [target EXCEPT ![m] = entry]
  /\ sender' = [sender EXCEPT ![m] = "found"]
  /\ UNCHANGED <<db, entry, wires, pushes, shown, faulty>>
LookUp(m) ==
  /\ sender[m] = "stored"
  /\ target' = [target EXCEPT ![m] = entry]
  /\ sender' = [sender EXCEPT ![m] = IF entry = NoConn THEN "done" ELSE "found"]
  /\ UNCHANGED <<db, entry, wires, pushes, shown, faulty>>

\* c.Send takes a message even after the reader has left; nobody reads it
\* then.  (Where c.Send is closed there is a panic instead.)
Sent(c, m) ==
  IF link[c] = "up" THEN [down EXCEPT ![c] = Append(@, m)] ELSE down

\* Mutant of Send: what was sent counts as delivered.
SendMarks(m) ==
  /\ sender[m] = "found"
  /\ target[m] \notin sealed
  /\ down' = Sent(target[m], m)
  /\ delivered' = delivered \cup {m}
  /\ sender' = [sender EXCEPT ![m] = "done"]
  /\ UNCHANGED <<rows, read, target, entry, link, sealed, up, pushes, shown, faulty>>
Send(m) ==
  /\ sender[m] = "found"
  /\ down' = IF target[m] \in sealed THEN down ELSE Sent(target[m], m)
  /\ sender' = [sender EXCEPT ![m] = "done"]
  /\ UNCHANGED <<db, target, entry, link, sealed, up, pushes, shown, faulty>>

-----------------------------------------------------------------------------
(* The recipient's connections.                                            *)

\* Close of the connection in the hub: nothing once its reader has left.
ClosedEntry ==
  IF entry # NoConn /\ link[entry] = "up" THEN sealed \cup {entry} ELSE sealed

Login(c) ==
  /\ link[c] = "new"
  /\ sealed' = ClosedEntry
  /\ entry' = c
  /\ link' = [link EXCEPT ![c] = "up"]
  /\ push' = [push EXCEPT ![c] = "query"]
  /\ UNCHANGED <<db, senders, down, up, todo, pushTo, shown, faulty>>

\* The client or the network goes away, or WriteLoop closed the socket of a
\* closed connection: what is under way is lost.
Leave(c) ==
  /\ link[c] = "up"
  /\ link' = [link EXCEPT ![c] = "left"]
  /\ down' = [down EXCEPT ![c] = <<>>]
  /\ up' = [up EXCEPT ![c] = <<>>]
  /\ UNCHANGED <<db, senders, entry, sealed, pushes, shown, faulty>>

\* RemoveUser closes and removes whatever connection the user now has.
RemoveUser(c) ==
  /\ link[c] = "left"
  /\ link' = [link EXCEPT ![c] = "gone"]
  /\ sealed' = ClosedEntry
  /\ entry' = NoConn
  /\ UNCHANGED <<db, senders, down, up, pushes, shown, faulty>>

-----------------------------------------------------------------------------
(* The client, and the handling of what it sends.                          *)

\* Mutant of Acks: the read receipt is sent first.
AcksReversed(m) == <<[kind |-> "read", id |-> m], [kind |-> "delivered", id |-> m]>>
Acks(m) == <<[kind |-> "delivered", id |-> m], [kind |-> "read", id |-> m]>>

Show(c) ==
  /\ link[c] = "up"
  /\ down[c] # <<>>
  /\ shown' = [shown EXCEPT ![Head(down[c])] = @ + 1]
  /\ down' = [down EXCEPT ![c] = Tail(@)]
  /\ up' = [up EXCEPT ![c] = @ \o Acks(Head(down[c]))]
  /\ UNCHANGED <<db, senders, entry, link, sealed, pushes, faulty>>

HandleAck(c) ==
  LET ack == Head(up[c]) IN
  /\ link[c] = "up"
  /\ up[c] # <<>>
  /\ up' = [up EXCEPT ![c] = Tail(@)]
  /\ IF ack.kind = "delivered"
     THEN delivered' = delivered \cup {ack.id} /\ UNCHANGED read
     ELSE read' = read \cup {ack.id} /\ UNCHANGED delivered
  /\ UNCHANGED <<rows, senders, entry, link, sealed, down, pushes, shown, faulty>>

FaultHappens == faults < MaxFaults /\ faults' = faults + 1

\* MarkDelivered or MarkRead failed: an acknowledgement is not sent again.
AckFails(c) ==
  LET ack == Head(up[c]) IN
  /\ FaultHappens
  /\ link[c] = "up"
  /\ up[c] # <<>>
  /\ up' = [up EXCEPT ![c] = Tail(@)]
  /\ unmarked' = IF ack.kind = "delivered" THEN unmarked \cup ({ack.id} \ delivered)
                 ELSE unmarked
  /\ UNCHANGED <<db, senders, entry, link, sealed, down, pushes, shown>>

-----------------------------------------------------------------------------
(* pushOfflineMessages and the end of the process.                         *)

\* GetOfflineMessages.  Mutant of Offline: the filter is inverted.
OfflineInverted == rows \cap delivered
Offline == rows \ delivered

PushEnds(c) ==
  /\ push' = [push EXCEPT ![c] = "none"]
  /\ todo' = [todo EXCEPT ![c] = {}]
  /\ pushTo' = [pushTo EXCEPT ![c] = NoConn]

Query(c) ==
  /\ push[c] = "query"
  /\ IF Offline = {}
     THEN PushEnds(c)
     ELSE /\ todo' = [todo EXCEPT ![c] = Offline]
          /\ push' = [push EXCEPT ![c] = "look"]
          /\ UNCHANGED pushTo
  /\ UNCHANGED <<db, senders, entry, wires, shown, faulty>>

\* The error of the query is logged, and nothing is pushed at this login.
QueryFails(c) ==
  /\ FaultHappens
  /\ push[c] = "query"
  /\ push' = [push EXCEPT ![c] = "failed"]
  /\ UNCHANGED <<db, senders, entry, wires, todo, pushTo, shown, unmarked>>

PushLookUp(c) ==
  /\ push[c] = "look"
  /\ IF entry = NoConn
     THEN PushEnds(c)
     ELSE /\ pushTo' = [pushTo EXCEPT ![c] = entry]
          /\ push' = [push EXCEPT ![c] = "send"]
          /\ UNCHANGED todo
  /\ UNCHANGED <<db, senders, entry, wires, shown, faulty>>

\* The loop is at message m.
Pushes(c, m) ==
  /\ push[c] = "send"
  /\ m \in todo[c]
  /\ \A n \in todo[c] : m <= n

Continue(c, m) ==
  IF todo[c] = {m}
  THEN PushEnds(c)
  ELSE /\ todo' = [todo EXCEPT ![c] = @ \ {m}]
       /\ push' = [push EXCEPT ![c] = "look"]
       /\ UNCHANGED pushTo

PushSend(c, m) ==
  /\ Pushes(c, m) /\ m \notin Binary
  /\ pushTo[c] \notin sealed
  /\ down' = Sent(pushTo[c], m)
  /\ Continue(c, m)
  /\ UNCHANGED <<db, senders, entry, link, sealed, up, shown, faulty>>

\* The stored JSON becomes the file name, a string field: proto.Marshal
\* refuses bytes that are not UTF-8, and the rest is not pushed.
PushAborts(c, m) ==
  /\ Pushes(c, m) /\ m \in Binary
  /\ PushEnds(c)
  /\ UNCHANGED <<db, senders, entry, wires, shown, faulty>>

\* The process ends and is started again; the database stays.
Restart ==
  /\ sender' = [m \in Messages |->
                  IF sender[m] \in {"stored", "found"} THEN "stopped" ELSE sender[m]]
  /\ entry' = NoConn
  /\ link' = [c \in Conns |-> IF link[c] = "new" THEN "new" ELSE "gone"]
  /\ down' = [c \in Conns |-> <<>>]
  /\ up' = [c \in Conns |-> <<>>]
  /\ push' = [c \in Conns |-> "none"]
  /\ todo' = [c \in Conns |-> {}]
  /\ pushTo' = [c \in Conns |-> NoConn]
  /\ UNCHANGED <<db, target, sealed, shown, unmarked>>

\* The connection was closed after the push had looked it up; the panic is
\* on a goroutine that nothing recovers.
PushPanics(c, m) ==
  /\ Pushes(c, m) /\ m \notin Binary
  /\ pushTo[c] \in sealed
  /\ Restart
  /\ UNCHANGED faults

Crash ==
  /\ FaultHappens
  /\ Restart

-----------------------------------------------------------------------------
Sending(m) == LookUp(m) \/ Send(m)
Pushing(c) ==
  \/ Query(c) \/ PushLookUp(c)
  \/ \E m \in Messages : PushSend(c, m) \/ PushAborts(c, m) \/ PushPanics(c, m)

Next ==
  \/ \E m \in Messages : Store(m) \/ SenderStops(m) \/ Sending(m)
  \/ \E c \in Conns : \/ Login(c) \/ Leave(c) \/ RemoveUser(c)
                      \/ Show(c) \/ HandleAck(c) \/ Pushing(c)
                      \/ AckFails(c) \/ QueryFails(c)
  \/ Crash

Spec == Init /\ [][Next]_vars

\* The server's goroutines and the client's read loop are scheduled, and a
\* closed connection ends (KickedEnds of Hub).  Nobody has to log in or send.
Fairness ==
  /\ \A m \in Messages : WF_vars(Sending(m))
  /\ \A c \in Conns :
       /\ WF_vars(Pushing(c))
       /\ WF_vars(Show(c))
       /\ WF_vars(RemoveUser(c))
       /\ WF_vars(c \in sealed /\ Leave(c))

FairSpec == Spec /\ Fairness

-----------------------------------------------------------------------------
\* A row is marked as delivered or read, across lost acknowledgements, new
\* logins and restarts, only after the recipient's client has shown it: a
\* message that was not shown is still found by GetOfflineMessages at the next
\* login.  A read row is a delivered one unless marking it as delivered failed
\* (MarkDelivered, MarkRead).
AbstractMailbox == INSTANCE Mailbox WITH
  Items <- Messages, stored <- rows,
  seen <- {m \in Messages : shown[m] > 0},
  confirmed <- delivered, receipted <- read \ unmarked

ImplementsMailbox == AbstractMailbox!Spec

\* A message that was stored, whether before, while or after its recipient
\* logged in, is shown if the recipient then stays connected, the sender's
\* handler was not stopped half-way and the query of the login did not fail:
\* there is no gap between sendToUser, which looks the recipient up after the
\* row was stored, and the login, which reads the rows after it registered.
ShownOnceOnline ==
  \A c \in Conns, m \in Messages :
    <>[](entry = c /\ push[c] # "failed")
      => <>[](m \in rows /\ sender[m] # "stopped" => shown[m] > 0)
=============================================================================
