------------------------------- MODULE Cluster -------------------------------
(***************************************************************************)
(* Several server instances around one Redis: internal/middleware/online.go *)
(* and pubsub.go, as internal/handler/ws.go calls them, for one user.  Keys  *)
(* and channels of different users do not interact.                         *)
(*                                                                         *)
(* Redis keeps the key online:<qq>, the instance the user is on, which      *)
(* expires after 60 s, and knows the instances that are subscribed to the   *)
(* channel ch:qq:<qq>.  An instance is one run of the server process, with   *)
(* the random id of this run: a restart is another instance, which begins   *)
(* with its first connection.  A connection is served by one instance; the  *)
(* rows of the messages, and what a login pushes of them, are in Delivery.   *)
(***************************************************************************)
EXTENDS Naturals, FiniteSets

CONSTANTS
  Instances,    \* runs of the server process
  Conns,        \* connections on which the user logs in, once on each
  At,           \* the instance of every connection
  Msgs,         \* messages to the user
  None,         \* no connection, no instance
  MaxFaults     \* bound on failing Redis commands

ASSUME ClusterAssumption ==
  /\ At \in [Conns -> Instances]
  /\ None \notin Conns \cup Instances \cup (Conns \X Msgs)
  /\ MaxFaults \in Nat

VARIABLES
  state,        \* "up", "stopping" (PubSubRouter.Stop was called) or "dead"
  mu,           \* the connection whose RemoveUser holds h.mu
  entry,        \* h.conns[qq] of every instance
  key,          \* online:<qq>
  subs,         \* the instances subscribed to ch:qq:<qq>
  inbox,        \* what Redis has sent to every instance
  found,        \* the connection its listener has looked up, for which message
  pc,           \* where the handler or clean-up of every connection is
  closed,       \* connections that were closed
  step,         \* where the sender's handler of every message is
  from,         \* the instance it runs on
  aim,          \* history: the user's connection when a message was published
  shown,        \* history: the connections a message was written to
  faults        \* failing Redis commands so far

hub == <<state, mu, entry, pc, closed>>
msgs == <<inbox, found, step, from, aim, shown>>
vars == <<hub, key, subs, msgs, faults>>

ConnState == {"new", "setOnline", "subscribe", "greet", "on", "ended",
              "getKey", "delKey", "unsub", "gone", "broken"}

ClusterTypeOK ==
  /\ state \in [Instances -> {"up", "stopping", "dead"}]
  /\ mu \in [Instances -> Conns \cup {None}]
  /\ entry \in [Instances -> Conns \cup {None}]
  /\ \A i \in Instances : entry[i] # None => At[entry[i]] = i /\ state[i] # "dead"
  /\ key \in Instances \cup {None}
  /\ subs \subseteq {i \in Instances : state[i] = "up"}
  /\ inbox \in [Instances -> SUBSET Msgs]
  /\ found \in [Instances -> (Conns \X Msgs) \cup {None}]
  /\ pc \in [Conns -> ConnState]
  /\ closed \subseteq Conns
  /\ step \in [Msgs -> {"new", "getInstance", "publish", "done"}]
  /\ from \in [Msgs -> Instances \cup {None}]
  /\ aim \in [Msgs -> Conns \cup {None}]
  /\ shown \in [Msgs -> SUBSET Conns]
  /\ faults \in 0..MaxFaults

Init ==
  /\ state = [i \in Instances |-> "up"]
  /\ mu = [i \in Instances |-> None]
  /\ entry = [i \in Instances |-> None]
  /\ key = None
  /\ subs = {}
  /\ inbox = [i \in Instances |-> {}]
  /\ found = [i \in Instances |-> None]
  /\ pc = [c \in Conns |-> "new"]
  /\ closed = {}
  /\ step = [m \in Msgs |-> "new"]
  /\ from = [m \in Msgs |-> None]
  /\ aim = [m \in Msgs |-> None]
  /\ shown = [m \in Msgs |-> {}]
  /\ faults = 0

Free(i) == state[i] # "dead" /\ mu[i] = None

\* Connection c goes on from state a to state b.
Goto(c, a, b) ==
  /\ pc[c] = a
  /\ state[At[c]] # "dead"
  /\ pc' = [pc EXCEPT ![c] = b]

\* The connection in h.conns is closed, and is replaced by c or removed.
Replace(i, c) ==
  /\ entry' = [entry EXCEPT ![i] = c]
  /\ closed' = closed \cup ({entry[i]} \ {None})

-----------------------------------------------------------------------------
(* A login.  Redis is told after the unlock.                               *)

Login(c) ==
  /\ Free(At[c])
  /\ Goto(c, "new", "setOnline")
  /\ Replace(At[c], c)
  /\ UNCHANGED <<state, mu, key, subs, msgs, faults>>

SetOnline(c) ==
  /\ Goto(c, "setOnline", "subscribe")
  /\ key' = At[c]
  /\ UNCHANGED <<state, mu, entry, closed, subs, msgs, faults>>

\* A subscription that was stopped accepts no further channels.  Mutant: it does.
SubscribedAlways(i) == subs \cup {i}
Subscribed(i) == IF state[i] = "up" THEN subs \cup {i} ELSE subs

Subscribe(c) ==
  /\ Goto(c, "subscribe", "greet")
  /\ subs' = Subscribed(At[c])
  /\ UNCHANGED <<state, mu, entry, closed, key, msgs, faults>>

\* The response to the login panics on a connection that was closed; so may
\* whatever is written to it later.  It is never cleaned up then.
Greet(c) ==
  /\ Goto(c, "greet", IF c \in closed THEN "broken" ELSE "on")
  /\ UNCHANGED <<state, mu, entry, closed, key, subs, msgs, faults>>

Breaks(c) ==
  /\ c \in closed
  /\ Goto(c, "on", "broken")
  /\ UNCHANGED <<state, mu, entry, closed, key, subs, msgs, faults>>

\* The client leaves, or the connection was closed.
ReadFails(c) ==
  /\ Goto(c, "on", "ended")
  /\ UNCHANGED <<state, mu, entry, closed, key, subs, msgs, faults>>

-----------------------------------------------------------------------------
(* RemoveUser, which holds h.mu until the end.                             *)

\* Mutant of LockedBy: the unlock comes before the commands to Redis.
NotLocked(i, c) == mu
LockedBy(i, c) == [mu EXCEPT ![i] = c]

RemoveUser(c) ==
  LET i == At[c] IN
  /\ Free(i)
  /\ Goto(c, "ended", "getKey")
  /\ mu' = LockedBy(i, c)
  /\ Replace(i, None)
  /\ UNCHANGED <<state, key, subs, msgs, faults>>

\* Mutant of IsMine: the key is taken for that of another instance.
IsNeverMine(i) == FALSE
IsMine(i) == key = i

\* SetOffline: Get and Del are two commands.
GetKey(c) ==
  /\ Goto(c, "getKey", IF IsMine(At[c]) THEN "delKey" ELSE "unsub")
  /\ UNCHANGED <<state, mu, entry, closed, key, subs, msgs, faults>>

DelKey(c) ==
  /\ Goto(c, "delKey", "unsub")
  /\ key' = None
  /\ UNCHANGED <<state, mu, entry, closed, subs, msgs, faults>>

Unsubscribe(c) ==
  LET i == At[c] IN
  /\ Goto(c, "unsub", "gone")
  /\ subs' = subs \ {i}
  /\ mu' = [mu EXCEPT ![i] = None]
  /\ UNCHANGED <<state, entry, closed, key, msgs, faults>>

-----------------------------------------------------------------------------
(* A message: sendToUser on one instance, the listener on another one.      *)

\* The lookup in h.conns; how a connection of the same instance is served is
\* in Hub and Delivery.
LookUp(m, j) ==
  /\ step[m] = "new"
  /\ Free(j)
  /\ step' = [step EXCEPT ![m] = IF entry[j] = None THEN "getInstance" ELSE "done"]
  /\ from' = [from EXCEPT ![m] = j]
  /\ UNCHANGED <<hub, key, subs, inbox, found, aim, shown, faults>>

GetInstance(m) ==
  /\ step[m] = "getInstance" /\ state[from[m]] # "dead"
  /\ step' = [step EXCEPT ![m] = IF key \in {None, from[m]} THEN "done" ELSE "publish"]
  /\ UNCHANGED <<hub, key, subs, inbox, found, from, aim, shown, faults>>

\* The connection that is being served on another instance than the sender's.
Served(m) ==
  {c \in Conns : pc[c] = "on" /\ entry[At[c]] = c /\ state[At[c]] = "up" /\ At[c] # from[m]}

Publish(m) ==
  /\ step[m] = "publish" /\ state[from[m]] # "dead"
  /\ step' = [step EXCEPT ![m] = "done"]
  /\ inbox' = [i \in Instances |-> IF i \in subs THEN inbox[i] \cup {m} ELSE inbox[i]]
  /\ \E c \in IF Served(m) = {} THEN {None} ELSE Served(m) : aim' = [aim EXCEPT ![m] = c]
  /\ UNCHANGED <<hub, key, subs, found, from, shown, faults>>

\* listenLoop ignores the messages that its own instance has published.
Listen(i, m) ==
  /\ m \in inbox[i] /\ found[i] = None
  /\ Free(i)
  /\ inbox' = [inbox EXCEPT ![i] = @ \ {m}]
  /\ found' = [found EXCEPT ![i] = IF from[m] = i \/ entry[i] = None THEN None ELSE <<entry[i], m>>]
  /\ UNCHANGED <<hub, key, subs, step, from, aim, shown, faults>>

\* Run i of the server is over, and with it all of its connections.
Ends(i) ==
  /\ state' = [state EXCEPT ![i] = "dead"]
  /\ mu' = [mu EXCEPT ![i] = None]
  /\ entry' = [entry EXCEPT ![i] = None]
  /\ pc' = [c \in Conns |-> IF At[c] = i /\ pc[c] \notin {"new", "gone"} THEN "broken" ELSE pc[c]]
  /\ closed' = closed \cup {c \in Conns : At[c] = i}
  /\ subs' = subs \ {i}
  /\ inbox' = [inbox EXCEPT ![i] = {}]
  /\ found' = [found EXCEPT ![i] = None]
  /\ UNCHANGED <<key, step, from, aim>>

\* The listener is a goroutine that recovers nothing: if the connection was
\* closed since the lookup, WriteProto panics, and the process ends.
ListenerWrites(i) ==
  /\ found[i] # None
  /\ state[i] # "dead"
  /\ IF found[i][1] \in closed
     THEN Ends(i) /\ UNCHANGED shown
     ELSE /\ shown' = [shown EXCEPT ![found[i][2]] = @ \cup {found[i][1]}]
          /\ found' = [found EXCEPT ![i] = None]
          /\ UNCHANGED <<hub, key, subs, inbox, step, from, aim>>
  /\ UNCHANGED faults

-----------------------------------------------------------------------------
(* The key expires, an instance stops, ends, or fails to reach Redis.       *)

\* 60 s after the login, since no client sends heartbeats.
Expire ==
  /\ key # None
  /\ key' = None
  /\ UNCHANGED <<hub, subs, msgs, faults>>

\* What the listener has not taken yet is lost.
Stop(i) ==
  /\ state[i] = "up"
  /\ state' = [state EXCEPT ![i] = "stopping"]
  /\ subs' = subs \ {i}
  /\ inbox' = [inbox EXCEPT ![i] = {}]
  /\ UNCHANGED <<mu, entry, pc, closed, key, found, step, from, aim, shown, faults>>

Shutdown(i) ==
  /\ state[i] = "stopping"
  /\ Free(i)
  /\ entry[i] # None
  /\ Replace(i, None)
  /\ UNCHANGED <<state, mu, pc, key, subs, msgs, faults>>

Crash(i) ==
  /\ state[i] # "dead"
  /\ Ends(i)
  /\ UNCHANGED <<shown, faults>>

\* The errors of all commands are ignored; a clean-up whose Get or Del fails
\* leaves the key behind.
RedisFails(c) ==
  /\ faults < MaxFaults
  /\ faults' = faults + 1
  /\ \/ Goto(c, "setOnline", "subscribe")
     \/ Goto(c, "subscribe", "greet")
     \/ Goto(c, "getKey", "unsub")
     \/ Goto(c, "delKey", "unsub")
  /\ UNCHANGED <<state, mu, entry, closed, key, subs, msgs>>

RoutingFails(m) ==
  /\ faults < MaxFaults
  /\ faults' = faults + 1
  /\ step[m] \in {"getInstance", "publish"}
  /\ step' = [step EXCEPT ![m] = "done"]
  /\ UNCHANGED <<hub, key, subs, inbox, found, from, aim, shown>>

-----------------------------------------------------------------------------
ConnNext(c) ==
  \/ Login(c) \/ SetOnline(c) \/ Subscribe(c) \/ Greet(c) \/ Breaks(c) \/ ReadFails(c)
  \/ RemoveUser(c) \/ GetKey(c) \/ DelKey(c) \/ Unsubscribe(c) \/ RedisFails(c)

Next ==
  \/ \E c \in Conns : ConnNext(c)
  \/ \E m \in Msgs : GetInstance(m) \/ Publish(m) \/ RoutingFails(m)
  \/ \E i \in Instances, m \in Msgs : LookUp(m, i) \/ Listen(i, m)
  \/ \E i \in Instances : ListenerWrites(i) \/ Stop(i) \/ Shutdown(i) \/ Crash(i)
  \/ Expire

Spec == Init /\ [][Next]_vars

-----------------------------------------------------------------------------
(* Properties.                                                             *)

\* The key names an instance only as long as a connection of the user there is
\* being served or cleaned up, or has broken off without its clean-up: although
\* logins tell Redis after the unlock, RemoveUser clears in two commands, and
\* instances do so at once, no key is left behind by clean-ups that succeed.
KeyIsTrue ==
  (key # None /\ faults = 0) =>
    \E c \in Conns : At[c] = key /\ pc[c] \notin {"new", "setOnline", "unsub", "gone"}

\* pubsub.go and ws.go:1402, a message that was published while the user was
\* served on another instance is on its way to that connection or was written
\* to it, as long as it is served there: no subscription is lost between the
\* logins and clean-ups of the user's connections.
NotLost ==
  \A m \in Msgs : \A c \in Conns :
    (/\ aim[m] = c /\ faults = 0
     /\ pc[c] = "on" /\ c \notin closed /\ state[At[c]] = "up")
      => \/ m \in inbox[At[c]]
         \/ found[At[c]] = <<c, m>>
         \/ c \in shown[m]
=============================================================================
