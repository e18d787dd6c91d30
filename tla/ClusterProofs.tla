----------------------------- MODULE ClusterProofs ----------------------------
(***************************************************************************)
(* Theorems about Cluster.tla, for every set of instances, connections and  *)
(* messages and any number of failing commands.                             *)
(***************************************************************************)
EXTENDS Cluster, TLAPS

-----------------------------------------------------------------------------
(* The types.                                                              *)

LEMMA ConnType ==
  ASSUME ClusterTypeOK, NEW c \in Conns, ConnNext(c)
  PROVE  ClusterTypeOK'
<1> USE ClusterAssumption DEF ClusterTypeOK, Goto, ConnState, Free, msgs
<1>1. CASE Login(c)
  BY <1>1 DEF Login, Replace
<1>2. CASE SetOnline(c)
  BY <1>2 DEF SetOnline
<1>3. CASE Subscribe(c)
  BY <1>3 DEF Subscribe, Subscribed
<1>4. CASE Greet(c) \/ Breaks(c) \/ ReadFails(c) \/ GetKey(c)
  BY <1>4 DEF Greet, Breaks, ReadFails, GetKey
<1>5. CASE RemoveUser(c)
  BY <1>5 DEF RemoveUser, Replace, LockedBy
<1>6. CASE DelKey(c)
  BY <1>6 DEF DelKey
<1>7. CASE Unsubscribe(c)
  BY <1>7 DEF Unsubscribe
<1>8. CASE RedisFails(c)
  BY <1>8 DEF RedisFails
<1> QED BY <1>1, <1>2, <1>3, <1>4, <1>5, <1>6, <1>7, <1>8 DEF ConnNext

LEMMA MessageType ==
  ASSUME ClusterTypeOK, NEW m \in Msgs,
         \/ GetInstance(m) \/ Publish(m) \/ RoutingFails(m)
         \/ \E i \in Instances : LookUp(m, i) \/ Listen(i, m)
  PROVE  ClusterTypeOK'
<1> USE ClusterAssumption DEF ClusterTypeOK, hub
<1>1. CASE GetInstance(m)
  BY <1>1 DEF GetInstance
<1>2. CASE Publish(m)
  BY <1>2 DEF Publish, Served
<1>3. CASE RoutingFails(m)
  BY <1>3 DEF RoutingFails
<1>4. ASSUME NEW i \in Instances, LookUp(m, i) PROVE ClusterTypeOK'
  BY <1>4 DEF LookUp
<1>5. ASSUME NEW i \in Instances, Listen(i, m) PROVE ClusterTypeOK'
  BY <1>5 DEF Listen
<1> QED BY <1>1, <1>2, <1>3, <1>4, <1>5

LEMMA EndsType ==
  ASSUME ClusterTypeOK, NEW i \in Instances, Ends(i), UNCHANGED <<shown, faults>>
  PROVE  ClusterTypeOK'
BY ClusterAssumption DEF ClusterTypeOK, Ends, ConnState

LEMMA InstanceType ==
  ASSUME ClusterTypeOK, NEW i \in Instances,
         ListenerWrites(i) \/ Stop(i) \/ Shutdown(i) \/ Crash(i)
  PROVE  ClusterTypeOK'
<1> USE ClusterAssumption DEF ClusterTypeOK, hub, msgs
<1>1. CASE ListenerWrites(i)
  <2>1. CASE found[i][1] \in closed
    BY <1>1, <2>1, EndsType DEF ListenerWrites
  <2>2. CASE found[i][1] \notin closed
    <3>1. found[i] \in Conns \X Msgs
      BY <1>1 DEF ListenerWrites
    <3>2. found[i][1] \in Conns /\ found[i][2] \in Msgs
      BY <3>1
    <3>3. /\ shown' = [shown EXCEPT ![found[i][2]] = @ \cup {found[i][1]}]
          /\ found' = [found EXCEPT ![i] = None]
          /\ UNCHANGED <<hub, key, subs, inbox, step, from, aim, faults>>
      BY <1>1, <2>2 DEF ListenerWrites
    <3>4. shown' \in [Msgs -> SUBSET Conns] /\ found' \in [Instances -> (Conns \X Msgs) \cup {None}]
      BY <3>2, <3>3
    <3> QED BY <3>3, <3>4
  <2> QED BY <2>1, <2>2
<1>2. CASE Stop(i)
  BY <1>2 DEF Stop
<1>3. CASE Shutdown(i)
  <2>1. entry' = [entry EXCEPT ![i] = None] /\ closed' \subseteq Conns
    BY <1>3 DEF Shutdown, Replace
  <2>2. UNCHANGED <<state, mu, pc, key, subs, msgs, faults>>
    BY <1>3 DEF Shutdown
  <2>3. \A j \in Instances : entry'[j] # None => At[entry'[j]] = j /\ state'[j] # "dead"
    BY <2>1, <2>2
  <2> QED BY <2>1, <2>2, <2>3
<1>4. CASE Crash(i)
  BY <1>4, EndsType DEF Crash
<1> QED BY <1>1, <1>2, <1>3, <1>4

LEMMA TypeStep == ClusterTypeOK /\ [Next]_vars => ClusterTypeOK'
<1> SUFFICES ASSUME ClusterTypeOK, [Next]_vars PROVE ClusterTypeOK'
  OBVIOUS
<1>1. CASE Expire
  BY <1>1 DEF Expire, ClusterTypeOK, hub, msgs
<1>2. CASE UNCHANGED vars
  BY <1>2 DEF vars, ClusterTypeOK, hub, msgs
<1> QED BY <1>1, <1>2, ConnType, MessageType, InstanceType DEF Next

LEMMA TypeInit == Init => ClusterTypeOK
BY ClusterAssumption DEF Init, ClusterTypeOK, ConnState

\* The instances, the key, the subscriptions and the messages keep their types.
THEOREM ClusterTypeCorrect == Spec => []ClusterTypeOK
BY TypeInit, TypeStep, PTL DEF Spec

-----------------------------------------------------------------------------
(* The key.                                                                *)

Witness(c) == At[c] = key /\ pc[c] \notin {"new", "setOnline", "unsub", "gone"}

LEMMA KeyStep ==
  ASSUME ClusterTypeOK, KeyIsTrue, [Next]_vars
  PROVE  KeyIsTrue'
<1> USE ClusterAssumption DEF ClusterTypeOK
<1> SUFFICES ASSUME key' # None, faults' = 0 PROVE \E c \in Conns : Witness(c)'
  BY DEF KeyIsTrue, Witness
<1>a. CASE faults = 0 /\ key' = key
  <2>1. PICK w \in Conns : Witness(w)
    BY <1>a DEF KeyIsTrue, Witness
  \* Only GetKey of w itself can take the witness away, and it has read the key.
  <2>2. ASSUME NEW c \in Conns, ConnNext(c) PROVE Witness(w)'
    <3> USE <1>a, <2>1 DEF Witness, Goto
    <3>1. CASE Login(c) \/ SetOnline(c) \/ Subscribe(c) \/ Greet(c) \/ Breaks(c) \/ ReadFails(c)
      BY <3>1 DEF Login, SetOnline, Subscribe, Greet, Breaks, ReadFails
    <3>2. CASE RemoveUser(c) \/ Unsubscribe(c)
      BY <3>2 DEF RemoveUser, Unsubscribe
    <3>3. CASE GetKey(c)
      BY <3>3 DEF GetKey, IsMine
    <3>4. CASE DelKey(c)
      BY <3>4 DEF DelKey
    <3>5. CASE RedisFails(c)
      BY <3>5 DEF RedisFails
    <3> QED BY <2>2, <3>1, <3>2, <3>3, <3>4, <3>5 DEF ConnNext
  <2>3. ASSUME NEW i \in Instances, Ends(i) PROVE Witness(w)'
    BY <1>a, <2>1, <2>3 DEF Ends, Witness
  <2>4. ASSUME pc' = pc PROVE Witness(w)'
    BY <1>a, <2>1, <2>4 DEF Witness
  <2>5. ASSUME NEW m \in Msgs, GetInstance(m) \/ Publish(m) \/ RoutingFails(m)
        PROVE  Witness(w)'
    <3>1. pc' = pc
      BY <2>5 DEF GetInstance, Publish, RoutingFails, hub
    <3> QED BY <3>1, <2>4
  <2>6. ASSUME NEW m \in Msgs, NEW i \in Instances, LookUp(m, i) \/ Listen(i, m)
        PROVE  Witness(w)'
    <3>1. pc' = pc
      BY <2>6 DEF LookUp, Listen, hub
    <3> QED BY <3>1, <2>4
  <2>7. ASSUME NEW i \in Instances, ListenerWrites(i) PROVE Witness(w)'
    <3>1. Ends(i) \/ pc' = pc
      BY <2>7 DEF ListenerWrites, hub
    <3> QED BY <3>1, <2>3, <2>4
  <2>8. ASSUME NEW i \in Instances, Stop(i) \/ Shutdown(i) PROVE Witness(w)'
    <3>1. pc' = pc
      BY <2>8 DEF Stop, Shutdown
    <3> QED BY <3>1, <2>4
  <2>9. ASSUME NEW i \in Instances, Crash(i) PROVE Witness(w)'
    <3>1. Ends(i)
      BY <2>9 DEF Crash
    <3> QED BY <3>1, <2>3
  <2>10. CASE UNCHANGED vars \/ Expire
    BY <2>4, <2>10 DEF vars, hub, Expire
  <2> QED BY <2>2, <2>5, <2>6, <2>7, <2>8, <2>9, <2>10 DEF Next
\* The key is set by a login, which becomes the witness.
<1>b. CASE ~(faults = 0 /\ key' = key)
  <2>1. PICK c \in Conns : SetOnline(c)
    <3>1. faults = 0
      BY DEF Next, ConnNext, Login, SetOnline, Subscribe, Greet, Breaks, ReadFails,
             RemoveUser, GetKey, DelKey, Unsubscribe, RedisFails, GetInstance, Publish,
             RoutingFails, LookUp, Listen, ListenerWrites, Stop, Shutdown, Crash, Expire, vars
    <3>2. key' # key
      BY <1>b, <3>1
    <3> QED
      BY <3>2 DEF Next, ConnNext, Login, Subscribe, Greet, Breaks, ReadFails,
             RemoveUser, GetKey, DelKey, Unsubscribe, RedisFails, GetInstance, Publish,
             RoutingFails, LookUp, Listen, ListenerWrites, Ends, Stop, Shutdown, Crash,
             Expire, vars, hub
  <2> QED BY <2>1 DEF SetOnline, Goto, Witness
<1> QED BY <1>a, <1>b

\* No key is left behind by clean-ups that succeed.
THEOREM KeyStaysTrue == Spec => []KeyIsTrue
<1>1. Init => KeyIsTrue
  BY DEF Init, KeyIsTrue
<1>2. ClusterTypeOK /\ KeyIsTrue /\ [Next]_vars => KeyIsTrue'
  BY KeyStep
<1> QED BY <1>1, <1>2, ClusterTypeCorrect, PTL DEF Spec

-----------------------------------------------------------------------------
(* Messages.  The clean-up that holds h.mu has removed the connection, so   *)
(* that while one is served nobody undoes its subscription.                *)

Serving == {"setOnline", "subscribe", "greet", "on"}
Removing == {"getKey", "delKey", "unsub"}
Removed == {"ended", "getKey", "delKey", "unsub", "gone", "broken"}

Locked(c) == pc[c] \in Removing => mu[At[c]] = c
Empty(i) == mu[i] # None => entry[i] = None
Entered(c) == pc[c] \in Serving /\ c \notin closed => entry[At[c]] = c
InSubs(c) ==
  (pc[c] \in {"greet", "on"} /\ c \notin closed /\ state[At[c]] = "up" /\ faults = 0)
    => At[c] \in subs

ServeInv ==
  /\ \A c \in Conns : Locked(c) /\ Entered(c) /\ InSubs(c)
  /\ \A i \in Instances : Empty(i)

LEMMA ServeConn ==
  ASSUME ClusterTypeOK, ServeInv, NEW d \in Conns, ConnNext(d)
  PROVE  ServeInv'
<1> USE ClusterAssumption DEF ClusterTypeOK, ServeInv, Locked, Empty, Entered, InSubs,
                              Serving, Removing, Goto, Free
<1>1. CASE Login(d)
  BY <1>1 DEF Login, Replace
<1>2. CASE SetOnline(d)
  BY <1>2 DEF SetOnline
<1>3. CASE Subscribe(d)
  BY <1>3 DEF Subscribe, Subscribed
<1>4. CASE Greet(d) \/ Breaks(d) \/ ReadFails(d)
  BY <1>4 DEF Greet, Breaks, ReadFails
<1>5. CASE RemoveUser(d)
  BY <1>5 DEF RemoveUser, Replace, LockedBy
<1>6. CASE GetKey(d) \/ DelKey(d)
  BY <1>6 DEF GetKey, DelKey
<1>7. CASE Unsubscribe(d)
  \* h.mu was held by d: no other connection of the instance is served.
  <2>1. entry[At[d]] = None
    BY <1>7 DEF Unsubscribe
  <2> QED BY <1>7, <2>1 DEF Unsubscribe
<1>8. CASE RedisFails(d)
  BY <1>8 DEF RedisFails
<1> QED BY <1>1, <1>2, <1>3, <1>4, <1>5, <1>6, <1>7, <1>8 DEF ConnNext

LEMMA ServeEnds ==
  ASSUME ClusterTypeOK, ServeInv, NEW i \in Instances, Ends(i), faults' = faults
  PROVE  ServeInv'
BY ClusterAssumption DEF ClusterTypeOK, ServeInv, Locked, Empty, Entered, InSubs, Serving,
   Removing, Ends

LEMMA ServeStep == ClusterTypeOK /\ ServeInv /\ [Next]_vars => ServeInv'
<1> SUFFICES ASSUME ClusterTypeOK, ServeInv, [Next]_vars PROVE ServeInv'
  OBVIOUS
<1>1. CASE UNCHANGED <<hub, subs>> /\ faults' \in {faults, faults + 1}
  BY <1>1 DEF ClusterTypeOK, ServeInv, Locked, Empty, Entered, InSubs, hub
<1>2. ASSUME NEW m \in Msgs, GetInstance(m) \/ Publish(m) \/ RoutingFails(m)
      PROVE  ServeInv'
  <2>1. UNCHANGED <<hub, subs>> /\ faults' \in {faults, faults + 1}
    BY <1>2 DEF GetInstance, Publish, RoutingFails
  <2> QED BY <2>1, <1>1
<1>3. ASSUME NEW m \in Msgs, NEW i \in Instances, LookUp(m, i) \/ Listen(i, m)
      PROVE  ServeInv'
  <2>1. UNCHANGED <<hub, subs>> /\ faults' = faults
    BY <1>3 DEF LookUp, Listen
  <2> QED BY <2>1, <1>1
<1>4. ASSUME NEW i \in Instances, ListenerWrites(i) PROVE ServeInv'
  <2>1. Ends(i) \/ UNCHANGED <<hub, subs>>
    BY <1>4 DEF ListenerWrites
  <2>2. faults' = faults
    BY <1>4 DEF ListenerWrites
  <2> QED BY <2>1, <2>2, <1>1, ServeEnds
<1>5. ASSUME NEW i \in Instances, Stop(i) PROVE ServeInv'
  BY <1>5, ClusterAssumption
     DEF Stop, ClusterTypeOK, ServeInv, Locked, Empty, Entered, InSubs, Serving, Removing
<1>6. ASSUME NEW i \in Instances, Shutdown(i) PROVE ServeInv'
  BY <1>6, ClusterAssumption
     DEF Shutdown, Replace, Free, ClusterTypeOK, ServeInv, Locked, Empty, Entered, InSubs,
         Serving, Removing
<1>7. ASSUME NEW i \in Instances, Crash(i) PROVE ServeInv'
  BY <1>7, ServeEnds DEF Crash
<1>8. CASE Expire \/ UNCHANGED vars
  <2>1. UNCHANGED <<hub, subs>> /\ faults' = faults
    BY <1>8 DEF Expire, vars
  <2> QED BY <2>1, <1>1
<1> QED BY <1>2, <1>3, <1>4, <1>5, <1>6, <1>7, <1>8, ServeConn DEF Next

\* A message is published once, and not by the instance it is aimed at; a
\* connection it is aimed at was served by then.
Aimed(m, c) ==
  aim[m] = c => step[m] = "done" /\ from[m] # At[c] /\ pc[c] \in Removed \cup {"on"}
AimInv == \A m \in Msgs, c \in Conns : Aimed(m, c)

LEMMA AimConn ==
  ASSUME ClusterTypeOK, AimInv, NEW d \in Conns, ConnNext(d)
  PROVE  AimInv'
<1> SUFFICES ASSUME NEW m \in Msgs, NEW c \in Conns PROVE Aimed(m, c)'
  BY DEF AimInv
<1>1. Aimed(m, c) /\ pc \in [Conns -> ConnState]
  BY DEF AimInv, ClusterTypeOK
<1>2. UNCHANGED <<step, from, aim>>
  BY DEF ConnNext, Login, SetOnline, Subscribe, Greet, Breaks, ReadFails, RemoveUser, GetKey,
         DelKey, Unsubscribe, RedisFails, msgs
<1>3. pc[c] \in Removed \cup {"on"} => pc'[c] \in Removed \cup {"on"}
  BY <1>1 DEF ConnNext, Login, SetOnline, Subscribe, Greet, Breaks, ReadFails, RemoveUser,
              GetKey, DelKey, Unsubscribe, RedisFails, Goto, Removed
<1> QED BY <1>1, <1>2, <1>3 DEF Aimed

LEMMA AimStep == ClusterTypeOK /\ AimInv /\ [Next]_vars => AimInv'
<1> SUFFICES ASSUME ClusterTypeOK, AimInv, [Next]_vars PROVE AimInv'
  OBVIOUS
<1>1. CASE UNCHANGED <<step, from, aim, pc>>
  BY <1>1 DEF AimInv, Aimed
<1>2. ASSUME NEW i \in Instances, Ends(i) PROVE AimInv'
  BY <1>2 DEF Ends, AimInv, Aimed, Removed, ClusterTypeOK
<1>3. ASSUME NEW m \in Msgs, GetInstance(m) \/ RoutingFails(m) PROVE AimInv'
  BY <1>3 DEF GetInstance, RoutingFails, AimInv, Aimed, ClusterTypeOK, hub
<1>4. ASSUME NEW m \in Msgs, Publish(m) PROVE AimInv'
  <2>1. PICK c \in IF Served(m) = {} THEN {None} ELSE Served(m) : aim' = [aim EXCEPT ![m] = c]
    BY <1>4 DEF Publish
  <2>2. c = None \/ (c \in Conns /\ pc[c] = "on" /\ At[c] # from[m])
    BY <2>1 DEF Served
  <2>3. UNCHANGED <<pc, from>> /\ step' = [step EXCEPT ![m] = "done"]
    BY <1>4 DEF Publish, hub
  <2> QED BY <2>1, <2>2, <2>3, ClusterAssumption DEF AimInv, Aimed, ClusterTypeOK
<1>5. ASSUME NEW m \in Msgs, NEW i \in Instances, LookUp(m, i) PROVE AimInv'
  BY <1>5 DEF LookUp, AimInv, Aimed, ClusterTypeOK, hub
<1>6. ASSUME NEW m \in Msgs, NEW i \in Instances, Listen(i, m) PROVE AimInv'
  BY <1>1, <1>6 DEF Listen, hub
<1>7. ASSUME NEW i \in Instances, ListenerWrites(i) \/ Stop(i) \/ Shutdown(i) \/ Crash(i)
      PROVE  AimInv'
  <2>1. Ends(i) \/ UNCHANGED <<step, from, aim, pc>>
    BY <1>7 DEF ListenerWrites, Stop, Shutdown, Crash, hub, msgs
  <2> QED BY <2>1, <1>1, <1>2
<1>8. CASE Expire \/ UNCHANGED vars
  BY <1>1, <1>8 DEF Expire, vars, hub, msgs
<1> QED BY <1>3, <1>4, <1>5, <1>6, <1>7, <1>8, AimConn DEF Next

\* A message that is aimed at a connection that is still served.
Due(m, c) == /\ aim[m] = c /\ faults = 0
             /\ pc[c] = "on" /\ c \notin closed /\ state[At[c]] = "up"
OnItsWay(m, c) == m \in inbox[At[c]] \/ found[At[c]] = <<c, m>> \/ c \in shown[m]

LEMMA NotLostStep ==
  ASSUME ClusterTypeOK, ServeInv, AimInv, NotLost, [Next]_vars
  PROVE  NotLost'
<1> SUFFICES ASSUME NEW m \in Msgs, NEW c \in Conns, Due(m, c)' PROVE OnItsWay(m, c)'
  BY DEF NotLost, Due, OnItsWay
<1>1. Due(m, c) => OnItsWay(m, c)
  BY DEF NotLost, Due, OnItsWay
<1>2. At[c] \in Instances /\ None \notin Conns
  BY ClusterAssumption
<1>3. faults \in Nat /\ faults' = 0
  BY DEF ClusterTypeOK, Due
\* A connection that is served is the registered one, and its instance subscribed.
<1>4. pc[c] = "on" /\ c \notin closed /\ state[At[c]] = "up" /\ faults = 0
        => entry[At[c]] = c /\ At[c] \in subs
  BY DEF ServeInv, Entered, InSubs, Serving
<1>5. Aimed(m, c)
  BY DEF AimInv
<1>6. ASSUME NEW d \in Conns, ConnNext(d) PROVE OnItsWay(m, c)'
  <2>1. UNCHANGED msgs
    BY <1>6 DEF ConnNext, Login, SetOnline, Subscribe, Greet, Breaks, ReadFails, RemoveUser,
           GetKey, DelKey, Unsubscribe, RedisFails
  <2>2. aim[m] = c
    BY <2>1 DEF Due, msgs
  <2>3. pc[c] = "on"
    BY <1>5, <1>6, <2>2
       DEF Aimed, Removed, Due, ClusterTypeOK, ConnNext, Login, SetOnline, Subscribe, Greet,
           Breaks, ReadFails, RemoveUser, GetKey, DelKey, Unsubscribe, RedisFails, Goto
  <2>4. c \notin closed /\ state[At[c]] = "up" /\ faults = 0
    BY <1>3, <1>6
       DEF Due, ClusterTypeOK, ConnNext, Login, SetOnline, Subscribe, Greet, Breaks, ReadFails,
           RemoveUser, GetKey, DelKey, Unsubscribe, RedisFails, Replace
  <2> QED BY <1>1, <2>1, <2>2, <2>3, <2>4 DEF Due, OnItsWay, msgs
<1>7. CASE UNCHANGED <<hub, msgs>> /\ faults' = faults
  BY <1>1, <1>7 DEF Due, OnItsWay, hub, msgs
<1>8. ASSUME NEW n \in Msgs, GetInstance(n) \/ RoutingFails(n) PROVE OnItsWay(m, c)'
  <2>1. faults = 0 /\ UNCHANGED <<hub, inbox, found, aim, shown>>
    BY <1>3, <1>8 DEF GetInstance, RoutingFails, hub
  <2> QED BY <1>1, <2>1 DEF Due, OnItsWay, hub
<1>9. ASSUME NEW n \in Msgs, Publish(n) PROVE OnItsWay(m, c)'
  <2>1. UNCHANGED <<hub, found, shown, faults>>
    BY <1>9 DEF Publish
  <2>2. At[c] \in subs /\ aim'[m] = c
    BY <1>3, <1>4, <2>1 DEF Due, hub
  <2>3. CASE n = m
    BY <1>2, <1>9, <2>2, <2>3 DEF Publish, OnItsWay
  <2>4. CASE n # m
    <3>1. aim[m] = c
      BY <1>9, <2>2, <2>4 DEF Publish, ClusterTypeOK
    <3>2. OnItsWay(m, c)
      BY <1>1, <2>1, <3>1 DEF Due, hub
    <3>3. m \in inbox[At[c]] => m \in inbox'[At[c]]
      BY <1>2, <1>9 DEF Publish
    <3> QED BY <2>1, <3>2, <3>3 DEF OnItsWay
  <2> QED BY <2>3, <2>4
<1>10. ASSUME NEW n \in Msgs, NEW j \in Instances, LookUp(n, j) PROVE OnItsWay(m, c)'
  <2>1. UNCHANGED <<hub, inbox, found, aim, shown, faults>>
    BY <1>10 DEF LookUp
  <2> QED BY <1>1, <2>1 DEF Due, OnItsWay, hub
<1>11. ASSUME NEW n \in Msgs, NEW i \in Instances, Listen(i, n) PROVE OnItsWay(m, c)'
  <2>1. UNCHANGED <<hub, aim, shown, faults, from>>
    BY <1>11 DEF Listen
  <2>2. OnItsWay(m, c) /\ entry[At[c]] = c /\ from[m] # At[c]
    BY <1>1, <1>3, <1>4, <1>5, <2>1 DEF Due, hub, Aimed
  <2>3. /\ n \in inbox[i] /\ found[i] = None
        /\ inbox' = [inbox EXCEPT ![i] = @ \ {n}]
        /\ found' = [found EXCEPT ![i] = IF from[n] = i \/ entry[i] = None THEN None
                                         ELSE <<entry[i], n>>]
    BY <1>11 DEF Listen
  <2>4. CASE i # At[c]
    BY <1>2, <2>1, <2>2, <2>3, <2>4 DEF OnItsWay, ClusterTypeOK
  <2>5. CASE i = At[c] /\ n = m
    <3>1. found'[i] = <<c, m>>
      BY <1>2, <2>2, <2>3, <2>5 DEF ClusterTypeOK
    <3> QED BY <3>1, <2>5 DEF OnItsWay
  <2>6. CASE i = At[c] /\ n # m
    <3>1. found[i] # <<c, m>>
      BY <2>3, ClusterAssumption
    <3>2. m \in inbox[i] => m \in inbox'[i]
      BY <2>3, <2>6 DEF ClusterTypeOK
    <3> QED BY <2>1, <2>2, <2>6, <3>1, <3>2 DEF OnItsWay
  <2> QED BY <2>4, <2>5, <2>6
<1>12. ASSUME NEW i \in Instances, Ends(i), UNCHANGED <<shown, faults>>
       PROVE  OnItsWay(m, c)'
  <2>1. At[c] # i
    BY <1>12 DEF Ends, Due, ClusterTypeOK
  <2>2. pc'[c] = pc[c] /\ state'[At[c]] = state[At[c]] /\ (c \in closed => c \in closed')
    BY <1>2, <1>12, <2>1 DEF Ends, ClusterTypeOK
  <2>3. aim' = aim /\ inbox'[At[c]] = inbox[At[c]] /\ found'[At[c]] = found[At[c]]
    BY <1>2, <1>12, <2>1 DEF Ends, ClusterTypeOK
  <2> QED BY <1>1, <1>12, <2>2, <2>3 DEF Due, OnItsWay
<1>13. ASSUME NEW i \in Instances, ListenerWrites(i) PROVE OnItsWay(m, c)'
  <2>1. CASE found[i][1] \in closed
    BY <1>12, <1>13, <2>1 DEF ListenerWrites
  <2>2. CASE found[i][1] \notin closed
    <3>1. /\ shown' = [shown EXCEPT ![found[i][2]] = @ \cup {found[i][1]}]
          /\ found' = [found EXCEPT ![i] = None]
          /\ UNCHANGED <<hub, inbox, aim, faults>>
      BY <1>13, <2>2 DEF ListenerWrites
    <3>2. OnItsWay(m, c)
      BY <1>1, <3>1 DEF Due, hub
    <3>3. c \in shown[m] => c \in shown'[m]
      BY <3>1 DEF ClusterTypeOK
    <3>4. CASE found[At[c]] = <<c, m>>
      <4>1. CASE i = At[c]
        BY <3>1, <3>4, <4>1 DEF ClusterTypeOK, OnItsWay
      <4>2. CASE i # At[c]
        BY <1>2, <3>1, <3>4, <4>2 DEF ClusterTypeOK, OnItsWay
      <4> QED BY <4>1, <4>2
    <3> QED BY <3>1, <3>2, <3>3, <3>4 DEF OnItsWay
  <2> QED BY <2>1, <2>2
<1>14. ASSUME NEW i \in Instances, Stop(i) PROVE OnItsWay(m, c)'
  <2>1. i # At[c]
    BY <1>2, <1>14 DEF Stop, Due, ClusterTypeOK
  <2>2. /\ UNCHANGED <<aim, pc, closed, faults, found, shown>>
        /\ state'[At[c]] = state[At[c]] /\ inbox'[At[c]] = inbox[At[c]]
    BY <1>2, <1>14, <2>1 DEF Stop, ClusterTypeOK
  <2> QED BY <1>1, <2>2 DEF Due, OnItsWay
<1>15. ASSUME NEW i \in Instances, Shutdown(i) PROVE OnItsWay(m, c)'
  <2>1. UNCHANGED <<state, pc, msgs, faults>> /\ (c \in closed => c \in closed')
    BY <1>15 DEF Shutdown, Replace
  <2> QED BY <1>1, <2>1 DEF Due, OnItsWay, msgs
<1>16. ASSUME NEW i \in Instances, Crash(i) PROVE OnItsWay(m, c)'
  BY <1>12, <1>16 DEF Crash
<1>17. CASE Expire \/ UNCHANGED vars
  BY <1>7, <1>17 DEF Expire, vars
<1> QED BY <1>6, <1>8, <1>9, <1>10, <1>11, <1>13, <1>14, <1>15, <1>16, <1>17 DEF Next

\* What was published while the user was served on another instance reaches
\* him there, whatever his other connections and instances do.
THEOREM NothingIsLost == Spec => []NotLost
<1>1. Init => ServeInv /\ AimInv /\ NotLost
  BY ClusterAssumption
     DEF Init, ServeInv, Locked, Empty, Entered, InSubs, Serving, Removing, AimInv, Aimed, NotLost
<1>2. ClusterTypeOK /\ ServeInv /\ AimInv /\ NotLost /\ [Next]_vars
        => ServeInv' /\ AimInv' /\ NotLost'
  BY ServeStep, AimStep, NotLostStep
<1> QED BY <1>1, <1>2, ClusterTypeCorrect, PTL DEF Spec
=============================================================================
