---------------------------- MODULE FriendsProofs ----------------------------
(***************************************************************************)
(* Theorems about Friends.tla and Friendship.tla, for every set of users and *)
(* sessions, every limit, every initial table and any number of faults.     *)
(***************************************************************************)
EXTENDS Friendship, FiniteSetTheorems, TLAPS

-----------------------------------------------------------------------------
(* The types.                                                              *)

LEMMA ReceiveType ==
  ASSUME FriendsTypeOK, NEW s \in Sessions, NEW v \in Users,
         Receive(s, v) \/ FirstStatementFails(s, v)
  PROVE  FriendsTypeOK'
<1> USE FriendsAssumption DEF FriendsTypeOK, Begin, Goto, Pairs, RowStatus, Statement
<1>1. CASE RequestFriend(s, v)
  BY <1>1 DEF RequestFriend, MayAsk
<1>2. CASE AcceptFriend(s, v)
  BY <1>2 DEF AcceptFriend
<1>3. CASE RejectFriend(s, v)
  BY <1>3 DEF RejectFriend
<1>4. CASE DeleteFriend(s, v)
  BY <1>4 DEF DeleteFriend, DeleteAccepted
<1>5. CASE SendMessage(s, v)
  BY <1>5 DEF SendMessage
<1>6. CASE BlockUser(s, v)
  BY <1>6 DEF BlockUser
<1>7. CASE UnblockUser(s, v)
  BY <1>7 DEF UnblockUser
<1>8. CASE FirstStatementFails(s, v)
  BY <1>8 DEF FirstStatementFails, FaultHappens, MayAsk
<1> QED BY <1>1, <1>2, <1>3, <1>4, <1>5, <1>6, <1>7, <1>8 DEF Receive

LEMMA HandleType ==
  ASSUME FriendsTypeOK, NEW s \in Sessions, Handle(s) \/ StatementFails(s)
  PROVE  FriendsTypeOK'
<1> USE FriendsAssumption
    DEF FriendsTypeOK, Step, Goto, Pairs, RowStatus, Statement, MaxNonFriendMessages
<1>1. CASE FindExisting(s)
  BY <1>1 DEF FindExisting
<1>2. CASE CreateRequest(s)
  BY <1>2 DEF CreateRequest, Insert
<1>3. CASE CountSelf(s)
  BY <1>3 DEF CountSelf
<1>4. CASE CountTarget(s)
  BY <1>4 DEF CountTarget
<1>5. CASE Revert(s)
  BY <1>5 DEF Revert
<1>6. CASE CreateReverse(s)
  BY <1>6 DEF CreateReverse, Insert
<1>7. CASE ClearCount(s)
  BY <1>7 DEF ClearCount, ClearRow
<1>8. CASE ClearCountBack(s)
  BY <1>8 DEF ClearCountBack, ClearRow
<1>9. CASE DeleteBack(s)
  BY <1>9 DEF DeleteBack, DeleteAccepted
<1>10. CASE IsFriend(s)
  BY <1>10 DEF IsFriend
<1>11. CASE ReadCount(s)
  BY <1>11 DEF ReadCount
<1>12. CASE WriteCount(s)
  BY <1>12 DEF WriteCount
<1>13. CASE StatementFails(s)
  BY <1>13 DEF StatementFails, FaultHappens, AfterFailure
<1> QED BY <1>1, <1>2, <1>3, <1>4, <1>5, <1>6, <1>7, <1>8, <1>9, <1>10, <1>11, <1>12, <1>13
        DEF Handle

LEMMA TypeStep == FriendsTypeOK /\ [Next]_vars => FriendsTypeOK'
<1> SUFFICES ASSUME FriendsTypeOK, [Next]_vars PROVE FriendsTypeOK'
  OBVIOUS
<1>1. CASE Restart
  BY <1>1, FriendsAssumption
  DEF Restart, FaultHappens, FriendsTypeOK, Statement
<1>2. CASE UNCHANGED vars
  BY <1>2 DEF vars, FriendsTypeOK
<1> QED BY <1>1, <1>2, ReceiveType, HandleType DEF Next

LEMMA FriendsTypeInit == Init => FriendsTypeOK
<1> SUFFICES ASSUME Init PROVE FriendsTypeOK
  OBVIOUS
<1>1. friends \in [Pairs -> RowStatus] /\ \A u \in Users : friends[<<u, u>>] = "none"
  BY FriendsAssumption DEF Init
<1>2. msgCount \in [Pairs -> 0..MaxNonFriendMessages] /\ admitted \in [Pairs -> Nat]
  BY DEF Init, MaxNonFriendMessages
<1>3. pc \in [Sessions -> Statement] /\ peer \in [Sessions -> Users] /\ faults \in 0..MaxFaults
  BY FriendsAssumption DEF Init, Statement
<1> QED BY <1>1, <1>2, <1>3 DEF Init, FriendsTypeOK

\* The rows keep their types, and nobody becomes a friend of himself.
THEOREM FriendsTypeCorrect == Spec => []FriendsTypeOK
BY FriendsTypeInit, TypeStep, PTL DEF Spec

-----------------------------------------------------------------------------
(* The limit of friends.  A session that has compared its user with the     *)
(* limit may still create a row for him; together with the rows that were   *)
(* compared with the limit, these sessions stay below the bound.            *)

Committed(u) == {s \in SessionsOf(u) : pc[s] \in {"target", "reverse"}}
Accepting == {"self", "target", "revert", "reverse"}

Bound(u) == MaxFriends + Cardinality(SessionsOf(u)) + faults * Cardinality(Sessions)
LimitFor(u) == Cardinality(Confirmed(u)) + Cardinality(Committed(u)) < Bound(u)
LimitInv == \A u \in Users : LimitFor(u)

LEMMA SubsetSize ==
  ASSUME NEW S, IsFiniteSet(S), NEW T, T \subseteq S
  PROVE  /\ IsFiniteSet(T)
         /\ Cardinality(T) \in Nat /\ Cardinality(S) \in Nat
         /\ Cardinality(T) <= Cardinality(S)
BY FS_Subset, FS_CardinalityType

LEMMA OneMore ==
  ASSUME NEW S, IsFiniteSet(S), NEW x, NEW T, T \subseteq S \cup {x}
  PROVE  /\ Cardinality(T) \in Nat /\ Cardinality(S) \in Nat
         /\ Cardinality(T) <= Cardinality(S) + 1
<1>1. Cardinality(S) \in Nat
  BY FS_CardinalityType
<1>2. /\ IsFiniteSet(S \cup {x})
      /\ \/ Cardinality(S \cup {x}) = Cardinality(S)
         \/ Cardinality(S \cup {x}) = Cardinality(S) + 1
  BY FS_AddElement
<1>3. Cardinality(T) \in Nat /\ Cardinality(T) <= Cardinality(S \cup {x})
  BY <1>2, SubsetSize
<1> QED BY <1>1, <1>2, <1>3

LEMMA Product ==
  ASSUME NEW x \in Nat, NEW y \in Nat
  PROVE  x * y \in Nat /\ (x + 1) * y = x * y + y
OBVIOUS

LEMMA SessionCounts ==
  /\ Cardinality(Sessions) \in Nat
  /\ \A s \in Sessions : Cardinality(Sessions) >= 1
  /\ \A u : IsFiniteSet(SessionsOf(u)) /\ Cardinality(SessionsOf(u)) \in Nat
<1>1. IsFiniteSet(Sessions)
  BY FriendsAssumption
<1>2. ASSUME NEW s \in Sessions PROVE Cardinality(Sessions) >= 1
  <2>1. Cardinality(Sessions) # 0
    BY <1>1, FS_EmptySet
  <2> QED BY <1>1, <2>1, FS_CardinalityType
<1>3. ASSUME NEW u PROVE IsFiniteSet(SessionsOf(u)) /\ Cardinality(SessionsOf(u)) \in Nat
  BY <1>1, SubsetSize DEF SessionsOf
<1> QED BY <1>1, <1>2, <1>3, FS_CardinalityType

LEMMA Counts ==
  ASSUME FriendsTypeOK, NEW u \in Users
  PROVE  /\ IsFiniteSet(FriendsOf(u)) /\ IsFiniteSet(Confirmed(u)) /\ IsFiniteSet(Committed(u))
         /\ Cardinality(FriendsOf(u)) \in Nat
         /\ Cardinality(Confirmed(u)) \in Nat
         /\ Cardinality(Committed(u)) \in Nat
         /\ Cardinality(Confirmed(u)) <= Cardinality(FriendsOf(u))
         /\ Cardinality(Committed(u)) <= Cardinality(SessionsOf(u))
<1>1. IsFiniteSet(FriendsOf(u)) /\ Cardinality(FriendsOf(u)) \in Nat
  <2>1. FriendsOf(u) \subseteq Users
    BY DEF FriendsOf
  <2> QED BY <2>1, SubsetSize, FriendsAssumption
<1>2. Confirmed(u) \subseteq FriendsOf(u)
  BY DEF Confirmed
<1>3. Committed(u) \subseteq SessionsOf(u)
  BY DEF Committed
<1> QED BY <1>1, <1>2, <1>3, SubsetSize, SessionCounts

LEMMA CountsPrimed ==
  ASSUME FriendsTypeOK', NEW u \in Users
  PROVE  /\ Cardinality(Confirmed(u)') \in Nat
         /\ Cardinality(Committed(u)') \in Nat
         /\ Cardinality(Committed(u)') <= Cardinality(SessionsOf(u))
<1>1. Confirmed(u)' \subseteq Users
  BY DEF Confirmed, FriendsOf
<1>2. Committed(u)' \subseteq SessionsOf(u)
  BY DEF Committed, SessionsOf
<1> QED BY <1>1, <1>2, SubsetSize, SessionCounts, FriendsAssumption

\* The bound follows the faults.
LEMMA BoundStep ==
  ASSUME FriendsTypeOK, FriendsTypeOK', NEW u \in Users
  PROVE  /\ Bound(u) \in Nat /\ Bound(u)' \in Nat
         /\ MaxFriends + Cardinality(SessionsOf(u)) <= Bound(u)'
         /\ faults' = faults => Bound(u)' = Bound(u)
         /\ faults' = faults + 1 => Bound(u)' = Bound(u) + Cardinality(Sessions)
<1> DEFINE C == Cardinality(Sessions)
           k == Cardinality(SessionsOf(u))
<1>1. C \in Nat /\ k \in Nat /\ MaxFriends \in Nat
  BY SessionCounts, FriendsAssumption
<1>2. faults \in Nat /\ faults' \in Nat
  BY FriendsAssumption DEF FriendsTypeOK
<1>3. Bound(u) = MaxFriends + k + faults * C /\ Bound(u)' = MaxFriends + k + faults' * C
  BY DEF Bound, SessionsOf
<1>4. faults * C \in Nat /\ faults' * C \in Nat
  BY <1>1, <1>2, Product
<1>5. faults' = faults + 1 => faults' * C = faults * C + C
  BY <1>1, <1>2, Product
<1> HIDE DEF C, k
<1> QED BY <1>1, <1>2, <1>3, <1>4, <1>5 DEF C, k

\* Neither the confirmed friends nor the committed sessions of u grow.
LEMMA NoMore ==
  ASSUME FriendsTypeOK, FriendsTypeOK', NEW u \in Users, LimitFor(u),
         faults' = faults \/ faults' = faults + 1,
         Confirmed(u)' \subseteq Confirmed(u), Committed(u)' \subseteq Committed(u)
  PROVE  LimitFor(u)'
<1>1. /\ Cardinality(Confirmed(u)') <= Cardinality(Confirmed(u))
      /\ Cardinality(Committed(u)') <= Cardinality(Committed(u))
  BY Counts, SubsetSize
<1>2. Bound(u) \in Nat /\ Bound(u)' \in Nat /\ Bound(u) <= Bound(u)'
  BY BoundStep, SessionCounts
<1> QED BY <1>1, <1>2, Counts, CountsPrimed DEF LimitFor

\* A count found u below the limit: whatever was confirmed since is counted.
LEMMA FoundBelow ==
  ASSUME FriendsTypeOK, FriendsTypeOK', NEW u \in Users,
         Cardinality(FriendsOf(u)) < MaxFriends, Confirmed(u)' \subseteq FriendsOf(u)
  PROVE  LimitFor(u)'
<1>1. Cardinality(Confirmed(u)') <= Cardinality(FriendsOf(u))
  BY Counts, SubsetSize
<1> QED BY <1>1, Counts, CountsPrimed, BoundStep, SessionCounts, FriendsAssumption DEF LimitFor

\* Steps of a session that is not accepting a request add no friend.
LEMMA Quiet ==
  ASSUME FriendsTypeOK, FriendsTypeOK', NEW s \in Sessions, NEW l, NEW w, NEW u \in Users,
         pc' = [pc EXCEPT ![s] = l], peer' = [peer EXCEPT ![s] = w],
         pc[s] \notin Accepting, l \notin Accepting,
         \A p \in Pairs : friends'[p] = "accepted" => friends[p] = "accepted"
  PROVE  Confirmed(u)' \subseteq Confirmed(u) /\ Committed(u)' \subseteq Committed(u)
<1>1. \A t \in Sessions : t # s => pc'[t] = pc[t] /\ peer'[t] = peer[t]
  BY DEF FriendsTypeOK
<1>2. ~(pc'[s] \in Accepting)
  BY DEF FriendsTypeOK
<1>3. Committed(u)' \subseteq Committed(u)
  BY <1>1, <1>2 DEF Committed, Accepting, SessionsOf
<1>4. \A v \in Users : Provisional(u, v) => Provisional(u, v)'
  BY <1>1 DEF Provisional, Accepting, SessionsOf
<1>5. FriendsOf(u)' \subseteq FriendsOf(u)
  BY DEF FriendsOf, Pairs
<1>6. Confirmed(u)' \subseteq Confirmed(u)
  <2> SUFFICES ASSUME NEW v \in Confirmed(u)' PROVE v \in Confirmed(u)
    OBVIOUS
  <2>1. v \in FriendsOf(u)' /\ ~Provisional(u, v)' /\ v \in Users
    BY DEF Confirmed, FriendsOf
  <2> QED BY <1>4, <1>5, <2>1 DEF Confirmed
<1> QED BY <1>3, <1>6

LEMMA ReceiveLimit ==
  ASSUME FriendsTypeOK, FriendsTypeOK', LimitInv, NEW s \in Sessions, NEW v \in Users,
         Receive(s, v) \/ FirstStatementFails(s, v), NEW u \in Users
  PROVE  LimitFor(u)'
<1>1. LimitFor(u)
  BY DEF LimitInv
<1>2. CASE AcceptFriend(s, v)
  <2>1. /\ pc' = [pc EXCEPT ![s] = "self"] /\ peer' = [peer EXCEPT ![s] = v]
        /\ pc[s] = "idle" /\ faults' = faults
        /\ friends' = [friends EXCEPT ![<<v, Owner[s]>>] = "accepted"]
    BY <1>2 DEF AcceptFriend, Begin, Goto
  <2>2. \A t \in Sessions : t # s => pc'[t] = pc[t] /\ peer'[t] = peer[t]
    BY <2>1 DEF FriendsTypeOK
  <2>3. pc'[s] = "self" /\ peer'[s] = v /\ Owner[s] \in Users
    BY <2>1, FriendsAssumption DEF FriendsTypeOK
  <2>4. Committed(u)' \subseteq Committed(u)
    BY <2>1, <2>2, <2>3 DEF Committed, SessionsOf
  <2>5. \A w \in Users : Provisional(u, w) => Provisional(u, w)'
    BY <2>1, <2>2, <2>3 DEF Provisional, SessionsOf
  <2>6. Provisional(v, Owner[s])'
    BY <2>3 DEF Provisional, SessionsOf
  <2>7. Confirmed(u)' \subseteq Confirmed(u)
    <3> SUFFICES ASSUME NEW w \in Confirmed(u)' PROVE w \in Confirmed(u)
      OBVIOUS
    <3>1. w \in Users /\ friends'[<<u, w>>] = "accepted" /\ ~Provisional(u, w)'
      BY DEF Confirmed, FriendsOf
    <3>2. <<u, w>> # <<v, Owner[s]>>
      BY <2>6, <3>1
    <3>3. friends[<<u, w>>] = "accepted"
      BY <2>1, <3>1, <3>2 DEF FriendsTypeOK, Pairs
    <3> QED BY <2>5, <3>1, <3>3 DEF Confirmed, FriendsOf
  <2> QED BY <1>1, <2>1, <2>4, <2>7, NoMore
<1>3. CASE ~AcceptFriend(s, v)
  <2>1. PICK l \in {"existing", "idle", "delete", "isFriend"} :
          /\ pc[s] = "idle"
          /\ Goto(s, v, l)
          /\ faults' = faults \/ faults' = faults + 1
          /\ \A p \in Pairs : friends'[p] = "accepted" => friends[p] = "accepted"
    <3>1. CASE RequestFriend(s, v)
      BY <3>1 DEF RequestFriend, Begin
    <3>2. CASE RejectFriend(s, v)
      BY <3>2 DEF RejectFriend, Begin, FriendsTypeOK
    <3>3. CASE DeleteFriend(s, v)
      BY <3>3 DEF DeleteFriend, DeleteAccepted, Begin, FriendsTypeOK
    <3>4. CASE SendMessage(s, v)
      BY <3>4 DEF SendMessage, Begin
    <3>5. CASE BlockUser(s, v) \/ UnblockUser(s, v)
      BY <3>5 DEF BlockUser, UnblockUser, Begin
    <3>6. CASE FirstStatementFails(s, v)
      BY <3>6 DEF FirstStatementFails, FaultHappens
    <3> QED BY <1>3, <3>1, <3>2, <3>3, <3>4, <3>5, <3>6 DEF Receive
  <2>2. Confirmed(u)' \subseteq Confirmed(u) /\ Committed(u)' \subseteq Committed(u)
    BY <2>1, Quiet DEF Goto, Accepting
  <2> QED BY <1>1, <2>1, <2>2, NoMore
<1> QED BY <1>2, <1>3

\* What a step of session s that stays in its handler does to the others.
LEMMA Others ==
  ASSUME FriendsTypeOK, NEW s \in Sessions, NEW l, Goto(s, peer[s], l)
  PROVE  /\ \A t \in Sessions : t # s => pc'[t] = pc[t] /\ peer'[t] = peer[t]
         /\ pc'[s] = l
         /\ l # "idle" => peer'[s] = peer[s]
         /\ Owner[s] \in Users /\ peer[s] \in Users
BY FriendsAssumption DEF Goto, FriendsTypeOK

\* The row that session s accepts is compared with the limit of its user, or
\* taken back, by s alone.
LEMMA Released ==
  ASSUME FriendsTypeOK, NEW s \in Sessions, NEW l, Goto(s, peer[s], l), friends' = friends,
         NEW u \in Users
  PROVE  /\ Confirmed(u)' \subseteq Confirmed(u) \cup {Owner[s]}
         /\ u # peer[s] => Confirmed(u)' \subseteq Confirmed(u)
         /\ (pc[s] \notin {"self", "target", "revert"} \/ l \in {"target", "revert"})
              => Confirmed(u)' \subseteq Confirmed(u)
<1>1. ASSUME NEW v \in Users, Provisional(u, v), ~Provisional(u, v)'
      PROVE  /\ v = Owner[s] /\ u = peer[s] /\ pc[s] \in {"self", "target", "revert"}
             /\ l \notin {"target", "revert"}
  <2>1. PICK t \in SessionsOf(v) : peer[t] = u /\ pc[t] \in {"self", "target", "revert"}
    BY <1>1 DEF Provisional
  <2>2. t \in Sessions /\ Owner[t] = v
    BY DEF SessionsOf
  <2>3. t = s
    BY <1>1, <2>1, <2>2, Others DEF Provisional, SessionsOf
  <2> QED BY <1>1, <2>1, <2>2, <2>3, Others DEF Provisional, SessionsOf
<1>2. Confirmed(u)' = {v \in FriendsOf(u) : ~Provisional(u, v)'}
  BY DEF Confirmed, FriendsOf
<1>3. FriendsOf(u) \subseteq Users
  BY DEF FriendsOf
<1> QED BY <1>1, <1>2, <1>3 DEF Confirmed

LEMMA AcceptLimit ==
  ASSUME FriendsTypeOK, FriendsTypeOK', LimitInv, NEW s \in Sessions, NEW u \in Users,
         CountSelf(s) \/ CountTarget(s) \/ Revert(s) \/ CreateReverse(s)
  PROVE  LimitFor(u)'
<1>1. LimitFor(u)
  BY DEF LimitInv
<1>2. Confirmed(u) \subseteq FriendsOf(u)
  BY DEF Confirmed
<1>3. CASE CountSelf(s)
  <2>1. PICK l \in {"target", "revert"} :
          /\ Goto(s, peer[s], l) /\ pc[s] = "self"
          /\ l = "target" => Cardinality(FriendsOf(Owner[s])) < MaxFriends
    BY <1>3 DEF CountSelf, Step, BelowLimit
  <2>2. faults' = faults /\ friends' = friends
    BY <1>3 DEF CountSelf, Step
  <2>3. Confirmed(u)' \subseteq Confirmed(u)
    BY <2>1, <2>2, Released
  <2>4. CASE u = Owner[s] /\ l = "target"
    BY <1>2, <2>1, <2>3, <2>4, FoundBelow
  <2>5. CASE ~(u = Owner[s] /\ l = "target")
    <3>1. Committed(u)' \subseteq Committed(u)
      BY <2>1, <2>5, Others DEF Committed, SessionsOf
    <3> QED BY <1>1, <2>2, <2>3, <3>1, NoMore
  <2> QED BY <2>4, <2>5
<1>4. CASE CountTarget(s)
  <2>1. PICK l \in {"reverse", "revert"} :
          /\ Goto(s, peer[s], l) /\ pc[s] = "target"
          /\ l = "reverse" => Cardinality(FriendsOf(peer[s])) < MaxFriends
    BY <1>4 DEF CountTarget, Step, BelowLimit
  <2>2. faults' = faults /\ friends' = friends
    BY <1>4 DEF CountTarget, Step
  <2>3. CASE u = peer[s] /\ l = "reverse"
    <3>1. Confirmed(u)' \subseteq FriendsOf(u)
      BY <2>2 DEF Confirmed, FriendsOf
    <3> QED BY <2>1, <2>3, <3>1, FoundBelow
  <2>4. CASE ~(u = peer[s] /\ l = "reverse")
    <3>1. Confirmed(u)' \subseteq Confirmed(u)
      BY <2>1, <2>2, <2>4, Released
    <3>2. Committed(u)' \subseteq Committed(u)
      BY <2>1, Others DEF Committed, SessionsOf
    <3> QED BY <1>1, <2>2, <3>1, <3>2, NoMore
  <2> QED BY <2>3, <2>4
<1>5. CASE Revert(s)
  <2>1. Goto(s, peer[s], "idle") /\ pc[s] = "revert" /\ faults' = faults
    BY <1>5 DEF Revert, Step
  <2>2. Committed(u)' \subseteq Committed(u)
    BY <2>1, Others DEF Committed, SessionsOf
  <2>3. \A p \in Pairs : friends'[p] = "accepted"
                            => friends[p] = "accepted" /\ p # <<peer[s], Owner[s]>>
    BY <1>5 DEF Revert, FriendsTypeOK
  <2>4. Confirmed(u)' \subseteq Confirmed(u)
    <3> SUFFICES ASSUME NEW v \in Confirmed(u)' PROVE v \in Confirmed(u)
      OBVIOUS
    <3>1. v \in Users /\ friends'[<<u, v>>] = "accepted" /\ ~Provisional(u, v)'
      BY DEF Confirmed, FriendsOf
    <3>2. friends[<<u, v>>] = "accepted" /\ <<u, v>> # <<peer[s], Owner[s]>>
      BY <2>3, <3>1 DEF Pairs
    <3>3. ~Provisional(u, v)
      BY <2>1, <3>1, <3>2, Others DEF Provisional, SessionsOf
    <3> QED BY <3>1, <3>2, <3>3 DEF Confirmed, FriendsOf
  <2> QED BY <1>1, <2>1, <2>2, <2>4, NoMore
<1>6. CASE CreateReverse(s)
  <2>1. Goto(s, peer[s], "clear") /\ pc[s] = "reverse" /\ faults' = faults
    BY <1>6 DEF CreateReverse, Step
  <2>2. \A p \in Pairs : friends'[p] = "accepted"
                            => friends[p] = "accepted" \/ p = <<Owner[s], peer[s]>>
    BY <1>6 DEF CreateReverse, Insert, FriendsTypeOK
  <2>3. \A v \in Users : Provisional(u, v) => Provisional(u, v)'
    BY <2>1, Others DEF Provisional, SessionsOf
  <2>4. ASSUME NEW v \in Confirmed(u)', v \notin Confirmed(u)
        PROVE  u = Owner[s] /\ v = peer[s]
    <3>1. v \in Users /\ friends'[<<u, v>>] = "accepted" /\ ~Provisional(u, v)'
      BY DEF Confirmed, FriendsOf
    <3>2. friends[<<u, v>>] # "accepted"
      BY <2>3, <2>4, <3>1 DEF Confirmed, FriendsOf
    <3> QED BY <2>2, <3>1, <3>2 DEF Pairs
  <2>5. Committed(u)' \subseteq Committed(u)
    BY <2>1, Others DEF Committed, SessionsOf
  <2>6. CASE u # Owner[s]
    <3>1. Confirmed(u)' \subseteq Confirmed(u)
      BY <2>4, <2>6
    <3> QED BY <1>1, <2>1, <2>5, <3>1, NoMore
  <2>7. CASE u = Owner[s]
    <3>1. s \in Committed(u) /\ Committed(u)' \subseteq Committed(u) \ {s}
      BY <2>1, <2>7, Others DEF Committed, SessionsOf
    <3>2. Cardinality(Committed(u)') <= Cardinality(Committed(u)) - 1
      <4>1. /\ IsFiniteSet(Committed(u) \ {s})
            /\ Cardinality(Committed(u) \ {s}) = Cardinality(Committed(u)) - 1
        BY <3>1, FS_RemoveElement, Counts
      <4> QED BY <3>1, <4>1, SubsetSize
    <3>3. Confirmed(u)' \subseteq Confirmed(u) \cup {peer[s]}
      BY <2>4
    <3>4. Cardinality(Confirmed(u)') <= Cardinality(Confirmed(u)) + 1
      BY <3>3, OneMore, Counts
    <3> QED BY <1>1, <2>1, <3>2, <3>4, Counts, CountsPrimed, BoundStep DEF LimitFor
  <2> QED BY <2>6, <2>7
<1> QED BY <1>3, <1>4, <1>5, <1>6

LEMMA HandleLimit ==
  ASSUME FriendsTypeOK, FriendsTypeOK', LimitInv, NEW s \in Sessions, Handle(s),
         NEW u \in Users
  PROVE  LimitFor(u)'
<1>1. CASE CountSelf(s) \/ CountTarget(s) \/ Revert(s) \/ CreateReverse(s)
  BY <1>1, AcceptLimit
<1>2. CASE ~(CountSelf(s) \/ CountTarget(s) \/ Revert(s) \/ CreateReverse(s))
  <2>1. PICK l \in {"create", "idle", "clearBack", "count", "write"} :
          /\ pc[s] \notin Accepting
          /\ Goto(s, peer[s], l)
          /\ faults' = faults
          /\ \A p \in Pairs : friends'[p] = "accepted" => friends[p] = "accepted"
    <3> USE DEF Step, Accepting
    <3>1. CASE FindExisting(s)
      BY <3>1 DEF FindExisting
    <3>2. CASE CreateRequest(s)
      BY <3>2 DEF CreateRequest, Insert, FriendsTypeOK
    <3>3. CASE ClearCount(s) \/ ClearCountBack(s)
      BY <3>3 DEF ClearCount, ClearCountBack
    <3>4. CASE DeleteBack(s)
      BY <3>4 DEF DeleteBack, DeleteAccepted, FriendsTypeOK
    <3>5. CASE IsFriend(s) \/ ReadCount(s) \/ WriteCount(s)
      BY <3>5 DEF IsFriend, ReadCount, WriteCount
    <3> QED BY <1>2, <3>1, <3>2, <3>3, <3>4, <3>5 DEF Handle
  <2>2. Confirmed(u)' \subseteq Confirmed(u) /\ Committed(u)' \subseteq Committed(u)
    BY <2>1, Quiet DEF Goto, Accepting
  <2> QED BY <2>1, <2>2, NoMore DEF LimitInv
<1> QED BY <1>1, <1>2

\* A failing statement adds one friend or one committed session.
LEMMA FailureLimit ==
  ASSUME FriendsTypeOK, FriendsTypeOK', LimitInv, NEW s \in Sessions, StatementFails(s),
         NEW u \in Users
  PROVE  LimitFor(u)'
<1>1. LimitFor(u)
  BY DEF LimitInv
<1>2. /\ Goto(s, peer[s], AfterFailure[pc[s]]) /\ faults' = faults + 1 /\ friends' = friends
      /\ pc[s] # "idle" /\ pc[s] \in Statement
  BY DEF StatementFails, FaultHappens, FriendsTypeOK
<1>3. Cardinality(Sessions) >= 1
  BY SessionCounts
<1>4. CASE pc[s] = "self"
  <2>1. Goto(s, peer[s], "target")
    BY <1>2, <1>4 DEF AfterFailure
  <2>2. Confirmed(u)' \subseteq Confirmed(u)
    BY <1>2, <1>4, <2>1, Released
  <2>3. Committed(u)' \subseteq Committed(u) \cup {s}
    BY <1>4, <2>1, Others DEF Committed, SessionsOf
  <2>4. Cardinality(Committed(u)') <= Cardinality(Committed(u)) + 1
    BY <2>3, OneMore, Counts
  <2>5. Cardinality(Confirmed(u)') <= Cardinality(Confirmed(u))
    BY <2>2, SubsetSize, Counts
  <2> QED BY <1>1, <1>2, <1>3, <2>4, <2>5, Counts, CountsPrimed, BoundStep, SessionCounts DEF LimitFor
<1>5. CASE pc[s] \in {"target", "revert"}
  <2>1. PICK l \in {"reverse", "idle"} : Goto(s, peer[s], l) /\ (l = "reverse" => pc[s] = "target")
    BY <1>2, <1>5 DEF AfterFailure
  <2>2. Confirmed(u)' \subseteq Confirmed(u) \cup {Owner[s]}
    BY <1>2, <2>1, Released
  <2>3. Committed(u)' \subseteq Committed(u)
    BY <1>5, <2>1, Others DEF Committed, SessionsOf
  <2>4. Cardinality(Committed(u)') <= Cardinality(Committed(u))
    BY <2>3, SubsetSize, Counts
  <2>5. Cardinality(Confirmed(u)') <= Cardinality(Confirmed(u)) + 1
    BY <2>2, OneMore, Counts
  <2> QED BY <1>1, <1>2, <1>3, <2>4, <2>5, Counts, CountsPrimed, BoundStep, SessionCounts DEF LimitFor
<1>6. CASE pc[s] = "reverse"
  <2>1. Goto(s, peer[s], "clear")
    BY <1>2, <1>6 DEF AfterFailure
  <2>2. Confirmed(u)' \subseteq Confirmed(u)
    BY <1>2, <1>6, <2>1, Released
  <2>3. Committed(u)' \subseteq Committed(u)
    BY <1>6, <2>1, Others DEF Committed, SessionsOf
  <2> QED BY <1>1, <1>2, <2>2, <2>3, NoMore
<1>7. CASE pc[s] \notin Accepting
  <2>1. AfterFailure[pc[s]] \notin Accepting
    BY <1>2, <1>7 DEF AfterFailure, Accepting, Statement
  <2>2. Confirmed(u)' \subseteq Confirmed(u) /\ Committed(u)' \subseteq Committed(u)
    BY <1>2, <1>7, <2>1, Quiet DEF Goto
  <2> QED BY <1>1, <1>2, <2>2, NoMore
<1> QED BY <1>4, <1>5, <1>6, <1>7 DEF Accepting

\* A restart confirms at most one row of u for every session.
LEMMA RestartLimit ==
  ASSUME FriendsTypeOK, FriendsTypeOK', LimitInv, Restart, NEW u \in Users
  PROVE  LimitFor(u)'
<1> DEFINE owners == {v \in Users : \E s \in Sessions : Owner[s] = v}
<1>1. LimitFor(u) /\ faults' = faults + 1
  BY DEF LimitInv, Restart, FaultHappens
<1>2. IsFiniteSet(owners) /\ Cardinality(owners) <= Cardinality(Sessions)
  <2>1. Owner \in Surjection(Sessions, owners)
    BY FriendsAssumption DEF Surjection
  <2> QED BY <2>1, FS_Surjection, FriendsAssumption
<1>3. Confirmed(u)' \subseteq Confirmed(u) \cup owners
  <2> SUFFICES ASSUME NEW v \in Confirmed(u)', v \notin Confirmed(u) PROVE v \in owners
    OBVIOUS
  <2>1. v \in Users /\ friends[<<u, v>>] = "accepted"
    BY DEF Confirmed, FriendsOf, Restart
  <2>2. Provisional(u, v)
    BY <2>1 DEF Confirmed, FriendsOf
  <2> QED BY <2>1, <2>2 DEF Provisional, SessionsOf
<1>4. Cardinality(Confirmed(u)') <= Cardinality(Confirmed(u)) + Cardinality(Sessions)
  <2> HIDE DEF owners
  <2>1. /\ IsFiniteSet(Confirmed(u) \cup owners)
        /\ Cardinality(Confirmed(u) \cup owners) <= Cardinality(Confirmed(u)) + Cardinality(owners)
    <3>1. IsFiniteSet(Confirmed(u)) /\ Cardinality(Confirmed(u)) \in Nat /\ Cardinality(owners) \in Nat
      BY <1>2, Counts, FS_CardinalityType
    <3>2. Cardinality(Confirmed(u) \cap owners) \in Nat
      BY <3>1, SubsetSize
    <3> QED BY <1>2, <3>1, <3>2, FS_Union
  <2> QED BY <1>2, <1>3, <2>1, SubsetSize, Counts, SessionCounts, FS_CardinalityType
<1>5. Committed(u)' = {}
  BY FriendsAssumption DEF Restart, Committed, SessionsOf
<1>6. Cardinality(Committed(u)') = 0
  BY <1>5, FS_EmptySet
<1> QED BY <1>1, <1>4, <1>6, Counts, CountsPrimed, BoundStep, SessionCounts DEF LimitFor

\* Whatever the interleaving of acceptances, deletions and requests, a user
\* has at most MaxFriends friends that were compared with the limit, one more
\* for every further session, and one for every session that a fault struck.
THEOREM FriendLimitHolds == Spec => []FriendLimit
<1>1. Init => FriendsTypeOK /\ LimitInv
  <2> SUFFICES ASSUME Init PROVE LimitInv
    BY FriendsTypeInit
  <2> SUFFICES ASSUME NEW u \in Users PROVE LimitFor(u)
    BY DEF LimitInv
  <2>1. Committed(u) = {}
    BY DEF Init, Committed, SessionsOf
  <2>2. Confirmed(u) \subseteq {v \in Users : Stored[<<u, v>>] = "accepted"}
    BY DEF Init, Confirmed, FriendsOf
  <2>3. IsFiniteSet({v \in Users : Stored[<<u, v>>] = "accepted"})
    <3>1. {v \in Users : Stored[<<u, v>>] = "accepted"} \subseteq Users
      OBVIOUS
    <3> QED BY <3>1, SubsetSize, FriendsAssumption
  <2>4. Cardinality(Confirmed(u)) <= Cardinality({v \in Users : Stored[<<u, v>>] = "accepted"})
    BY <2>2, <2>3, SubsetSize
  <2>5. Bound(u) = MaxFriends + Cardinality(SessionsOf(u))
    BY SessionCounts, FriendsAssumption DEF Init, Bound
  <2>6. Cardinality(Confirmed(u)) \in Nat
        /\ Cardinality({v \in Users : Stored[<<u, v>>] = "accepted"}) \in Nat
    BY <2>2, <2>3, SubsetSize
  <2>7. Cardinality(Committed(u)) = 0
    BY <2>1, FS_EmptySet
  <2>8. Cardinality({v \in Users : Stored[<<u, v>>] = "accepted"})
          < MaxFriends + Cardinality(SessionsOf(u))
    BY FriendsAssumption
  <2>9. MaxFriends + Cardinality(SessionsOf(u)) \in Nat
    BY FriendsAssumption, SessionCounts
  <2> QED BY <2>4, <2>5, <2>6, <2>7, <2>8, <2>9 DEF LimitFor
<1>2. FriendsTypeOK /\ LimitInv /\ [Next]_vars => FriendsTypeOK' /\ LimitInv'
  <2> SUFFICES ASSUME FriendsTypeOK, LimitInv, [Next]_vars, FriendsTypeOK', NEW u \in Users
               PROVE  LimitFor(u)'
    BY TypeStep DEF LimitInv
  <2>1. CASE UNCHANGED vars
    BY <2>1 DEF vars, LimitInv, LimitFor, Bound, Confirmed, Committed, FriendsOf, Provisional, SessionsOf
  <2> QED BY <2>1, ReceiveLimit, HandleLimit, FailureLimit, RestartLimit DEF Next
<1>3. FriendsTypeOK /\ LimitInv => FriendLimit
  <2> SUFFICES ASSUME FriendsTypeOK, LimitInv, NEW u \in Users
               PROVE  Cardinality(Confirmed(u)) < Bound(u)
    BY DEF FriendLimit, Bound
  <2>1. Bound(u) \in Nat
    <3>1. faults \in Nat
      BY FriendsAssumption DEF FriendsTypeOK
    <3> QED BY <3>1, Product, SessionCounts, FriendsAssumption DEF Bound
  <2> QED BY <2>1, Counts DEF LimitInv, LimitFor
<1> QED BY <1>1, <1>2, <1>3, PTL DEF Spec

-----------------------------------------------------------------------------
(* Messages to strangers.  While there is no row nothing was let through but *)
(* by faults; once there is one, no further session gets as far as to write. *)

Writing(p) == {s \in SessionsOf(p[1]) : pc[s] = "write" /\ peer[s] = p[2]}

QuotaFor(p) ==
  /\ msgCount[p] = 0 => admitted[p] <= faults
  /\ msgCount[p] # 0 =>
       admitted[p] + Cardinality(Writing(p)) <= Cardinality(SessionsOf(p[1])) + faults
QuotaInv == \A p \in Pairs : QuotaFor(p)

LEMMA WritingSize ==
  ASSUME NEW p \in Pairs
  PROVE  /\ IsFiniteSet(Writing(p))
         /\ Cardinality(Writing(p)) \in Nat /\ Cardinality(Writing(p)') \in Nat
         /\ Cardinality(Writing(p)) <= Cardinality(SessionsOf(p[1]))
<1>1. Writing(p) \subseteq SessionsOf(p[1]) /\ Writing(p)' \subseteq SessionsOf(p[1])
  BY DEF Writing, SessionsOf
<1> QED BY <1>1, SubsetSize, SessionCounts

\* Nothing is let through, and no session goes on to write where it may not.
LEMMA NoWrite ==
  ASSUME FriendsTypeOK, FriendsTypeOK', NEW p \in Pairs, QuotaFor(p),
         faults' = faults \/ faults' = faults + 1,
         msgCount'[p] = msgCount[p], admitted'[p] = admitted[p],
         msgCount[p] = 0 \/ Writing(p)' \subseteq Writing(p)
  PROVE  QuotaFor(p)'
<1>1. faults \in Nat /\ faults' \in Nat /\ admitted[p] \in Nat
  BY FriendsAssumption DEF FriendsTypeOK
<1>2. CASE msgCount[p] = 0
  BY <1>1, <1>2 DEF QuotaFor
<1>3. CASE msgCount[p] # 0
  <2>1. Cardinality(Writing(p)') <= Cardinality(Writing(p))
    BY <1>3, SubsetSize, WritingSize
  <2>2. Cardinality(SessionsOf(p[1])) \in Nat /\ SessionsOf(p[1])' = SessionsOf(p[1])
    BY SessionCounts DEF SessionsOf
  <2> QED BY <1>1, <1>3, <2>1, <2>2, WritingSize DEF QuotaFor
<1> QED BY <1>2, <1>3

\* Session s moves on to a statement other than "write".
LEMMA StopsWriting ==
  ASSUME FriendsTypeOK, NEW s \in Sessions, NEW l, NEW w, NEW p \in Pairs,
         pc' = [pc EXCEPT ![s] = l], peer' = [peer EXCEPT ![s] = w], l # "write"
  PROVE  Writing(p)' \subseteq Writing(p) \ {s}
BY DEF Writing, SessionsOf, FriendsTypeOK

\* Session s lets a message through: it wrote the row, or could not write it.
LEMMA LetsThrough ==
  ASSUME FriendsTypeOK, FriendsTypeOK', NEW s \in Sessions, NEW p \in Pairs, QuotaFor(p),
         Goto(s, peer[s], "idle"), pc[s] = "write",
         admitted' = [admitted EXCEPT ![<<Owner[s], peer[s]>>] = @ + 1],
         \/ faults' = faults /\ msgCount' = [msgCount EXCEPT ![<<Owner[s], peer[s]>>] = 1]
         \/ faults' = faults + 1 /\ msgCount' = msgCount
  PROVE  QuotaFor(p)'
<1>1. Writing(p)' \subseteq Writing(p) \ {s}
  BY StopsWriting DEF Goto
<1>2. CASE p # <<Owner[s], peer[s]>>
  <2>1. admitted'[p] = admitted[p] /\ msgCount'[p] = msgCount[p]
    BY <1>2 DEF FriendsTypeOK
  <2> QED BY <1>1, <2>1, NoWrite
<1>3. CASE p = <<Owner[s], peer[s]>>
  <2>1. admitted'[p] = admitted[p] + 1 /\ admitted[p] \in Nat
    BY <1>3 DEF FriendsTypeOK
  <2>2. \/ faults' = faults /\ msgCount'[p] = 1
        \/ faults' = faults + 1 /\ msgCount'[p] = msgCount[p]
    BY <1>3 DEF FriendsTypeOK
  <2>3. s \in Writing(p)
    BY <1>3 DEF Writing, SessionsOf
  <2>4. Cardinality(Writing(p)') <= Cardinality(Writing(p)) - 1
    <3>1. /\ IsFiniteSet(Writing(p) \ {s})
          /\ Cardinality(Writing(p) \ {s}) = Cardinality(Writing(p)) - 1
      BY <2>3, FS_RemoveElement, WritingSize
    <3> QED BY <1>1, <3>1, SubsetSize
  <2>5. Cardinality(SessionsOf(p[1])) \in Nat /\ SessionsOf(p[1])' = SessionsOf(p[1])
    BY SessionCounts DEF SessionsOf
  <2>6. faults \in Nat
    BY FriendsAssumption DEF FriendsTypeOK
  <2> QED BY <2>1, <2>2, <2>4, <2>5, <2>6, WritingSize DEF QuotaFor
<1> QED BY <1>2, <1>3

LEMMA HandleQuota ==
  ASSUME FriendsTypeOK, FriendsTypeOK', QuotaInv, NEW s \in Sessions, Handle(s),
         NEW p \in Pairs
  PROVE  QuotaFor(p)'
<1>1. QuotaFor(p)
  BY DEF QuotaInv
<1>2. CASE ClearCount(s) \/ ClearCountBack(s)
  <2>1. PICK q : ClearRow(q)
    BY <1>2 DEF ClearCount, ClearCountBack
  <2>2. PICK l \in {"clearBack", "idle"} : Goto(s, peer[s], l) /\ faults' = faults
    BY <1>2 DEF ClearCount, ClearCountBack, Step
  <2>3. Writing(p)' \subseteq Writing(p)
    BY <2>2, StopsWriting DEF Goto
  <2>4. CASE p = q
    BY <2>1, <2>4, FriendsAssumption DEF ClearRow, QuotaFor, FriendsTypeOK
  <2>5. CASE p # q
    BY <1>1, <2>1, <2>2, <2>3, <2>5, NoWrite DEF ClearRow, FriendsTypeOK
  <2> QED BY <2>4, <2>5
<1>3. CASE WriteCount(s)
  BY <1>1, <1>3, LetsThrough DEF WriteCount, Step
<1>4. CASE ReadCount(s)
  <2>1. PICK l \in {"write", "idle"} :
          Goto(s, peer[s], l) /\ (l = "write" => msgCount[<<Owner[s], peer[s]>>] = 0)
    <3>1. msgCount[<<Owner[s], peer[s]>>] \in 0..1
      BY FriendsAssumption DEF FriendsTypeOK, MaxNonFriendMessages, Pairs
    <3>2. MayWrite(<<Owner[s], peer[s]>>) => msgCount[<<Owner[s], peer[s]>>] = 0
      BY <3>1 DEF MayWrite, MaxNonFriendMessages
    <3> QED BY <1>4, <3>2 DEF ReadCount, Step
  <2>2. msgCount[p] = 0 \/ Writing(p)' \subseteq Writing(p)
    <3> SUFFICES ASSUME NEW t \in Writing(p)', t \notin Writing(p) PROVE msgCount[p] = 0
      OBVIOUS
    <3>1. t \in Sessions /\ Owner[t] = p[1] /\ pc'[t] = "write" /\ peer'[t] = p[2]
      BY DEF Writing, SessionsOf
    <3>2. t = s /\ l = "write"
      BY <2>1, <3>1, Others DEF Writing, SessionsOf
    <3>3. p = <<Owner[s], peer[s]>>
      BY <2>1, <3>1, <3>2, Others DEF Pairs
    <3> QED BY <2>1, <3>2, <3>3
  <2> QED BY <1>1, <1>4, <2>2, NoWrite DEF ReadCount, Step
<1>5. CASE ~(ClearCount(s) \/ ClearCountBack(s) \/ WriteCount(s) \/ ReadCount(s))
  <2>1. PICK l \in Statement \ {"write"} :
          Goto(s, peer[s], l) /\ faults' = faults /\ msgCount' = msgCount /\ admitted' = admitted
    BY <1>5
    DEF Handle, FindExisting, CreateRequest, CountSelf, CountTarget, Revert, CreateReverse,
        DeleteBack, IsFriend, Step, Statement
  <2>2. Writing(p)' \subseteq Writing(p)
    BY <2>1, StopsWriting DEF Goto
  <2> QED BY <1>1, <2>1, <2>2, NoWrite
<1> QED BY <1>2, <1>3, <1>4, <1>5

LEMMA OtherQuota ==
  ASSUME FriendsTypeOK, FriendsTypeOK', QuotaInv, NEW p \in Pairs,
         \/ \E s \in Sessions, v \in Users : Receive(s, v) \/ FirstStatementFails(s, v)
         \/ \E s \in Sessions : StatementFails(s)
         \/ Restart
  PROVE  QuotaFor(p)'
<1>1. QuotaFor(p)
  BY DEF QuotaInv
<1>2. ASSUME NEW s \in Sessions, NEW v \in Users, Receive(s, v) \/ FirstStatementFails(s, v)
      PROVE  QuotaFor(p)'
  <2>1. /\ faults' = faults \/ faults' = faults + 1
        /\ msgCount' = msgCount /\ admitted' = admitted
    BY <1>2
    DEF Receive, RequestFriend, AcceptFriend, RejectFriend, DeleteFriend, SendMessage, BlockUser,
        UnblockUser, FirstStatementFails, FaultHappens, Begin
  <2>2. PICK l \in Statement \ {"write"} : Goto(s, v, l)
    BY <1>2
    DEF Receive, RequestFriend, AcceptFriend, RejectFriend, DeleteFriend, SendMessage, BlockUser,
        UnblockUser, FirstStatementFails, Begin, Statement
  <2>3. Writing(p)' \subseteq Writing(p)
    BY <2>2, StopsWriting DEF Goto
  <2> QED BY <1>1, <2>1, <2>3, NoWrite
<1>3. ASSUME NEW s \in Sessions, StatementFails(s) PROVE QuotaFor(p)'
  <2>1. CASE pc[s] = "write"
    <3>1. /\ Goto(s, peer[s], "idle") /\ faults' = faults + 1 /\ msgCount' = msgCount
          /\ admitted' = [admitted EXCEPT ![<<Owner[s], peer[s]>>] = @ + 1]
      BY <1>3, <2>1 DEF StatementFails, FaultHappens, AfterFailure
    <3> QED BY <1>1, <2>1, <3>1, LetsThrough
  <2>2. CASE pc[s] # "write"
    <3>1. AfterFailure[pc[s]] # "write"
      BY DEF AfterFailure, FriendsTypeOK, Statement
    <3>2. Writing(p)' \subseteq Writing(p)
      BY <1>3, <3>1, StopsWriting DEF StatementFails, Goto
    <3> QED BY <1>1, <1>3, <2>2, <3>2, NoWrite DEF StatementFails, FaultHappens
  <2> QED BY <2>1, <2>2
<1>4. CASE Restart
  <2>1. Writing(p)' = {}
    BY <1>4 DEF Restart, Writing, SessionsOf
  <2> QED BY <1>1, <1>4, <2>1, NoWrite DEF Restart, FaultHappens
<1> QED BY <1>2, <1>3, <1>4

\* Between two clearings of the count a user gets one message through to a
\* stranger, one more for every further session, and one for every fault.
THEOREM QuotaHolds == Spec => []QuotaKept
<1>1. Init => FriendsTypeOK /\ QuotaInv
  BY FriendsTypeInit DEF Init, QuotaInv, QuotaFor
<1>2. FriendsTypeOK /\ QuotaInv /\ [Next]_vars => FriendsTypeOK' /\ QuotaInv'
  <2> SUFFICES ASSUME FriendsTypeOK, QuotaInv, [Next]_vars, FriendsTypeOK', NEW p \in Pairs
               PROVE  QuotaFor(p)'
    BY TypeStep DEF QuotaInv
  <2>1. CASE UNCHANGED vars
    BY <2>1 DEF vars, QuotaInv, QuotaFor, Writing, SessionsOf
  <2> QED BY <2>1, HandleQuota, OtherQuota DEF Next
<1>3. FriendsTypeOK /\ QuotaInv => QuotaKept
  <2> SUFFICES ASSUME FriendsTypeOK, QuotaInv, NEW p \in Pairs
               PROVE  admitted[p] < 1 + Cardinality(SessionsOf(p[1])) + faults
    BY DEF QuotaKept, MaxNonFriendMessages
  <2>1. faults \in Nat /\ admitted[p] \in Nat /\ QuotaFor(p)
    BY FriendsAssumption DEF FriendsTypeOK, QuotaInv
  <2> QED BY <2>1, WritingSize, SessionCounts DEF QuotaFor
<1> QED BY <1>1, <1>2, <1>3, PTL DEF Spec

-----------------------------------------------------------------------------
(* Mutual friendships.  As long as nothing has disturbed the handlers about  *)
(* u and v, each of them finds the rows as the statements before left them. *)

Calm(u, v) == faults = 0 /\ <<u, v>> \notin overlapped

\* Of the two rows one is missing, or they make a friendship.
RowsMatch(u, v) ==
  \/ friends[<<u, v>>] = "none"
  \/ friends[<<v, u>>] = "none"
  \/ friends[<<u, v>>] = "accepted" /\ friends[<<v, u>>] = "accepted"

\* A friendship of one direction is about to be completed or taken back.
Passing == Accepting \cup {"delete"}
OneWay(u, v) == friends[<<u, v>>] = "accepted" /\ friends[<<v, u>>] # "accepted"
OneWayIsPassing(u, v) ==
  OneWay(u, v) => \E s \in Sessions : About(u, v, s) /\ pc[s] \in Passing

FindsItsRows(s) ==
  /\ pc[s] \in Accepting =>
       friends[<<peer[s], Owner[s]>>] = "accepted" /\ friends[<<Owner[s], peer[s]>>] = "none"
  /\ pc[s] = "create" =>
       friends[<<peer[s], Owner[s]>>] = "none" /\ friends[<<Owner[s], peer[s]>>] = "none"
  /\ pc[s] = "delete" => friends[<<Owner[s], peer[s]>>] # "accepted"

Symmetric == \A u, v \in Users : <<u, v>> \in overlapped => <<v, u>> \in overlapped
RowsInv == \A u, v \in Users : Calm(u, v) => RowsMatch(u, v) /\ OneWayIsPassing(u, v)
HandlersInv == \A s \in Sessions : Calm(Owner[s], peer[s]) => FindsItsRows(s)
MutualInv == Symmetric /\ RowsInv /\ HandlersInv

Observe == overlapped' = overlapped \cup {p \in Pairs : \E s \in Sessions : LooksAway(p[1], p[2], s)}

LEMMA SymmetricStep ==
  ASSUME Symmetric, Observe
  PROVE  Symmetric'
<1> SUFFICES ASSUME NEW u \in Users, NEW v \in Users, <<u, v>> \in overlapped'
             PROVE  <<v, u>> \in overlapped'
  BY DEF Symmetric
<1>1. CASE <<u, v>> \in overlapped
  BY <1>1 DEF Symmetric, Observe
<1>2. CASE <<u, v>> \notin overlapped
  <2>1. PICK s \in Sessions : LooksAway(u, v, s)
    BY <1>2 DEF Observe
  <2>2. {u, v} = {v, u} /\ Between(u, v) = Between(v, u)
    BY DEF Between
  <2>3. LooksAway(v, u, s)
    BY <2>1, <2>2 DEF LooksAway, About
  <2> QED BY <2>3 DEF Observe, Pairs
<1> QED BY <1>1, <1>2

\* Session s executes a statement of a handler about b, and goes on with l.
Moves(s, b, l) ==
  /\ pc[s] = "idle" \/ b = peer[s]
  /\ Goto(s, b, l)
  /\ faults' = faults
  /\ \A p \in Pairs : p \notin Between(Owner[s], b) => friends'[p] = friends[p]

\* It leaves the handlers of other sessions their rows, or is noticed.
LEMMA OthersFindTheirs ==
  ASSUME FriendsTypeOK, Observe, HandlersInv, NEW s \in Sessions, NEW b \in Users, NEW l,
         Moves(s, b, l), NEW t \in Sessions, t # s, Calm(Owner[t], peer[t])'
  PROVE  /\ FindsItsRows(t)'
         /\ pc[t] # "idle" => /\ friends'[<<Owner[t], peer[t]>>] = friends[<<Owner[t], peer[t]>>]
                              /\ friends'[<<peer[t], Owner[t]>>] = friends[<<peer[t], Owner[t]>>]
<1>1. pc'[t] = pc[t] /\ peer'[t] = peer[t] /\ Owner[t] \in Users /\ peer[t] \in Users
  BY FriendsAssumption DEF Moves, Goto, FriendsTypeOK
<1>2. faults = 0 /\ <<Owner[t], peer[t]>> \notin overlapped'
  BY <1>1 DEF Calm, Moves
<1>3. FindsItsRows(t)
  BY <1>2 DEF HandlersInv, Calm, Observe
<1>4. CASE pc[t] = "idle"
  BY <1>1, <1>4 DEF FindsItsRows, Accepting
<1>5. CASE pc[t] # "idle"
  <2>1. ~LooksAway(Owner[t], peer[t], t)
    BY <1>1, <1>2 DEF Observe, Pairs
  <2>2. About(Owner[t], peer[t], t)
    BY <1>5 DEF About
  <2>3. \A p \in Between(Owner[t], peer[t]) : friends'[p] = friends[p]
    BY <1>1, <2>1, <2>2 DEF LooksAway
  <2> QED BY <1>1, <1>3, <2>3 DEF FindsItsRows, Between
<1> QED BY <1>4, <1>5

\* The rows between other users are as they were.
LEMMA OtherRows ==
  ASSUME FriendsTypeOK, Observe, RowsInv, NEW s \in Sessions, NEW b \in Users, NEW l,
         Moves(s, b, l), NEW u \in Users, NEW v \in Users, {u, v} # {Owner[s], b},
         Calm(u, v)'
  PROVE  RowsMatch(u, v)' /\ OneWayIsPassing(u, v)'
<1>1. Calm(u, v)
  BY DEF Calm, Moves, Observe
<1>2. RowsMatch(u, v) /\ OneWayIsPassing(u, v)
  BY <1>1 DEF RowsInv
<1>3. friends'[<<u, v>>] = friends[<<u, v>>] /\ friends'[<<v, u>>] = friends[<<v, u>>]
  <2>1. <<u, v>> \notin Between(Owner[s], b) /\ <<v, u>> \notin Between(Owner[s], b)
    BY DEF Between
  <2> QED BY <2>1 DEF Moves, Pairs
<1>4. ASSUME NEW t \in Sessions, About(u, v, t), pc[t] \in Passing
      PROVE  About(u, v, t)' /\ pc'[t] \in Passing
  <2>1. t # s
    BY <1>4 DEF About, Moves
  <2>2. pc'[t] = pc[t] /\ peer'[t] = peer[t]
    BY <2>1 DEF Moves, Goto, FriendsTypeOK
  <2> QED BY <1>4, <2>2 DEF About
<1>5. OneWayIsPassing(u, v)'
  <2> SUFFICES ASSUME OneWay(u, v)' PROVE \E t \in Sessions : About(u, v, t)' /\ pc'[t] \in Passing
    BY DEF OneWayIsPassing
  <2>1. OneWay(u, v)
    BY <1>3 DEF OneWay
  <2>2. PICK t \in Sessions : About(u, v, t) /\ pc[t] \in Passing
    BY <1>2, <2>1 DEF OneWayIsPassing
  <2> QED BY <1>4, <2>2
<1> QED BY <1>2, <1>3, <1>5 DEF RowsMatch

\* So it remains to look at the handler that moves, and at its own two rows.
OwnKept(s, b) ==
  /\ b = peer'[s] \/ pc'[s] = "idle"
  /\ FindsItsRows(s)' \/ pc'[s] = "idle"
  /\ RowsMatch(Owner[s], b)'
  /\ OneWayIsPassing(Owner[s], b)' /\ OneWayIsPassing(b, Owner[s])'

LEMMA MoveKeeps ==
  ASSUME FriendsTypeOK, Observe, MutualInv, NEW s \in Sessions, NEW b \in Users, NEW l,
         Moves(s, b, l), Calm(Owner[s], b)' => OwnKept(s, b)
  PROVE  MutualInv'
<1>1. Symmetric'
  BY SymmetricStep DEF MutualInv
<1>2. Owner[s] \in Users
  BY FriendsAssumption
<1>3. ASSUME NEW u \in Users, NEW v \in Users, Calm(u, v)'
      PROVE  RowsMatch(u, v)' /\ OneWayIsPassing(u, v)'
  <2>1. CASE {u, v} # {Owner[s], b}
    BY <1>3, <2>1, OtherRows DEF MutualInv
  <2>2. CASE {u, v} = {Owner[s], b}
    <3>1. Calm(Owner[s], b)'
      BY <1>1, <1>2, <1>3, <2>2 DEF Calm, Symmetric
    <3>2. OwnKept(s, b)
      BY <3>1
    <3>3. (u = Owner[s] /\ v = b) \/ (u = b /\ v = Owner[s])
      BY <2>2
    <3> QED BY <3>2, <3>3 DEF OwnKept, RowsMatch
  <2> QED BY <2>1, <2>2
<1>4. ASSUME NEW t \in Sessions, Calm(Owner[t], peer[t])'
      PROVE  FindsItsRows(t)'
  <2>1. CASE t # s
    BY <1>4, <2>1, OthersFindTheirs DEF MutualInv
  <2>2. CASE t = s /\ pc'[s] = "idle"
    BY <2>2 DEF FindsItsRows, Accepting
  <2>3. CASE t = s /\ pc'[s] # "idle"
    <3>1. peer'[s] = b
      BY <2>3 DEF Moves, Goto, FriendsTypeOK
    <3> QED BY <1>4, <2>3, <3>1 DEF OwnKept, Calm
  <2> QED BY <2>1, <2>2, <2>3
<1> QED BY <1>1, <1>3, <1>4 DEF MutualInv, RowsInv, HandlersInv

\* What is known of the rows of a handler that nobody has disturbed.
LEMMA OwnRows ==
  ASSUME FriendsTypeOK, Observe, MutualInv, NEW s \in Sessions, NEW b \in Users, NEW l,
         Moves(s, b, l), Calm(Owner[s], b)'
  PROVE  /\ RowsMatch(Owner[s], b)
         /\ OneWayIsPassing(Owner[s], b) /\ OneWayIsPassing(b, Owner[s])
         /\ pc[s] # "idle" => b = peer[s] /\ FindsItsRows(s)
         /\ pc'[s] = l
         /\ l # "idle" => peer'[s] = b
<1>1. Owner[s] \in Users
  BY FriendsAssumption
<1>2. Calm(Owner[s], b)
  BY DEF Calm, Moves, Observe
<1>3. Calm(b, Owner[s])
  BY <1>1, <1>2 DEF Calm, MutualInv, Symmetric
<1>4. pc[s] # "idle" => b = peer[s] /\ FindsItsRows(s)
  BY <1>2 DEF Moves, MutualInv, HandlersInv
<1>5. pc'[s] = l /\ (l # "idle" => peer'[s] = b)
  BY DEF Moves, Goto, FriendsTypeOK
<1> QED BY <1>1, <1>2, <1>3, <1>4, <1>5 DEF MutualInv, RowsInv

\* A handler that goes on to complete or to take back a friendship stands for
\* whatever is one-way between its users.
LEMMA StandsForIt ==
  ASSUME FriendsTypeOK, NEW s \in Sessions, NEW b \in Users, NEW l \in Passing,
         Goto(s, b, l)
  PROVE  OneWayIsPassing(Owner[s], b)' /\ OneWayIsPassing(b, Owner[s])'
<1>1. pc'[s] = l /\ peer'[s] = b /\ l # "idle"
  BY DEF Goto, FriendsTypeOK, Passing, Accepting
<1>2. About(Owner[s], b, s)' /\ About(b, Owner[s], s)'
  BY <1>1 DEF About
<1> QED BY <1>1, <1>2 DEF OneWayIsPassing

\* A handler that leaves its rows alone, and does not give up on them.
LEMMA RowsUntouched ==
  ASSUME FriendsTypeOK, Observe, MutualInv, NEW s \in Sessions, NEW b \in Users, NEW l,
         Moves(s, b, l), Calm(Owner[s], b)', pc[s] \notin Passing,
         friends'[<<Owner[s], b>>] = friends[<<Owner[s], b>>],
         friends'[<<b, Owner[s]>>] = friends[<<b, Owner[s]>>]
  PROVE  /\ RowsMatch(Owner[s], b)'
         /\ OneWayIsPassing(Owner[s], b)' /\ OneWayIsPassing(b, Owner[s])'
<1>1. RowsMatch(Owner[s], b) /\ OneWayIsPassing(Owner[s], b) /\ OneWayIsPassing(b, Owner[s])
  BY OwnRows
<1>2. ASSUME NEW u, NEW v, NEW t \in Sessions, About(u, v, t), pc[t] \in Passing
      PROVE  About(u, v, t)' /\ pc'[t] \in Passing
  <2>1. t # s
    BY <1>2
  <2>2. pc'[t] = pc[t] /\ peer'[t] = peer[t]
    BY <2>1 DEF Moves, Goto, FriendsTypeOK
  <2> QED BY <1>2, <2>2 DEF About
<1>3. OneWayIsPassing(Owner[s], b)'
  BY <1>1, <1>2 DEF OneWayIsPassing, OneWay
<1>4. OneWayIsPassing(b, Owner[s])'
  BY <1>1, <1>2 DEF OneWayIsPassing, OneWay
<1> QED BY <1>1, <1>3, <1>4 DEF RowsMatch

\* A friendship of one direction in neither.
LEMMA NoneOneWay ==
  ASSUME NEW u, NEW v, ~OneWay(u, v)', ~OneWay(v, u)'
  PROVE  OneWayIsPassing(u, v)' /\ OneWayIsPassing(v, u)'
BY DEF OneWayIsPassing

LEMMA ReceiveMutual ==
  ASSUME FriendsTypeOK, FriendsTypeOK', Observe, MutualInv, NEW s \in Sessions, NEW v \in Users,
         Receive(s, v)
  PROVE  MutualInv'
<1> DEFINE me == Owner[s]
<1>0. me \in Users /\ <<me, v>> \in Pairs /\ <<v, me>> \in Pairs
  BY FriendsAssumption DEF Pairs
<1>1. CASE AcceptFriend(s, v)
  <2>1. Moves(s, v, "self") /\ pc[s] = "idle" /\ friends[<<v, me>>] = "pending"
        /\ friends' = [friends EXCEPT ![<<v, me>>] = "accepted"]
    BY <1>1 DEF AcceptFriend, Begin, Moves, Between, FriendsTypeOK
  <2>2. ASSUME Calm(me, v)' PROVE OwnKept(s, v)
    <3>1. RowsMatch(me, v) /\ pc'[s] = "self" /\ peer'[s] = v
      BY <2>1, <2>2, OwnRows
    <3>2. v # me
      BY <2>1 DEF FriendsTypeOK
    <3>3. friends[<<me, v>>] = "none"
      BY <2>1, <3>1 DEF RowsMatch
    <3>4. friends'[<<me, v>>] = "none" /\ friends'[<<v, me>>] = "accepted"
      BY <1>0, <2>1, <3>2, <3>3 DEF FriendsTypeOK
    <3>5. FindsItsRows(s)' /\ RowsMatch(me, v)'
      BY <3>1, <3>4 DEF FindsItsRows, Accepting, RowsMatch
    <3> QED BY <2>1, <3>1, <3>5, StandsForIt DEF OwnKept, Moves, Passing, Accepting
  <2> QED BY <2>1, <2>2, MoveKeeps
<1>2. CASE RejectFriend(s, v)
  <2>1. Moves(s, v, "idle") /\ pc[s] = "idle" /\ friends[<<v, me>>] = "pending"
        /\ friends' = [friends EXCEPT ![<<v, me>>] = "rejected"]
    BY <1>2 DEF RejectFriend, Begin, Moves, Between, FriendsTypeOK
  <2>2. ASSUME Calm(me, v)' PROVE OwnKept(s, v)
    <3>1. RowsMatch(me, v) /\ pc'[s] = "idle"
      BY <2>1, <2>2, OwnRows
    <3>2. v # me
      BY <2>1 DEF FriendsTypeOK
    <3>3. friends[<<me, v>>] = "none"
      BY <2>1, <3>1 DEF RowsMatch
    <3>4. friends'[<<me, v>>] = "none" /\ friends'[<<v, me>>] = "rejected"
      BY <1>0, <2>1, <3>2, <3>3 DEF FriendsTypeOK
    <3>5. RowsMatch(me, v)' /\ ~OneWay(me, v)' /\ ~OneWay(v, me)'
      BY <3>4 DEF RowsMatch, OneWay
    <3> QED BY <3>1, <3>5, NoneOneWay DEF OwnKept
  <2> QED BY <2>1, <2>2, MoveKeeps
<1>3. CASE DeleteFriend(s, v)
  <2>1. Moves(s, v, "delete") /\ pc[s] = "idle" /\ DeleteAccepted(<<me, v>>)
    BY <1>3 DEF DeleteFriend, Begin, Moves, Between, DeleteAccepted, FriendsTypeOK
  <2>2. ASSUME Calm(me, v)' PROVE OwnKept(s, v)
    <3>1. RowsMatch(me, v) /\ pc'[s] = "delete" /\ peer'[s] = v
      BY <2>1, <2>2, OwnRows
    <3>2. friends'[<<me, v>>] # "accepted"
      BY <1>0, <2>1 DEF DeleteAccepted, FriendsTypeOK
    <3>3. RowsMatch(me, v)'
      BY <1>0, <2>1, <3>1 DEF DeleteAccepted, FriendsTypeOK, RowsMatch
    <3>4. FindsItsRows(s)'
      BY <3>1, <3>2 DEF FindsItsRows, Accepting
    <3> QED BY <2>1, <3>1, <3>3, <3>4, StandsForIt DEF OwnKept, Moves, Passing
  <2> QED BY <2>1, <2>2, MoveKeeps
<1>4. CASE RequestFriend(s, v) \/ SendMessage(s, v) \/ BlockUser(s, v) \/ UnblockUser(s, v)
  <2>1. PICK l \in {"existing", "isFriend", "idle"} :
          Moves(s, v, l) /\ pc[s] = "idle" /\ friends' = friends
    BY <1>4 DEF RequestFriend, SendMessage, BlockUser, UnblockUser, Begin, Moves
  <2>2. ASSUME Calm(me, v)' PROVE OwnKept(s, v)
    <3>1. pc'[s] = l /\ (l # "idle" => peer'[s] = v)
      BY <2>1, <2>2, OwnRows
    <3>2. FindsItsRows(s)'
      BY <3>1 DEF FindsItsRows, Accepting
    <3> QED BY <2>1, <2>2, <3>1, <3>2, RowsUntouched DEF OwnKept, Passing, Accepting
  <2> QED BY <2>1, <2>2, MoveKeeps
<1> QED BY <1>1, <1>2, <1>3, <1>4 DEF Receive

LEMMA HandleMutual ==
  ASSUME FriendsTypeOK, FriendsTypeOK', Observe, MutualInv, NEW s \in Sessions, Handle(s),
         NEW v \in Users, v = peer[s]
  PROVE  MutualInv'
<1> DEFINE me == Owner[s]
<1>0. me \in Users /\ <<me, v>> \in Pairs /\ <<v, me>> \in Pairs
  BY FriendsAssumption DEF Pairs
<1>1. CASE FindExisting(s)
  <2>1. PICK l \in {"create", "idle"} :
          /\ Moves(s, v, l) /\ pc[s] = "existing" /\ friends' = friends
          /\ l = "create" => friends[<<me, v>>] = "none" /\ friends[<<v, me>>] = "none"
    BY <1>1 DEF FindExisting, Step, Moves
  <2>2. ASSUME Calm(me, v)' PROVE OwnKept(s, v)
    <3>1. pc'[s] = l /\ (l # "idle" => peer'[s] = v)
      BY <1>0, <2>1, <2>2, OwnRows
    <3>2. FindsItsRows(s)' \/ pc'[s] = "idle"
      BY <2>1, <3>1 DEF FindsItsRows, Accepting
    <3> QED BY <1>0, <2>1, <2>2, <3>1, <3>2, RowsUntouched DEF OwnKept, Passing, Accepting
  <2> QED BY <1>0, <2>1, <2>2, MoveKeeps
<1>2. CASE CreateRequest(s)
  <2>1. Moves(s, v, "idle") /\ pc[s] = "create" /\ Insert(<<me, v>>, "pending")
    BY <1>2 DEF CreateRequest, Step, Moves, Between, Insert, FriendsTypeOK
  <2>2. ASSUME Calm(me, v)' PROVE OwnKept(s, v)
    <3>1. pc'[s] = "idle" /\ FindsItsRows(s) /\ v # me
      BY <1>0, <2>1, <2>2, OwnRows DEF FriendsTypeOK
    <3>2. friends'[<<me, v>>] = "pending" /\ friends'[<<v, me>>] = "none"
      BY <1>0, <2>1, <3>1 DEF FindsItsRows, Insert, FriendsTypeOK
    <3>3. RowsMatch(me, v)' /\ ~OneWay(me, v)' /\ ~OneWay(v, me)'
      BY <3>2 DEF RowsMatch, OneWay
    <3> QED BY <3>1, <3>3, NoneOneWay DEF OwnKept
  <2> QED BY <1>0, <2>1, <2>2, MoveKeeps
<1>3. CASE CountSelf(s) \/ CountTarget(s)
  <2>1. PICK l \in {"target", "reverse", "revert"} :
          Moves(s, v, l) /\ pc[s] \in {"self", "target"} /\ friends' = friends
    BY <1>3 DEF CountSelf, CountTarget, Step, Moves
  <2>2. ASSUME Calm(me, v)' PROVE OwnKept(s, v)
    <3>1. pc'[s] = l /\ peer'[s] = v /\ FindsItsRows(s) /\ RowsMatch(me, v)
      BY <1>0, <2>1, <2>2, OwnRows
    <3>2. FindsItsRows(s)' /\ RowsMatch(me, v)'
      BY <2>1, <3>1 DEF FindsItsRows, Accepting, RowsMatch
    <3> QED BY <1>0, <2>1, <3>1, <3>2, StandsForIt DEF OwnKept, Moves, Passing, Accepting
  <2> QED BY <1>0, <2>1, <2>2, MoveKeeps
<1>4. CASE Revert(s)
  <2>1. /\ Moves(s, v, "idle") /\ pc[s] = "revert"
        /\ friends' = IF friends[<<v, me>>] = "none" THEN friends
                                                     ELSE [friends EXCEPT ![<<v, me>>] = "pending"]
    BY <1>4 DEF Revert, Step, Moves, Between, FriendsTypeOK
  <2>2. ASSUME Calm(me, v)' PROVE OwnKept(s, v)
    <3>1. pc'[s] = "idle" /\ FindsItsRows(s) /\ v # me
      BY <1>0, <2>1, <2>2, OwnRows DEF FriendsTypeOK
    <3>2. friends'[<<me, v>>] = "none" /\ friends'[<<v, me>>] = "pending"
      BY <1>0, <2>1, <3>1 DEF FindsItsRows, Accepting, FriendsTypeOK
    <3>3. RowsMatch(me, v)' /\ ~OneWay(me, v)' /\ ~OneWay(v, me)'
      BY <3>2 DEF RowsMatch, OneWay
    <3> QED BY <3>1, <3>3, NoneOneWay DEF OwnKept
  <2> QED BY <1>0, <2>1, <2>2, MoveKeeps
<1>5. CASE CreateReverse(s)
  <2>1. Moves(s, v, "clear") /\ pc[s] = "reverse" /\ Insert(<<me, v>>, "accepted")
    BY <1>5 DEF CreateReverse, Step, Moves, Between, Insert, FriendsTypeOK
  <2>2. ASSUME Calm(me, v)' PROVE OwnKept(s, v)
    <3>1. pc'[s] = "clear" /\ peer'[s] = v /\ FindsItsRows(s) /\ v # me
      BY <1>0, <2>1, <2>2, OwnRows DEF FriendsTypeOK
    <3>2. friends'[<<me, v>>] = "accepted" /\ friends'[<<v, me>>] = "accepted"
      BY <1>0, <2>1, <3>1 DEF FindsItsRows, Accepting, Insert, FriendsTypeOK
    <3>3. RowsMatch(me, v)' /\ ~OneWay(me, v)' /\ ~OneWay(v, me)'
      BY <3>2 DEF RowsMatch, OneWay
    <3>4. FindsItsRows(s)'
      BY <3>1 DEF FindsItsRows, Accepting
    <3> QED BY <3>1, <3>3, <3>4, NoneOneWay DEF OwnKept
  <2> QED BY <1>0, <2>1, <2>2, MoveKeeps
<1>6. CASE DeleteBack(s)
  <2>1. Moves(s, v, "idle") /\ pc[s] = "delete" /\ DeleteAccepted(<<v, me>>)
    BY <1>6 DEF DeleteBack, Step, Moves, Between, DeleteAccepted, FriendsTypeOK
  <2>2. ASSUME Calm(me, v)' PROVE OwnKept(s, v)
    <3>1. pc'[s] = "idle" /\ FindsItsRows(s) /\ RowsMatch(me, v)
      BY <1>0, <2>1, <2>2, OwnRows
    <3>2. friends'[<<me, v>>] # "accepted" /\ friends'[<<v, me>>] # "accepted"
      BY <1>0, <2>1, <3>1 DEF FindsItsRows, DeleteAccepted, FriendsTypeOK
    <3>3. RowsMatch(me, v)'
      BY <1>0, <2>1, <3>1, <3>2 DEF RowsMatch, DeleteAccepted, FriendsTypeOK
    <3>4. ~OneWay(me, v)' /\ ~OneWay(v, me)'
      BY <3>2 DEF OneWay
    <3> QED BY <3>1, <3>3, <3>4, NoneOneWay DEF OwnKept
  <2> QED BY <1>0, <2>1, <2>2, MoveKeeps
<1>7. CASE ClearCount(s) \/ ClearCountBack(s) \/ IsFriend(s) \/ ReadCount(s) \/ WriteCount(s)
  <2>1. PICK l \in {"clearBack", "idle", "count", "write"} :
          Moves(s, v, l) /\ pc[s] \notin Passing /\ friends' = friends
    BY <1>7 DEF ClearCount, ClearCountBack, IsFriend, ReadCount, WriteCount, Step, Moves,
                Passing, Accepting
  <2>2. ASSUME Calm(me, v)' PROVE OwnKept(s, v)
    <3>1. pc'[s] = l /\ (l # "idle" => peer'[s] = v)
      BY <1>0, <2>1, <2>2, OwnRows
    <3>2. FindsItsRows(s)'
      BY <3>1 DEF FindsItsRows, Accepting
    <3> QED BY <1>0, <2>1, <2>2, <3>1, <3>2, RowsUntouched DEF OwnKept
  <2> QED BY <1>0, <2>1, <2>2, MoveKeeps
<1> QED BY <1>1, <1>2, <1>3, <1>4, <1>5, <1>6, <1>7 DEF Handle

\* After a fault nothing is claimed but that the history is symmetric.
LEMMA FaultMutual ==
  ASSUME FriendsTypeOK, Observe, MutualInv, faults' = faults + 1
  PROVE  MutualInv'
<1>1. faults' # 0
  BY FriendsAssumption DEF FriendsTypeOK
<1>2. Symmetric'
  BY SymmetricStep DEF MutualInv
<1> QED BY <1>1, <1>2 DEF MutualInv, RowsInv, HandlersInv, Calm

\* Without a fault, and unless a handler changed the rows of two users while
\* another one about them was under way, a friendship is mutual as soon as no
\* handler is about the two.
THEOREM MutualFriendsHolds == ObservedSpec => []MutualFriends
<1>1. ObservedInit => FriendsTypeOK /\ MutualInv
  <2> SUFFICES ASSUME ObservedInit PROVE MutualInv
    BY FriendsTypeInit DEF ObservedInit
  <2>1. Symmetric
    BY DEF ObservedInit, Symmetric
  <2>2. HandlersInv
    BY DEF ObservedInit, Init, HandlersInv, FindsItsRows, Accepting
  <2>3. RowsInv
    BY MutualAssumption
    DEF ObservedInit, Init, RowsInv, RowsMatch, OneWayIsPassing, OneWay
  <2> QED BY <2>1, <2>2, <2>3 DEF MutualInv
<1>2. FriendsTypeOK /\ MutualInv /\ [ObservedNext]_<<vars, overlapped>>
        => FriendsTypeOK' /\ MutualInv'
  <2> SUFFICES ASSUME FriendsTypeOK, MutualInv, [ObservedNext]_<<vars, overlapped>>
               PROVE  FriendsTypeOK' /\ MutualInv'
    OBVIOUS
  <2>1. CASE UNCHANGED <<vars, overlapped>>
    <3>1. FriendsTypeOK'
      BY <2>1, TypeStep
    <3>2. MutualInv'
      BY <2>1 DEF vars, MutualInv, Symmetric, RowsInv, HandlersInv, Calm, RowsMatch,
                  OneWayIsPassing, OneWay, FindsItsRows, About
    <3> QED BY <3>1, <3>2
  <2>2. CASE ObservedNext
    <3>1. FriendsTypeOK' /\ Observe /\ Next
      BY <2>2, TypeStep DEF ObservedNext, Observe
    <3>2. CASE faults' = faults + 1
      BY <3>1, <3>2, FaultMutual
    <3>3. CASE faults' # faults + 1
      <4>1. ASSUME NEW s \in Sessions, Handle(s) PROVE MutualInv'
        <5>1. peer[s] \in Users
          BY DEF FriendsTypeOK
        <5> QED BY <3>1, <4>1, <5>1, HandleMutual
      <4> QED BY <3>1, <3>3, <4>1, ReceiveMutual
              DEF Next, StatementFails, FirstStatementFails, Restart, FaultHappens
    <3> QED BY <3>1, <3>2, <3>3
  <2> QED BY <2>1, <2>2
<1>3. FriendsTypeOK /\ MutualInv => MutualFriends
  <2> SUFFICES ASSUME FriendsTypeOK, MutualInv, NEW u \in Users, NEW v \in Users, OneWay(u, v)
               PROVE  faults > 0 \/ <<u, v>> \in overlapped \/ \E s \in Sessions : About(u, v, s)
    BY DEF MutualFriends, OneWay
  <2>1. faults > 0 \/ faults = 0
    BY FriendsAssumption DEF FriendsTypeOK
  <2> QED BY <2>1 DEF MutualInv, RowsInv, Calm, OneWayIsPassing
<1> QED BY <1>1, <1>2, <1>3, PTL DEF ObservedSpec
=============================================================================
