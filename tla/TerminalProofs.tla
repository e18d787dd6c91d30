---------------------------- MODULE TerminalProofs ----------------------------
(***************************************************************************)
(* Theorems about Terminal.tla, for any page size, any number of rows, and  *)
(* every sequence of commands.                                             *)
(***************************************************************************)
EXTENDS Terminal, FiniteSetTheorems, SequenceTheorems, TLAPS

-----------------------------------------------------------------------------
(* Rows in the order of their ids.                                         *)

Increasing(s) == \A i, j \in DOMAIN s : i < j => s[i] < s[j]

UpTo(S, i) == {j \in S : j <= i}

\* A number of a finite set is counted by those up to it.
LEMMA Ranks ==
  ASSUME NEW S \in SUBSET Nat, IsFiniteSet(S)
  PROVE  /\ Cardinality(S) \in Nat
         /\ \A i \in S : IsFiniteSet(UpTo(S, i)) /\ Cardinality(UpTo(S, i)) \in 1..Cardinality(S)
         /\ \A i, j \in S : i < j => Cardinality(UpTo(S, i)) < Cardinality(UpTo(S, j))
<1>1. Cardinality(S) \in Nat
  BY FS_CardinalityType
<1>2. ASSUME NEW i \in S
      PROVE  /\ IsFiniteSet(UpTo(S, i)) /\ Cardinality(UpTo(S, i)) \in Nat
             /\ Cardinality(UpTo(S, i)) # 0 /\ Cardinality(UpTo(S, i)) <= Cardinality(S)
  <2>1. UpTo(S, i) \in SUBSET S /\ i \in UpTo(S, i)
    BY DEF UpTo
  <2>2. IsFiniteSet(UpTo(S, i)) /\ Cardinality(UpTo(S, i)) <= Cardinality(S)
    BY <2>1, FS_Subset
  <2>3. UpTo(S, i) # {}
    BY <2>1
  <2> QED BY <2>2, <2>3, FS_CardinalityType, FS_EmptySet
<1>3. ASSUME NEW i \in S, NEW j \in S, i < j
      PROVE  Cardinality(UpTo(S, i)) < Cardinality(UpTo(S, j))
  <2>1. UpTo(S, i) \subseteq UpTo(S, j)
    <3> SUFFICES ASSUME NEW x \in S, x <= i PROVE x <= j
      BY DEF UpTo
    <3> QED BY <1>3
  <2>2. j \in UpTo(S, j) /\ j \notin UpTo(S, i)
    BY <1>3 DEF UpTo
  <2>3. Cardinality(UpTo(S, i)) <= Cardinality(UpTo(S, j)) /\ Cardinality(UpTo(S, i)) # Cardinality(UpTo(S, j))
    BY <1>2, <2>1, <2>2, FS_Subset
  <2> QED BY <1>2, <2>3
<1>4. \A i \in S : Cardinality(UpTo(S, i)) \in 1..Cardinality(S)
  BY <1>1, <1>2
<1> QED BY <1>1, <1>2, <1>3, <1>4

\* InOrder has each number of a finite set once, in their order.
LEMMA InOrderProperties ==
  ASSUME NEW S \in SUBSET Nat, IsFiniteSet(S)
  PROVE  /\ InOrder(S) \in Seq(Nat) /\ Len(InOrder(S)) = Cardinality(S)
         /\ DOMAIN InOrder(S) = 1..Cardinality(S) /\ Cardinality(S) \in Nat
         /\ ToSet(InOrder(S)) = S
         /\ Increasing(InOrder(S))
<1> DEFINE n == Cardinality(S)
           r == [i \in S |-> Cardinality(UpTo(S, i))]
           s == InOrder(S)
<1>1. n \in Nat
  BY Ranks
<1>2. r \in [S -> 1..n]
  BY Ranks
<1>3. \A i, j \in S : i < j => r[i] < r[j]
  BY Ranks
<1>4. \A i, j \in S : r[i] = r[j] => i = j
  <2>1. ASSUME NEW i \in S, NEW j \in S, r[i] = r[j], i # j PROVE FALSE
    <3>1. i < j \/ j < i
      BY <2>1
    <3>2. r[i] \in Nat /\ r[j] \in Nat
      BY <1>1, <1>2
    <3> QED BY <1>3, <2>1, <3>1, <3>2
  <2> QED BY <2>1
<1>5. r \in Injection(S, 1..n)
  BY <1>2, <1>4 DEF Injection, IsInjective
<1>6. IsFiniteSet(1..n) /\ Cardinality(1..n) = n
  BY <1>1, FS_Interval
<1>7. r \in Surjection(S, 1..n)
  BY <1>5, <1>6, FS_Injection
<1>8. \A k \in 1..n : \E i \in S : Cardinality(UpTo(S, i)) = k
  BY <1>7 DEF Surjection
<1>9. s = [k \in 1..n |-> CHOOSE i \in S : Cardinality(UpTo(S, i)) = k]
  BY DEF InOrder, UpTo
<1>10. \A k \in 1..n : s[k] \in S /\ r[s[k]] = k
  BY <1>8, <1>9
<1> HIDE DEF s, r
<1>11. s \in [1..n -> S]
  BY <1>9, <1>10
<1>12. s \in Seq(Nat) /\ Len(s) = n /\ DOMAIN s = 1..n
  <2>1. s \in [1..n -> Nat]
    BY <1>11
  <2>2. s \in Seq(Nat)
    BY <1>1, <2>1, SeqDef
  <2> QED BY <1>1, <1>11, <2>2, LenProperties
<1>13. ToSet(s) = S
  <2>1. ToSet(s) \subseteq S
    BY <1>11 DEF ToSet
  <2>2. ASSUME NEW i \in S PROVE i \in ToSet(s)
    <3>1. r[i] \in 1..n /\ s[r[i]] = i
      BY <1>2, <1>4, <1>10
    <3> QED BY <1>12, <3>1 DEF ToSet
  <2> QED BY <2>1, <2>2
<1>14. Increasing(s)
  <2> SUFFICES ASSUME NEW k \in 1..n, NEW l \in 1..n, k < l, ~(s[k] < s[l]) PROVE FALSE
    BY <1>12 DEF Increasing
  <2>1. s[k] \in Nat /\ s[l] \in Nat /\ s[k] # s[l]
    <3>1. s[k] \in S /\ s[l] \in S /\ r[s[k]] = k /\ r[s[l]] = l /\ k # l
      BY <1>10
    <3> QED BY <3>1
  <2>2. s[l] < s[k]
    BY <2>1
  <2>3. l < k
    BY <1>3, <1>10, <2>2
  <2> QED BY <2>3, <1>1
<1> QED BY <1>1, <1>12, <1>13, <1>14 DEF s

\* A finite set of numbers has a greatest and a least one.
LEMMA NewestAndOldest ==
  ASSUME NEW S \in SUBSET Nat, IsFiniteSet(S), S # {}
  PROVE  /\ Newest(S) \in S /\ \A i \in S : i <= Newest(S)
         /\ Oldest(S) \in S /\ \A i \in S : Oldest(S) <= i
<1> DEFINE s == InOrder(S)
           n == Cardinality(S)
<1>1. /\ s \in Seq(Nat) /\ Len(s) = n /\ DOMAIN s = 1..n /\ n \in Nat
      /\ ToSet(s) = S /\ Increasing(s)
  BY InOrderProperties
<1>2. n # 0
  BY FS_EmptySet
<1> HIDE DEF s, n
<1>3. \A k \in 1..n : s[k] \in S /\ s[k] \in Nat
  BY <1>1 DEF ToSet
<1>4. \A i \in S : \E k \in 1..n : i = s[k]
  BY <1>1 DEF ToSet
<1>5. \A i, j \in 1..n : i < j => s[i] < s[j]
  BY <1>1 DEF Increasing
<1>6. \A i \in S : s[1] <= i /\ i <= s[n]
  <2> SUFFICES ASSUME NEW k \in 1..n PROVE s[1] <= s[k] /\ s[k] <= s[n]
    BY <1>4
  <2>1. k = 1 \/ 1 < k
    OBVIOUS
  <2>2. k = n \/ k < n
    BY <1>1
  <2>3. 1 \in 1..n /\ n \in 1..n
    BY <1>1, <1>2
  <2>4. s[1] \in Nat /\ s[k] \in Nat /\ s[n] \in Nat
    BY <1>3, <2>3
  <2>5. s[1] <= s[k]
    BY <1>5, <2>1, <2>3, <2>4
  <2>6. s[k] <= s[n]
    BY <1>5, <2>2, <2>3, <2>4
  <2> QED BY <2>5, <2>6
<1>7. s[1] \in S /\ s[n] \in S
  BY <1>1, <1>2, <1>3
<1>8. \E x \in S : \A y \in S : x >= y
  <2>1. \A y \in S : s[n] >= y
    BY <1>1, <1>2, <1>3, <1>6
  <2> QED BY <1>7, <2>1
<1>9. \E x \in S : \A y \in S : x =< y
  BY <1>6, <1>7
<1>10. Max(S) \in S /\ \A y \in S : Max(S) >= y
  BY <1>8 DEF Max
<1>11. Min(S) \in S /\ \A y \in S : Min(S) =< y
  BY <1>9 DEF Min
<1>12. Newest(S) = Max(S) /\ Oldest(S) = Min(S)
  BY DEF Newest, Oldest
<1>13. \A i \in S : i <= Max(S)
  BY <1>10
<1> QED BY <1>10, <1>11, <1>12, <1>13

LEMMA NewestIs ==
  ASSUME NEW S \in SUBSET Nat, IsFiniteSet(S), NEW i \in S, \A j \in S : j <= i
  PROVE  Newest(S) = i
<1>1. Newest(S) \in S /\ i <= Newest(S)
  BY NewestAndOldest
<1>2. Newest(S) <= i
  BY <1>1
<1>3. Newest(S) \in Nat /\ i \in Nat
  BY <1>1
<1> QED BY <1>1, <1>2, <1>3

LEMMA OldestIs ==
  ASSUME NEW S \in SUBSET Nat, IsFiniteSet(S), NEW i \in S, \A j \in S : i <= j
  PROVE  Oldest(S) = i
<1>1. Oldest(S) \in S /\ Oldest(S) <= i
  BY NewestAndOldest
<1>2. i <= Oldest(S)
  BY <1>1
<1>3. Oldest(S) \in Nat /\ i \in Nat
  BY <1>1
<1> QED BY <1>1, <1>2, <1>3

LEMMA LesserOfTwo ==
  ASSUME NEW a \in Nat, NEW b \in Nat
  PROVE  Min({a, b}) = IF a <= b THEN a ELSE b
<1>1. IsFiniteSet({a, b})
  <2>1. IsFiniteSet({a})
    BY FS_Singleton
  <2>2. IsFiniteSet({a} \cup {b})
    BY <2>1, FS_AddElement
  <2>3. {a, b} = {a} \cup {b}
    OBVIOUS
  <2> QED BY <2>2, <2>3
<1>2. {a, b} \in SUBSET Nat /\ {a, b} # {}
  OBVIOUS
<1>3. CASE a <= b
  BY <1>1, <1>2, <1>3, OldestIs DEF Oldest
<1>4. CASE ~(a <= b)
  BY <1>1, <1>2, <1>4, OldestIs DEF Oldest
<1> QED BY <1>3, <1>4

LEMMA GreaterOfTwo ==
  ASSUME NEW a \in Nat, NEW b \in Nat
  PROVE  Max({a, b}) = IF a <= b THEN b ELSE a
<1>1. IsFiniteSet({a, b})
  <2>1. IsFiniteSet({a})
    BY FS_Singleton
  <2>2. IsFiniteSet({a} \cup {b})
    BY <2>1, FS_AddElement
  <2>3. {a, b} = {a} \cup {b}
    OBVIOUS
  <2> QED BY <2>2, <2>3
<1>2. {a, b} \in SUBSET Nat /\ {a, b} # {}
  OBVIOUS
<1>3. CASE a <= b
  BY <1>1, <1>2, <1>3, NewestIs DEF Newest
<1>4. CASE ~(a <= b)
  BY <1>1, <1>2, <1>4, NewestIs DEF Newest
<1> QED BY <1>3, <1>4

\* The place of a number in an increasing sequence counts those up to it.
LEMMA PlaceIsRank ==
  ASSUME NEW s \in Seq(Nat), Increasing(s), NEW k \in 1..Len(s)
  PROVE  Cardinality(UpTo(ToSet(s), s[k])) = k
<1> DEFINE U == UpTo(ToSet(s), s[k])
           f == [i \in 1..k |-> s[i]]
<1>1. Len(s) \in Nat /\ DOMAIN s = 1..Len(s) /\ \A i \in 1..Len(s) : s[i] \in Nat
  BY LenProperties, ElementOfSeq
<1>2. \A i \in 1..k : i \in 1..Len(s)
  BY <1>1
<1>3. \A i \in 1..Len(s) : i <= k <=> s[i] <= s[k]
  <2> SUFFICES ASSUME NEW i \in 1..Len(s) PROVE i <= k <=> s[i] <= s[k]
    OBVIOUS
  <2>1. i < k => s[i] < s[k]
    BY <1>1 DEF Increasing
  <2>2. k < i => s[k] < s[i]
    BY <1>1 DEF Increasing
  <2> QED BY <1>1, <2>1, <2>2
<1>4. f \in [1..k -> U]
  BY <1>1, <1>2, <1>3 DEF UpTo, ToSet
<1>5. \A i, j \in 1..k : f[i] = f[j] => i = j
  <2> SUFFICES ASSUME NEW i \in 1..k, NEW j \in 1..k, s[i] = s[j], i < j PROVE FALSE
    OBVIOUS
  <2>1. s[i] < s[j]
    BY <1>1, <1>2 DEF Increasing
  <2> QED BY <1>1, <1>2, <2>1
<1>6. \A x \in U : \E i \in 1..k : f[i] = x
  <2> SUFFICES ASSUME NEW i \in 1..Len(s), s[i] <= s[k] PROVE \E j \in 1..k : f[j] = s[i]
    BY <1>1 DEF UpTo, ToSet
  <2>1. i \in 1..k
    BY <1>1, <1>3
  <2> QED BY <2>1
<1>7. f \in Bijection(1..k, U)
  BY <1>4, <1>5, <1>6 DEF Bijection, Injection, Surjection, IsInjective
<1>8. ExistsBijection(1..k, U)
  BY <1>7 DEF ExistsBijection
<1>9. k \in Nat
  BY <1>1
<1> QED BY <1>8, <1>9, FS_CountingElements

\* An increasing sequence begins with another one, if it has its numbers and
\* the rest of them is greater.
LEMMA Prefix ==
  ASSUME NEW s \in Seq(Nat), NEW t \in Seq(Nat), Increasing(s), Increasing(t),
         ToSet(s) \subseteq ToSet(t),
         \A x \in ToSet(t) : x \in ToSet(s) \/ \A y \in ToSet(s) : y < x
  PROVE  /\ Len(s) <= Len(t)
         /\ \A k \in 1..Len(s) : s[k] = t[k]
<1>1. /\ Len(s) \in Nat /\ DOMAIN s = 1..Len(s) /\ \A i \in 1..Len(s) : s[i] \in Nat
      /\ Len(t) \in Nat /\ DOMAIN t = 1..Len(t) /\ \A i \in 1..Len(t) : t[i] \in Nat
  BY LenProperties, ElementOfSeq
<1>2. ASSUME NEW k \in 1..Len(s) PROVE k \in 1..Len(t) /\ s[k] = t[k]
  <2>1. s[k] \in ToSet(s)
    BY <1>1 DEF ToSet
  <2>2. PICK m \in 1..Len(t) : t[m] = s[k]
    BY <1>1, <2>1 DEF ToSet
  <2>3. UpTo(ToSet(s), s[k]) = UpTo(ToSet(t), t[m])
    <3>1. ASSUME NEW x \in ToSet(t), x <= s[k] PROVE x \in ToSet(s)
      <4> SUFFICES ASSUME x \notin ToSet(s) PROVE FALSE
        OBVIOUS
      <4>1. s[k] < x
        BY <2>1
      <4>2. x \in Nat
        BY <1>1 DEF ToSet
      <4> QED BY <1>1, <3>1, <4>1, <4>2
    <3> QED BY <2>2, <3>1 DEF UpTo
  <2>4. Cardinality(UpTo(ToSet(s), s[k])) = k /\ Cardinality(UpTo(ToSet(t), t[m])) = m
    BY PlaceIsRank
  <2>5. k = m
    BY <2>3, <2>4
  <2> QED BY <2>2, <2>5
<1>3. Len(s) <= Len(t)
  BY <1>1, <1>2
<1> QED BY <1>2, <1>3

-----------------------------------------------------------------------------
(* The types.                                                              *)

\* What a request carries follows from its kind.
LEMMA RequestKinds ==
  ASSUME NEW r \in Requests
  PROVE  /\ r.kind = "check" => r \in CheckUserRequest /\ r.qq \in Peers
         /\ r.kind = "info" => r \in GroupInfoRequest /\ r.group \in Groups
         /\ r.kind = "text" => r \in TextMessage /\ r.qq \in Peers \cup {None} /\ r.group \in Groups \cup {None}
         /\ r.kind = "history" => /\ r \in HistoryRequest /\ r.chat \in Chat \cup {None}
                                  /\ r.offset \in Nat /\ r.range \in Nat \X Nat
         /\ r.kind = "leave" => r \in GroupLeaveRequest /\ r.group \in Groups
         /\ r.kind = "recall" => r \in RecallRequest /\ r.id \in Nat
BY DEF Requests, CheckUserRequest, GroupInfoRequest, TextMessage, HistoryRequest,
       GroupLeaveRequest, RecallRequest, OtherRequest

\* So does what a response carries.
LEMMA ResponseKinds ==
  ASSUME NEW r \in Responses
  PROVE  /\ r.kind = "ack" => r \in ServerAck
         /\ r.kind = "switch" => r.qq \in Peers
         /\ r.kind = "group" => r.group \in Groups
         /\ r.kind = "page" => /\ r \in HistoryResponse /\ r.chat \in Chat
                               /\ r.offset \in Nat /\ r.range \in Nat \X Nat
                               /\ r.shown \in Seq(Nat) /\ r.more \in BOOLEAN /\ r.all \in Seq(Nat)
                               /\ r.counted \in SUBSET Nat
BY DEF Responses, ServerAck, CheckUserResponse, GroupInfoResponse, HistoryResponse

\* The terminal never counts more messages than there were commands.
CountsBounded ==
  /\ sentCount <= commands
  /\ typing.cmd = "text" => typing.n + 1 <= commands
  /\ acking # NotRead => acking <= commands

\* Between Count and Find the request is still the first one, and what matches it
\* now was counted or came after all that was.
CountedFirst ==
  counted # NotCounted =>
    /\ requests # <<>> /\ requests[1].kind = "history" /\ requests[1].chat \in Chat
    /\ counted \subseteq DOMAIN rows
    /\ \A i \in Matching(requests[1].chat, requests[1].range), j \in counted : i < j => i \in counted

TypeInv == TerminalTypeOK /\ CountsBounded /\ CountedFirst

LEMMA TypeInit == Init => TypeInv
<1> SUFFICES ASSUME Init PROVE TypeInv
  OBVIOUS
<1>1. rows \in Seq(Row) /\ Len(rows) <= MaxRows /\ kept = DOMAIN rows
  BY TerminalAssumption DEF Init
<1>2. NoPage \in HistoryResponse \cup {NoPage}
  OBVIOUS
<1>3. <<>> \in Seq(Requests) /\ <<>> \in Seq(Responses) /\ <<>> \in Seq(Nat)
  BY EmptySeq
<1> USE TerminalAssumption DEF Init, Idle, NotRead
<1>4. /\ loggedIn \in BOOLEAN
      /\ {targetQQ, historyQQ} \subseteq Peers \cup {None}
      /\ {targetGroup, historyGroup} \subseteq Groups \cup {None}
      /\ offset \in Nat /\ range \in Ranges \cup {Everything}
  OBVIOUS
<1>5. sentCount \in 0..MaxCommands /\ acking \in 0..NotRead /\ CountsBounded
  BY DEF CountsBounded
<1>6. typing \in [cmd : {"idle", "text", "prev", "next"}, n : Nat, ofGroup : BOOLEAN]
  OBVIOUS
<1>7. /\ kept \subseteq DOMAIN rows /\ recalled \subseteq DOMAIN rows /\ member \subseteq Groups
      /\ binary \subseteq DOMAIN rows
  BY <1>1
<1>8. walk \in [next : Nat, seen : Seq(Nat), gap : BOOLEAN]
  BY <1>3
<1>9. crossed \in BOOLEAN /\ strayed \in BOOLEAN /\ raced \in BOOLEAN /\ skipped \in BOOLEAN
  BY Zenon
<1>10. commands \in 0..MaxCommands /\ events \in 0..MaxEvents
  OBVIOUS
<1>11. (counted = NotCounted \/ counted \subseteq DOMAIN rows) /\ CountedFirst
  BY DEF CountedFirst
<1> QED BY <1>1, <1>2, <1>3, <1>4, <1>5, <1>6, <1>7, <1>8, <1>9, <1>10, <1>11 DEF TypeInv, TerminalTypeOK

\* What is sent is a request, and what is answered a response.
LEMMA SendTypes ==
  ASSUME requests \in Seq(Requests), NEW r \in Requests, Send(r)
  PROVE  requests' \in Seq(Requests)
BY AppendProperties DEF Send

LEMMA ReplyTypes ==
  ASSUME responses \in Seq(Responses), NEW r \in Responses, Reply(r)
  PROVE  responses' \in Seq(Responses)
BY AppendProperties DEF Reply

LEMMA ServeTypes ==
  ASSUME requests \in Seq(Requests), NEW kind, Serve(kind)
  PROVE  /\ requests' \in Seq(Requests)
         /\ requests[1] \in Requests /\ requests[1].kind = kind
<1>1. Len(requests) \in Nat \ {0}
  BY EmptySeq DEF Serve
<1> QED BY <1>1, HeadTailProperties, ElementOfSeq DEF Serve

LEMMA ReadTypes ==
  ASSUME responses \in Seq(Responses), NEW kind, Read(kind)
  PROVE  /\ responses' \in Seq(Responses)
         /\ responses[1] \in Responses /\ responses[1].kind = kind
<1>1. Len(responses) \in Nat \ {0}
  BY EmptySeq DEF Read
<1> QED BY <1>1, HeadTailProperties, ElementOfSeq DEF Read

\* The rows keep their types when one is added, a row is recalled or deleted.
RowTypes ==
  /\ rows \in Seq(Row) /\ Len(rows) <= MaxRows
  /\ kept \subseteq DOMAIN rows /\ recalled \subseteq DOMAIN rows
  /\ member \subseteq Groups /\ binary \subseteq DOMAIN rows

LEMMA RowAdded ==
  ASSUME RowTypes, NEW r \in Row, Insert(r), recalled' = recalled, member' = member
  PROVE  RowTypes'
<1>1. /\ rows' \in Seq(Row) /\ Len(rows') = Len(rows) + 1
      /\ Len(rows) \in Nat /\ DOMAIN rows = 1..Len(rows) /\ DOMAIN rows' = 1..Len(rows')
  BY AppendProperties, LenProperties DEF RowTypes, Insert
<1>2. Len(rows') <= MaxRows
  BY <1>1, TerminalAssumption DEF Insert
<1>3. DOMAIN rows \subseteq DOMAIN rows' /\ Len(rows) + 1 \in DOMAIN rows'
  BY <1>1
<1>4. binary' \in {binary, binary \cup {Len(rows) + 1}} /\ kept' = kept \cup {Len(rows) + 1}
  BY DEF Insert
<1> QED BY <1>1, <1>2, <1>3, <1>4 DEF RowTypes

LEMMA RowTypesStep ==
  ASSUME TypeInv, [Next]_vars
  PROVE  RowTypes'
<1>1. RowTypes
  BY DEF TypeInv, TerminalTypeOK, RowTypes
<1>2. requests \in Seq(Requests)
  BY DEF TypeInv, TerminalTypeOK
<1>3. CASE UNCHANGED table
  BY <1>1, <1>3 DEF RowTypes, table
<1>4. CASE ServeText
  <2>1. requests[1].qq \in Peers \cup {None} /\ requests[1].group \in Groups \cup {None}
    BY <1>2, <1>4, ServeTypes, RequestKinds DEF ServeText
  <2>2. [from |-> Me, to |-> requests[1].qq, group |-> requests[1].group] \in Row
    BY <2>1 DEF Row
  <2> QED BY <1>1, <1>4, <2>2, RowAdded DEF ServeText
<1>5. CASE ServeLeaveGroup
  BY <1>1, <1>5 DEF ServeLeaveGroup, RowTypes
<1>6. CASE ServeRecall
  BY <1>1, <1>6 DEF ServeRecall, MayRecall, RowTypes
<1>7. ASSUME NEW peer \in Peers, NEW g \in Groups \cup {None}, Arrive(peer, g)
      PROVE  RowTypes'
  <2>1. [from |-> peer, to |-> IF g = None THEN Me ELSE None, group |-> g] \in Row
    BY DEF Row
  <2> QED BY <1>1, <1>7, <2>1, RowAdded DEF Arrive
<1>8. ASSUME NEW i \in DOMAIN rows, PeerRecalls(i) \/ Clean(i) PROVE RowTypes'
  BY <1>1, <1>8 DEF PeerRecalls, Clean, RowTypes
<1>9. ASSUME NEW g \in Groups, LeaveElsewhere(g) PROVE RowTypes'
  BY <1>1, <1>9 DEF LeaveElsewhere, RowTypes
<1>10. CASE Keyboard
  BY <1>3, <1>10 DEF Keyboard, TypeTo, TypeToGroup, TypeLeaveGroup, TypeHistory, TypeLogout, TypeOther,
       TypeRecall, BeginText, FinishText, BeginPage, FinishPage, Type, Finish
<1>11. CASE Reader
  BY <1>3, <1>11 DEF Reader, BeginAck, ReadAck, ReadSwitch, ReadNobody, ReadGroup, ReadPage, Read
<1>12. CASE Server
  BY <1>3, <1>4, <1>5, <1>6, <1>12 DEF Server, Refuse, RefuseMember, CountHistory, LosePage, ServeCheckUser, ServeGroupInfo, ServeHistory
<1>13. CASE Others
  BY <1>3, <1>7, <1>8, <1>9, <1>13 DEF Others, AckRefused
<1>14. CASE UNCHANGED vars
  BY <1>3, <1>14 DEF vars
<1> QED BY <1>10, <1>11, <1>12, <1>13, <1>14 DEF Next

\* Who is shown, and to whom the next message goes.
PlaceTypes ==
  /\ loggedIn \in BOOLEAN
  /\ {targetQQ, historyQQ} \subseteq Peers \cup {None}
  /\ {targetGroup, historyGroup} \subseteq Groups \cup {None}
  /\ offset \in Nat /\ range \in Ranges \cup {Everything}
  /\ typing \in [cmd : {"idle", "text", "prev", "next"}, n : Nat, ofGroup : BOOLEAN]

LEMMA PlaceTypesStep ==
  ASSUME TypeInv, [Next]_vars
  PROVE  PlaceTypes'
<1> USE TerminalAssumption DEF TypeInv, TerminalTypeOK, PlaceTypes
<1>1. requests \in Seq(Requests) /\ responses \in Seq(Responses)
  OBVIOUS
<1>2. CASE UNCHANGED <<loggedIn, target, context, typing>>
  BY <1>2 DEF target, context
<1>3. ASSUME NEW q \in Peers, TypeTo(q) PROVE PlaceTypes'
  BY <1>3 DEF TypeTo, LeaveGroupChat
<1>4. ASSUME NEW g \in Groups, TypeLeaveGroup(g) PROVE PlaceTypes'
  BY <1>4 DEF TypeLeaveGroup, LeaveGroupChat, target
<1>5. ASSUME NEW q \in Peers, NEW of \in Ranges, TypeHistory(q, of) PROVE PlaceTypes'
  BY <1>5 DEF TypeHistory, target
<1>6. CASE TypeLogout
  BY <1>6 DEF TypeLogout
<1>7. CASE BeginText
  <2>1. typing' = [cmd |-> "text", n |-> sentCount, ofGroup |-> FALSE]
    BY <1>7 DEF BeginText, Idle
  <2>2. UNCHANGED <<loggedIn, target, context>>
    BY <1>7 DEF BeginText
  <2> QED BY <2>1, <2>2 DEF target, context
<1>8. ASSUME NEW cmd \in {"prev", "next"}, BeginPage(cmd) PROVE PlaceTypes'
  BY <1>8 DEF BeginPage, target, context
<1>9. Idle \in [cmd : {"idle", "text", "prev", "next"}, n : Nat, ofGroup : BOOLEAN]
  BY DEF Idle
<1>10. CASE FinishText
  BY <1>9, <1>10 DEF FinishText, Finish, target
<1>11. ASSUME NEW cmd, NEW n \in Nat, FinishPage(cmd, n) PROVE PlaceTypes'
  BY <1>9, <1>11 DEF FinishPage, Finish, target
<1>12. typing.n \in Nat /\ Back(typing.n) \in Nat /\ Forth(typing.n) \in Nat
  BY DEF Back, Forth
<1>13. CASE Keyboard
  BY <1>2, <1>3, <1>4, <1>5, <1>6, <1>7, <1>8, <1>10, <1>11, <1>12, <1>13
     DEF Keyboard, TypeToGroup, TypeOther, TypeRecall
<1>14. CASE ReadAck
  <2>1. UNCHANGED <<loggedIn, targetQQ, historyQQ, range, typing>>
    BY <1>14 DEF ReadAck, Read
  <2>2. (LeaveGroupChat /\ offset' = 0) \/ UNCHANGED <<targetGroup, historyGroup, offset>>
    BY <1>14 DEF ReadAck
  <2> QED BY <2>1, <2>2 DEF LeaveGroupChat
<1>15. CASE ReadSwitch
  <2>1. responses[1].qq \in Peers
    BY <1>1, <1>15, ReadTypes, ResponseKinds DEF ReadSwitch
  <2> QED BY <1>15, <2>1 DEF ReadSwitch, Read
<1>16. CASE ReadGroup
  <2>1. responses[1].group \in Groups
    BY <1>1, <1>16, ReadTypes, ResponseKinds DEF ReadGroup
  <2> QED BY <1>16, <2>1 DEF ReadGroup, Read
<1>17. CASE Reader
  BY <1>2, <1>14, <1>15, <1>16, <1>17 DEF Reader, BeginAck, ReadNobody, ReadPage, Read
<1>18. CASE Server
  BY <1>2, <1>18 DEF Server, Refuse, RefuseMember, CountHistory, LosePage, ServeCheckUser, ServeGroupInfo, ServeText,
       ServeHistory, ServeLeaveGroup, ServeRecall, Serve
<1>19. CASE Others
  BY <1>2, <1>19 DEF Others, Arrive, PeerRecalls, Clean, LeaveElsewhere, AckRefused, Event
<1>20. CASE UNCHANGED vars
  BY <1>2, <1>20 DEF vars
<1> QED BY <1>13, <1>17, <1>18, <1>19, <1>20 DEF Next

\* The counts.
CountTypes ==
  /\ sentCount \in 0..MaxCommands /\ acking \in 0..NotRead
  /\ commands \in 0..MaxCommands /\ events \in 0..MaxEvents
  /\ CountsBounded

LEMMA CountTypesStep ==
  ASSUME TypeInv, [Next]_vars
  PROVE  CountTypes'
<1> USE TerminalAssumption DEF TypeInv, TerminalTypeOK, CountTypes, CountsBounded, NotRead
<1>1. CASE UNCHANGED <<counting, commands, events, typing>>
  BY <1>1 DEF counting
<1>2. CASE Type /\ UNCHANGED typing
  BY <1>2 DEF Type, counting
<1>3. CASE BeginText
  <2>1. typing' = [cmd |-> "text", n |-> sentCount, ofGroup |-> FALSE]
    BY <1>3 DEF BeginText, Idle
  <2>2. commands < MaxCommands /\ commands' = commands + 1 /\ UNCHANGED <<counting, events>>
    BY <1>3 DEF BeginText, Type
  <2> QED BY <2>1, <2>2 DEF counting
<1>4. ASSUME NEW cmd \in {"prev", "next"}, BeginPage(cmd) PROVE CountTypes'
  BY <1>4 DEF BeginPage, Type, counting
<1>5. CASE FinishText
  BY <1>5 DEF FinishText, Finish, Idle
<1>6. ASSUME NEW cmd, NEW n, FinishPage(cmd, n) PROVE CountTypes'
  BY <1>6 DEF FinishPage, Finish, Idle
<1>7. CASE Keyboard
  BY <1>2, <1>3, <1>4, <1>5, <1>6, <1>7 DEF Keyboard, TypeTo, TypeToGroup, TypeLeaveGroup,
       TypeHistory, TypeLogout, TypeOther, TypeRecall
<1>8. CASE BeginAck
  BY <1>8 DEF BeginAck
<1>9. CASE ReadAck
  <2>1. acking # NotRead /\ UNCHANGED <<typing, commands, events>>
    BY <1>9 DEF ReadAck, Read
  <2>2. acking' = NotRead /\ sentCount' = IF acking <= 1 THEN 0 ELSE acking - 1
    BY <1>9 DEF ReadAck, Answered
  <2>3. sentCount' \in 0..commands
    BY <2>1, <2>2
  <2> QED BY <2>1, <2>2, <2>3
<1>10. CASE Reader
  BY <1>1, <1>8, <1>9, <1>10 DEF Reader, ReadSwitch, ReadNobody, ReadGroup, ReadPage, Read
<1>11. CASE Server
  BY <1>1, <1>11 DEF Server, Refuse, RefuseMember, CountHistory, LosePage, ServeCheckUser, ServeGroupInfo, ServeText,
       ServeHistory, ServeLeaveGroup, ServeRecall, Serve
<1>12. CASE Event
  BY <1>12 DEF Event, counting
<1>13. CASE Others
  BY <1>12, <1>13 DEF Others, Arrive, PeerRecalls, Clean, LeaveElsewhere, AckRefused
<1>14. CASE UNCHANGED vars
  BY <1>1, <1>14 DEF vars
<1> QED BY <1>7, <1>10, <1>11, <1>13, <1>14 DEF Next

\* What is selected is rows in the order of their ids.
LEMMA SelectedProperties ==
  ASSUME RowTypes, NEW chat, NEW of
  PROVE  /\ Matching(chat, of) \in SUBSET Nat /\ IsFiniteSet(Matching(chat, of))
         /\ Matching(chat, of) \subseteq DOMAIN rows
         /\ Selected(chat, of) \in Seq(Nat) /\ Increasing(Selected(chat, of))
         /\ ToSet(Selected(chat, of)) = Matching(chat, of)
<1>1. DOMAIN rows = 1..Len(rows) /\ Len(rows) \in Nat
  BY LenProperties DEF RowTypes
<1>2. Matching(chat, of) \subseteq DOMAIN rows
  BY DEF Matching, Visible, RowTypes
<1>3. IsFiniteSet(1..Len(rows))
  BY <1>1, FS_Interval
<1>4. Matching(chat, of) \in SUBSET (1..Len(rows)) /\ Matching(chat, of) \in SUBSET Nat
  BY <1>1, <1>2
<1>5. IsFiniteSet(Matching(chat, of))
  BY <1>3, <1>4, FS_Subset
<1> QED BY <1>2, <1>4, <1>5, InOrderProperties DEF Selected

\* One page has what is selected from the offset on.
LEMMA WindowProperties ==
  ASSUME NEW s \in Seq(Nat), NEW o \in Nat
  PROVE  /\ Window(s, o, PageSize) \in Seq(Nat)
         /\ Len(s) \in Nat
         /\ Len(Window(s, o, PageSize)) =
              IF o + PageSize <= Len(s) THEN PageSize ELSE IF o <= Len(s) THEN Len(s) - o ELSE 0
         /\ \A i \in 1..Len(Window(s, o, PageSize)) :
              o + i \in 1..Len(s) /\ Window(s, o, PageSize)[i] = s[o + i]
<1> DEFINE top == Min({o + PageSize, Len(s)})
<1>1. Len(s) \in Nat /\ PageSize \in Nat \ {0}
  BY LenProperties, TerminalAssumption
<1>2. top = IF o + PageSize <= Len(s) THEN o + PageSize ELSE Len(s)
  BY <1>1, LesserOfTwo
<1>3. top \in Nat /\ top <= Len(s) /\ o + 1 \in Int
  BY <1>1, <1>2
<1> HIDE DEF top
<1>4. \A i \in o + 1 .. top : s[i] \in Nat
  <2> SUFFICES ASSUME NEW i \in o + 1 .. top PROVE s[i] \in Nat
    OBVIOUS
  <2>1. i \in 1..Len(s)
    BY <1>1, <1>3
  <2> QED BY <2>1, ElementOfSeq
<1>5. Window(s, o, PageSize) = SubSeq(s, o + 1, top)
  BY DEF Window, top
<1>6. /\ SubSeq(s, o + 1, top) \in Seq(Nat)
      /\ Len(SubSeq(s, o + 1, top)) = IF o + 1 <= top THEN top - (o + 1) + 1 ELSE 0
      /\ \A i \in 1..(top - (o + 1) + 1) : SubSeq(s, o + 1, top)[i] = s[o + 1 + i - 1]
  BY <1>3, <1>4, SubSeqProperties
<1>7. Len(Window(s, o, PageSize)) =
        IF o + PageSize <= Len(s) THEN PageSize ELSE IF o <= Len(s) THEN Len(s) - o ELSE 0
  BY <1>1, <1>2, <1>3, <1>5, <1>6
<1>8. ASSUME NEW i \in 1..Len(Window(s, o, PageSize))
      PROVE  o + i \in 1..Len(s) /\ Window(s, o, PageSize)[i] = s[o + i]
  <2>1. i \in 1..(top - (o + 1) + 1) /\ o + i \in 1..Len(s)
    BY <1>1, <1>3, <1>5, <1>6
  <2>2. o + 1 + i - 1 = o + i
    BY <2>1
  <2> QED BY <1>5, <1>6, <2>1, <2>2
<1> QED BY <1>1, <1>5, <1>6, <1>7, <1>8

\* The answer to a request for a page.
LEMMA PageTypes ==
  ASSUME TypeInv, counted # NotCounted
  PROVE  LET r == requests[1]
             p == PageOf(r) IN
         /\ r \in HistoryRequest /\ r \in Requests /\ r.kind = "history" /\ r.chat \in Chat
         /\ p \in HistoryResponse /\ p \in Responses /\ p.kind = "page"
         /\ p.chat = r.chat /\ p.offset = r.offset /\ p.range = r.range
         /\ p.all = Selected(r.chat, r.range) /\ p.shown = Window(p.all, p.offset, PageSize)
         /\ p.more = HasMore(Cardinality(counted), p.offset, PageSize) /\ p.counted = counted
<1> DEFINE r == requests[1]
           all == Selected(r.chat, r.range)
           p == PageOf(r)
<1>1. requests \in Seq(Requests) /\ RowTypes
  BY DEF TypeInv, TerminalTypeOK, RowTypes
<1>2. requests # <<>> /\ r.kind = "history" /\ r.chat \in Chat /\ counted \subseteq DOMAIN rows
  BY DEF TypeInv, CountedFirst
<1>3. r \in HistoryRequest /\ r \in Requests
  <2>1. r \in Requests
    BY <1>1, <1>2, HeadTailProperties, ElementOfSeq
  <2> QED BY <1>2, <2>1, RequestKinds
<1>4. all \in Seq(Nat)
  BY <1>1, SelectedProperties
<1>5. r.offset \in Nat /\ r.range \in Nat \X Nat
  BY <1>3 DEF HistoryRequest
<1>6. Window(all, r.offset, PageSize) \in Seq(Nat)
  BY <1>4, <1>5, WindowProperties
<1>7. HasMore(Cardinality(counted), r.offset, PageSize) \in BOOLEAN
  BY DEF HasMore
<1>8. counted \in SUBSET Nat
  BY <1>1, <1>2, LenProperties DEF RowTypes
<1>9. p = [kind |-> "page", chat |-> r.chat, offset |-> r.offset, range |-> r.range,
           shown |-> Window(all, r.offset, PageSize), more |-> HasMore(Cardinality(counted), r.offset, PageSize),
           all |-> all, counted |-> counted]
  BY DEF PageOf
<1>10. /\ p.kind = "page" /\ p.chat = r.chat /\ p.offset = r.offset /\ p.range = r.range
       /\ p.all = all /\ p.shown = Window(p.all, p.offset, PageSize)
       /\ p.more = HasMore(Cardinality(counted), p.offset, PageSize) /\ p.counted = counted
  BY <1>9
<1> HIDE DEF all
<1>11. p \in HistoryResponse
  BY <1>2, <1>4, <1>5, <1>6, <1>7, <1>8, <1>9 DEF HistoryResponse
<1> QED BY <1>2, <1>3, <1>10, <1>11 DEF Responses, all

LEMMA NetworkTypesStep ==
  ASSUME TypeInv, [Next]_vars
  PROVE  requests' \in Seq(Requests) /\ responses' \in Seq(Responses)
<1> DEFINE Goal == requests' \in Seq(Requests) /\ responses' \in Seq(Responses)
<1>1. requests \in Seq(Requests) /\ responses \in Seq(Responses) /\ RowTypes /\ PlaceTypes
  BY DEF TypeInv, TerminalTypeOK, RowTypes, PlaceTypes
<1>2. CASE UNCHANGED network
  BY <1>1, <1>2 DEF network
<1>3. ASSUME NEW r \in Requests, Send(r), UNCHANGED responses PROVE Goal
  BY <1>1, <1>3, SendTypes
<1>4. ASSUME NEW q \in Peers, TypeTo(q) PROVE Goal
  <2>1. [kind |-> "check", qq |-> q] \in Requests
    BY DEF Requests, CheckUserRequest
  <2> QED BY <1>3, <1>4, <2>1 DEF TypeTo, Type
<1>5. ASSUME NEW g \in Groups, TypeToGroup(g) \/ TypeLeaveGroup(g) PROVE Goal
  <2>1. [kind |-> "info", group |-> g] \in Requests /\ [kind |-> "leave", group |-> g] \in Requests
    BY DEF Requests, GroupInfoRequest, GroupLeaveRequest
  <2> QED BY <1>3, <1>5, <2>1 DEF TypeToGroup, TypeLeaveGroup, Type
<1>6. ASSUME NEW chat \in Chat \cup {None}, NEW n \in Nat, NEW of \in Ranges \cup {Everything}
      PROVE  GetHistory(chat, n, of) \in Requests
  <2>1. of \in Nat \X Nat
    BY TerminalAssumption DEF Everything
  <2> QED BY <2>1 DEF GetHistory, Requests, HistoryRequest
<1>7. ASSUME NEW q \in Peers, NEW of \in Ranges, TypeHistory(q, of) PROVE Goal
  <2>1. GetHistory(q, 0, of) \in Requests
    BY <1>6 DEF Chat
  <2> QED BY <1>3, <1>7, <2>1 DEF TypeHistory, Type
<1>8. ASSUME NEW i \in DOMAIN rows, TypeRecall(i) PROVE Goal
  <2>1. i \in Nat
    BY <1>1, LenProperties DEF RowTypes
  <2>2. [kind |-> "recall", id |-> i] \in Requests
    BY <2>1 DEF Requests, RecallRequest
  <2> QED BY <1>3, <1>8, <2>2 DEF TypeRecall, Type
<1>9. CASE TypeOther
  <2>1. [kind |-> "other"] \in Requests
    BY DEF Requests, OtherRequest
  <2> QED BY <1>3, <1>9, <2>1 DEF TypeOther, Type
<1>10. CASE FinishText
  <2>1. [kind |-> "text", qq |-> targetQQ, group |-> targetGroup] \in Requests
    BY <1>1 DEF Requests, TextMessage, PlaceTypes
  <2> QED BY <1>3, <1>10, <2>1 DEF FinishText, Finish
<1>11. ASSUME NEW cmd, NEW n \in Nat, FinishPage(cmd, n) PROVE Goal
  <2>1. historyGroup \in Chat \cup {None} /\ historyQQ \in Chat \cup {None} /\ range \in Ranges \cup {Everything}
    BY <1>1 DEF PlaceTypes, Chat
  <2>2. GetHistory(historyGroup, n, Everything) \in Requests /\ GetHistory(historyQQ, n, range) \in Requests
    BY <1>6, <2>1
  <2>3. Send(GetHistory(historyGroup, n, Everything)) \/ Send(GetHistory(historyQQ, n, range))
    BY <1>11 DEF FinishPage
  <2>4. UNCHANGED responses
    BY <1>11 DEF FinishPage, Finish
  <2> QED BY <1>3, <2>2, <2>3, <2>4
<1>12. typing.n \in Nat /\ Back(typing.n) \in Nat /\ Forth(typing.n) \in Nat
  BY <1>1, TerminalAssumption DEF Back, Forth, PlaceTypes
<1>13. CASE Keyboard
  <2>1. CASE TypeLogout \/ BeginText \/ BeginPage("prev") \/ BeginPage("next")
    BY <1>2, <2>1 DEF TypeLogout, BeginText, BeginPage, Type, network
  <2> QED BY <1>4, <1>5, <1>7, <1>8, <1>9, <1>10, <1>11, <1>12, <1>13, <2>1 DEF Keyboard
<1>14. ASSUME NEW r \in Responses, NEW kind, Serve(kind), Reply(r) PROVE Goal
  BY <1>1, <1>14, ServeTypes, ReplyTypes
<1>15. ASSUME NEW kind, NEW content \in {"not group member", "other"}
       PROVE  [kind |-> "ack", content |-> content, text |-> kind = "text"] \in Responses
  BY DEF Responses, ServerAck
<1>16. ASSUME NEW kind, Refuse(kind) \/ RefuseMember(kind) PROVE Goal
  BY <1>14, <1>15, <1>16 DEF Refuse, RefuseMember, Ack
<1>17. CASE ServeText \/ ServeLeaveGroup \/ ServeRecall
  BY <1>14, <1>15, <1>17 DEF ServeText, ServeLeaveGroup, ServeRecall, Ack
<1>18. CASE ServeCheckUser
  <2>1. requests[1].qq \in Peers
    BY <1>1, <1>18, ServeTypes, RequestKinds DEF ServeCheckUser
  <2>2. [kind |-> "switch", qq |-> requests[1].qq] \in Responses /\ [kind |-> "nobody"] \in Responses
    BY <2>1 DEF Responses, CheckUserResponse
  <2> QED BY <1>14, <1>18, <2>2 DEF ServeCheckUser
<1>19. CASE ServeGroupInfo
  <2>1. requests[1].group \in Groups
    BY <1>1, <1>19, ServeTypes, RequestKinds DEF ServeGroupInfo
  <2>2. [kind |-> "group", group |-> requests[1].group] \in Responses
    BY <2>1 DEF Responses, GroupInfoResponse
  <2> QED BY <1>14, <1>19, <2>2 DEF ServeGroupInfo
<1>20. CASE ServeHistory
  <2>1. Serve("history") /\ counted # NotCounted /\ Reply(PageOf(requests[1]))
    BY <1>20 DEF ServeHistory
  <2>2. PageOf(requests[1]) \in Responses
    BY <2>1, PageTypes
  <2> QED BY <1>14, <2>1, <2>2
<1>21. CASE CountHistory
  BY <1>2, <1>21 DEF CountHistory
<1>22. CASE LosePage
  BY <1>1, <1>22, ServeTypes DEF LosePage
<1>23. CASE Server
  BY <1>16, <1>17, <1>18, <1>19, <1>20, <1>21, <1>22, <1>23 DEF Server
<1>24. CASE BeginAck
  BY <1>2, <1>24 DEF BeginAck
<1>25. ASSUME NEW kind, Read(kind) PROVE responses' \in Seq(Responses)
  BY <1>1, <1>25, ReadTypes
<1>26. CASE ReadAck \/ ReadNobody \/ ReadPage
  BY <1>1, <1>25, <1>26 DEF ReadAck, ReadNobody, ReadPage
<1>27. CASE ReadSwitch
  <2>1. responses[1].qq \in Peers
    BY <1>1, <1>27, ReadTypes, ResponseKinds DEF ReadSwitch
  <2>2. GetHistory(responses[1].qq, 0, Everything) \in Requests
    BY <1>6, <2>1 DEF Chat
  <2> QED BY <1>1, <1>25, <1>27, <2>2, SendTypes DEF ReadSwitch
<1>28. CASE ReadGroup
  <2>1. responses[1].group \in Groups
    BY <1>1, <1>28, ReadTypes, ResponseKinds DEF ReadGroup
  <2>2. GetHistory(responses[1].group, 0, Everything) \in Requests
    BY <1>6, <2>1 DEF Chat
  <2> QED BY <1>1, <1>25, <1>28, <2>2, SendTypes DEF ReadGroup
<1>29. CASE Reader
  BY <1>24, <1>26, <1>27, <1>28, <1>29 DEF Reader
<1>30. CASE Others
  <2>1. CASE AckRefused
    BY <1>1, <1>15, <2>1, ReplyTypes DEF AckRefused, Event, Ack
  <2> QED BY <1>2, <1>30, <2>1 DEF Others, Arrive, PeerRecalls, Clean, LeaveElsewhere, Event, network
<1>31. CASE UNCHANGED vars
  BY <1>2, <1>31 DEF vars
<1> QED BY <1>13, <1>23, <1>29, <1>30, <1>31 DEF Next

-----------------------------------------------------------------------------
(* What a step does to the messages under way.                              *)

LEMMA SendEntries ==
  ASSUME requests \in Seq(Requests), NEW r \in Requests, Send(r)
  PROVE  /\ requests' \in Seq(Requests) /\ Len(requests) \in Nat /\ Len(requests') = Len(requests) + 1
         /\ DOMAIN requests = 1..Len(requests) /\ DOMAIN requests' = 1..(Len(requests) + 1)
         /\ \A i \in DOMAIN requests : requests'[i] = requests[i]
         /\ requests'[Len(requests) + 1] = r
BY AppendProperties, LenProperties DEF Send

LEMMA ReplyEntries ==
  ASSUME responses \in Seq(Responses), NEW r \in Responses, Reply(r)
  PROVE  /\ responses' \in Seq(Responses) /\ Len(responses) \in Nat /\ Len(responses') = Len(responses) + 1
         /\ DOMAIN responses = 1..Len(responses) /\ DOMAIN responses' = 1..(Len(responses) + 1)
         /\ \A i \in DOMAIN responses : responses'[i] = responses[i]
         /\ responses'[Len(responses) + 1] = r
BY AppendProperties, LenProperties DEF Reply

LEMMA ServeEntries ==
  ASSUME requests \in Seq(Requests), NEW kind, Serve(kind)
  PROVE  /\ requests' \in Seq(Requests) /\ Len(requests) \in Nat \ {0} /\ Len(requests') = Len(requests) - 1
         /\ DOMAIN requests = 1..Len(requests) /\ DOMAIN requests' = 1..(Len(requests) - 1)
         /\ \A i \in DOMAIN requests' : i + 1 \in DOMAIN requests /\ requests'[i] = requests[i + 1]
         /\ 1 \in DOMAIN requests /\ requests[1] \in Requests /\ requests[1].kind = kind
<1>1. requests # <<>> /\ requests' = Tail(requests) /\ requests[1].kind = kind
  BY DEF Serve
<1>2. Len(requests) \in Nat \ {0}
  BY <1>1, EmptySeq
<1>3. /\ requests' \in Seq(Requests) /\ Len(requests') = Len(requests) - 1
      /\ \A i \in 1..Len(requests') : requests'[i] = requests[i + 1]
  BY <1>1, HeadTailProperties
<1>4. DOMAIN requests = 1..Len(requests) /\ DOMAIN requests' = 1..Len(requests')
  BY <1>3, LenProperties
<1>5. 1 \in 1..Len(requests) /\ requests[1] \in Requests
  BY <1>2, ElementOfSeq
<1> QED BY <1>1, <1>2, <1>3, <1>4, <1>5

LEMMA ReadEntries ==
  ASSUME responses \in Seq(Responses), NEW kind, Read(kind)
  PROVE  /\ responses' \in Seq(Responses) /\ Len(responses) \in Nat \ {0} /\ Len(responses') = Len(responses) - 1
         /\ DOMAIN responses = 1..Len(responses) /\ DOMAIN responses' = 1..(Len(responses) - 1)
         /\ \A i \in DOMAIN responses' : i + 1 \in DOMAIN responses /\ responses'[i] = responses[i + 1]
         /\ 1 \in DOMAIN responses /\ responses[1] \in Responses /\ responses[1].kind = kind
<1>1. responses # <<>> /\ responses' = Tail(responses) /\ responses[1].kind = kind
  BY DEF Read
<1>2. Len(responses) \in Nat \ {0}
  BY <1>1, EmptySeq
<1>3. /\ responses' \in Seq(Responses) /\ Len(responses') = Len(responses) - 1
      /\ \A i \in 1..Len(responses') : responses'[i] = responses[i + 1]
  BY <1>1, HeadTailProperties
<1>4. DOMAIN responses = 1..Len(responses) /\ DOMAIN responses' = 1..Len(responses')
  BY <1>3, LenProperties
<1>5. 1 \in 1..Len(responses) /\ responses[1] \in Responses
  BY <1>2, ElementOfSeq
<1> QED BY <1>1, <1>2, <1>3, <1>4, <1>5

-----------------------------------------------------------------------------
(* What the steps send.                                                    *)

LEMMA HistoryRequests ==
  ASSUME NEW chat \in Chat \cup {None}, NEW n \in Nat, NEW of \in Ranges \cup {Everything}
  PROVE  GetHistory(chat, n, of) \in Requests /\ GetHistory(chat, n, of).kind = "history"
<1>1. of \in Nat \X Nat
  BY TerminalAssumption DEF Everything
<1> QED BY <1>1 DEF GetHistory, Requests, HistoryRequest

\* A line that is typed sends one request at most, of its own kind.
LEMMA KeyboardSends ==
  ASSUME TypeInv, Keyboard
  PROVE  /\ UNCHANGED responses
         /\ \/ UNCHANGED requests
            \/ \E r \in Requests :
                 /\ Send(r)
                 /\ r.kind = "check" => \E q \in Peers : TypeTo(q)
                 /\ r.kind = "text" => FinishText
                 /\ r.kind = "history" => \/ \E q \in Peers, of \in Ranges : TypeHistory(q, of)
                                          \/ FinishPage("prev", Back(typing.n))
                                          \/ FinishPage("next", Forth(typing.n))
<1> DEFINE Goal == /\ UNCHANGED responses
                   /\ \/ UNCHANGED requests
                      \/ \E r \in Requests :
                           /\ Send(r)
                           /\ r.kind = "check" => \E q \in Peers : TypeTo(q)
                           /\ r.kind = "text" => FinishText
                           /\ r.kind = "history" => \/ \E q \in Peers, of \in Ranges : TypeHistory(q, of)
                                                    \/ FinishPage("prev", Back(typing.n))
                                                    \/ FinishPage("next", Forth(typing.n))
<1>1. ASSUME NEW q \in Peers, TypeTo(q) PROVE Goal
  <2>1. [kind |-> "check", qq |-> q] \in Requests
    BY DEF Requests, CheckUserRequest
  <2>2. Send([kind |-> "check", qq |-> q]) /\ UNCHANGED responses
    BY <1>1 DEF TypeTo, Type
  <2> QED BY <1>1, <2>1, <2>2
<1>2. ASSUME NEW g \in Groups, TypeToGroup(g) PROVE Goal
  <2>1. [kind |-> "info", group |-> g] \in Requests
    BY DEF Requests, GroupInfoRequest
  <2>2. Send([kind |-> "info", group |-> g]) /\ UNCHANGED responses
    BY <1>2 DEF TypeToGroup, Type
  <2> QED BY <2>1, <2>2
<1>3. ASSUME NEW g \in Groups, TypeLeaveGroup(g) PROVE Goal
  <2>1. [kind |-> "leave", group |-> g] \in Requests
    BY DEF Requests, GroupLeaveRequest
  <2>2. Send([kind |-> "leave", group |-> g]) /\ UNCHANGED responses
    BY <1>3 DEF TypeLeaveGroup, Type
  <2> QED BY <2>1, <2>2
<1>4. ASSUME NEW q \in Peers, NEW of \in Ranges, TypeHistory(q, of) PROVE Goal
  <2>1. GetHistory(q, 0, of) \in Requests /\ GetHistory(q, 0, of).kind = "history"
    BY HistoryRequests DEF Chat
  <2>2. Send(GetHistory(q, 0, of)) /\ UNCHANGED responses
    BY <1>4 DEF TypeHistory, Type
  <2> QED BY <1>4, <2>1, <2>2
<1>5. ASSUME NEW i \in DOMAIN rows, TypeRecall(i) PROVE Goal
  <2>1. i \in Nat
    BY LenProperties DEF TypeInv, TerminalTypeOK
  <2>2. [kind |-> "recall", id |-> i] \in Requests
    BY <2>1 DEF Requests, RecallRequest
  <2>3. Send([kind |-> "recall", id |-> i]) /\ UNCHANGED responses
    BY <1>5 DEF TypeRecall, Type
  <2> QED BY <2>2, <2>3
<1>6. CASE TypeOther
  <2>1. [kind |-> "other"] \in Requests
    BY DEF Requests, OtherRequest
  <2>2. Send([kind |-> "other"]) /\ UNCHANGED responses
    BY <1>6 DEF TypeOther, Type
  <2> QED BY <2>1, <2>2
<1>7. CASE FinishText
  <2>1. [kind |-> "text", qq |-> targetQQ, group |-> targetGroup] \in Requests
    BY DEF Requests, TextMessage, TypeInv, TerminalTypeOK
  <2>2. Send([kind |-> "text", qq |-> targetQQ, group |-> targetGroup]) /\ UNCHANGED responses
    BY <1>7 DEF FinishText, Finish
  <2> QED BY <1>7, <2>1, <2>2
<1>8. ASSUME NEW cmd, NEW n \in Nat, FinishPage(cmd, n)
      PROVE  UNCHANGED responses /\ \E r \in Requests : Send(r) /\ r.kind = "history"
  <2>1. historyGroup \in Chat \cup {None} /\ historyQQ \in Chat \cup {None} /\ range \in Ranges \cup {Everything}
    BY DEF TypeInv, TerminalTypeOK, Chat
  <2> QED BY <1>8, <2>1, HistoryRequests DEF FinishPage, Finish
<1>9. Back(typing.n) \in Nat /\ Forth(typing.n) \in Nat
  BY TerminalAssumption DEF Back, Forth, TypeInv, TerminalTypeOK
<1>10. CASE FinishPage("prev", Back(typing.n)) \/ FinishPage("next", Forth(typing.n))
  BY <1>8, <1>9, <1>10
<1>11. CASE TypeLogout \/ BeginText \/ BeginPage("prev") \/ BeginPage("next")
  BY <1>11 DEF TypeLogout, BeginText, BeginPage, Type
<1> QED BY <1>1, <1>2, <1>3, <1>4, <1>5, <1>6, <1>7, <1>10, <1>11 DEF Keyboard

\* The answers to messages, accepted or refused.
TextAcks == {r \in Responses : r.kind = "ack" /\ r.text}

LEMMA Acks ==
  ASSUME NEW kind, NEW content \in {"not group member", "other"}, Ack(kind, content)
  PROVE  \E r \in Responses : Reply(r) /\ r.kind = "ack" /\ (r \in TextAcks <=> kind = "text")
<1> DEFINE r == [kind |-> "ack", content |-> content, text |-> kind = "text"]
<1>1. r \in Responses
  BY DEF Responses, ServerAck
<1>2. Reply(r)
  BY DEF Ack
<1>3. r.kind = "ack" /\ r.text = (kind = "text")
  OBVIOUS
<1>4. r \in TextAcks <=> kind = "text"
  BY <1>1, <1>3 DEF TextAcks
<1> QED BY <1>1, <1>2, <1>3, <1>4

Kinds == {"check", "info", "text", "history", "leave", "recall", "other"}

\* The server answers each request, in its turn, unless it has only counted or
\* cannot send the page.
LEMMA ServerAnswers ==
  ASSUME TypeInv, Server, ~CountHistory, ~LosePage
  PROVE  \E kind \in Kinds, r \in Responses :
           /\ Serve(kind) /\ Reply(r)
           /\ r.kind = "group" => kind = "info"
           /\ r.kind = "switch" => kind = "check"
           /\ r \in TextAcks <=> kind = "text"
           /\ r.kind = "page" => ServeHistory
           /\ kind = "history" => ServeHistory \/ (r.kind = "ack" /\ skipped')
<1> DEFINE Answer(kind, r) == /\ Serve(kind) /\ Reply(r)
                              /\ r.kind = "group" => kind = "info"
                              /\ r.kind = "switch" => kind = "check"
                              /\ r \in TextAcks <=> kind = "text"
                              /\ r.kind = "page" => ServeHistory
                              /\ kind = "history" => ServeHistory \/ (r.kind = "ack" /\ skipped')
           Goal == \E kind \in Kinds, r \in Responses : Answer(kind, r)
<1>1. requests \in Seq(Requests) /\ RowTypes
  BY DEF TypeInv, TerminalTypeOK, RowTypes
<1>2. ASSUME NEW kind \in Kinds, Refuse(kind) \/ RefuseMember(kind) PROVE Goal
  <2>1. PICK r \in Responses : Reply(r) /\ r.kind = "ack" /\ (r \in TextAcks <=> kind = "text")
    BY <1>2, Acks DEF Refuse, RefuseMember
  <2>2. Serve(kind) /\ (kind = "history" => skipped')
    BY <1>2 DEF Refuse, RefuseMember
  <2> QED BY <2>1, <2>2
<1>3. ASSUME NEW kind \in {"text", "leave", "recall"}, Serve(kind), Ack(kind, "other") PROVE Goal
  <2>1. PICK r \in Responses : Reply(r) /\ r.kind = "ack" /\ (r \in TextAcks <=> kind = "text")
    BY <1>3, Acks
  <2>2. kind \in Kinds /\ Answer(kind, r)
    BY <1>3, <2>1 DEF Kinds
  <2> QED BY <2>2
<1>4. CASE ServeText \/ ServeLeaveGroup \/ ServeRecall
  BY <1>3, <1>4 DEF ServeText, ServeLeaveGroup, ServeRecall
<1>5. CASE ServeCheckUser
  <2>1. requests[1].qq \in Peers
    BY <1>1, <1>5, ServeTypes, RequestKinds DEF ServeCheckUser
  <2>2. [kind |-> "switch", qq |-> requests[1].qq] \in Responses /\ [kind |-> "nobody"] \in Responses
    BY <2>1 DEF Responses, CheckUserResponse
  <2>3. PICK r \in Responses : Reply(r) /\ r.kind \in {"switch", "nobody"}
    BY <1>5, <2>2 DEF ServeCheckUser
  <2>4. Serve("check") /\ r \notin TextAcks
    BY <1>5, <2>3 DEF ServeCheckUser, TextAcks
  <2>5. "check" \in Kinds /\ Answer("check", r)
    BY <2>3, <2>4 DEF Kinds
  <2> QED BY <2>5
<1>6. CASE ServeGroupInfo
  <2>1. requests[1].group \in Groups
    BY <1>1, <1>6, ServeTypes, RequestKinds DEF ServeGroupInfo
  <2>2. [kind |-> "group", group |-> requests[1].group] \in Responses
    BY <2>1 DEF Responses, GroupInfoResponse
  <2>3. PICK r \in Responses : Reply(r) /\ r.kind = "group"
    BY <1>6, <2>2 DEF ServeGroupInfo
  <2>4. Serve("info") /\ r \notin TextAcks
    BY <1>6, <2>3 DEF ServeGroupInfo, TextAcks
  <2>5. "info" \in Kinds /\ Answer("info", r)
    BY <2>3, <2>4 DEF Kinds
  <2> QED BY <2>5
<1>7. CASE ServeHistory
  <2> DEFINE p == PageOf(requests[1])
  <2>1. Serve("history") /\ counted # NotCounted /\ Reply(p)
    BY <1>7 DEF ServeHistory
  <2>2. p \in Responses /\ p.kind = "page"
    BY <2>1, PageTypes
  <2> HIDE DEF p
  <2>3. p \notin TextAcks
    BY <2>2 DEF TextAcks
  <2>4. "history" \in Kinds /\ Answer("history", p)
    BY <1>7, <2>1, <2>2, <2>3 DEF Kinds
  <2> QED BY <2>2, <2>4
<1> QED BY <1>2, <1>4, <1>5, <1>6, <1>7 DEF Server, Kinds

\* The reader takes one response, and sends one request after a switch.
LEMMA ReaderReads ==
  ASSUME TypeInv, Reader
  PROVE  \/ BeginAck
         \/ \E kind \in {"ack", "switch", "nobody", "group", "page"} :
              /\ Read(kind)
              /\ kind = "ack" => ReadAck
              /\ kind = "switch" => ReadSwitch
              /\ kind = "nobody" => ReadNobody
              /\ kind = "group" => ReadGroup
              /\ kind = "page" => ReadPage
              /\ \/ UNCHANGED requests /\ kind \notin {"switch", "group"}
                 \/ /\ kind \in {"switch", "group"}
                    /\ \E r \in Requests : Send(r) /\ r.kind = "history"
<1>1. responses \in Seq(Responses)
  BY DEF TypeInv, TerminalTypeOK
<1>2. CASE ReadSwitch
  <2>1. Read("switch") /\ responses[1].qq \in Peers
    BY <1>1, <1>2, ReadTypes, ResponseKinds DEF ReadSwitch
  <2>2. /\ GetHistory(responses[1].qq, 0, Everything) \in Requests
        /\ GetHistory(responses[1].qq, 0, Everything).kind = "history"
    BY <2>1, HistoryRequests DEF Chat
  <2>3. Send(GetHistory(responses[1].qq, 0, Everything))
    BY <1>2 DEF ReadSwitch
  <2> QED BY <1>2, <2>1, <2>2, <2>3
<1>3. CASE ReadGroup
  <2>1. Read("group") /\ responses[1].group \in Groups
    BY <1>1, <1>3, ReadTypes, ResponseKinds DEF ReadGroup
  <2>2. /\ GetHistory(responses[1].group, 0, Everything) \in Requests
        /\ GetHistory(responses[1].group, 0, Everything).kind = "history"
    BY <2>1, HistoryRequests DEF Chat
  <2>3. Send(GetHistory(responses[1].group, 0, Everything))
    BY <1>3 DEF ReadGroup
  <2> QED BY <1>3, <2>1, <2>2, <2>3
<1>4. CASE ReadAck
  BY <1>4 DEF ReadAck
<1>5. CASE ReadNobody
  BY <1>5 DEF ReadNobody
<1>6. CASE ReadPage
  BY <1>6 DEF ReadPage
<1> QED BY <1>2, <1>3, <1>4, <1>5, <1>6 DEF Reader

-----------------------------------------------------------------------------
(* Between Count and Find.                                                 *)

\* Rows are added after all others; those that are gone do not come back.
LEMMA RowsStep ==
  ASSUME TypeInv, [Next]_vars
  PROVE  \/ rows' = rows /\ kept' \subseteq kept /\ recalled \subseteq recalled'
         \/ \E r \in Row : rows' = Append(rows, r) /\ kept' = kept \cup {Len(rows) + 1} /\ recalled' = recalled
<1> DEFINE Goal == \/ rows' = rows /\ kept' \subseteq kept /\ recalled \subseteq recalled'
                   \/ \E r \in Row : rows' = Append(rows, r) /\ kept' = kept \cup {Len(rows) + 1} /\ recalled' = recalled
<1>1. CASE UNCHANGED table
  BY <1>1 DEF table
<1>2. CASE ServeText
  <2>1. requests[1].qq \in Peers \cup {None} /\ requests[1].group \in Groups \cup {None}
    BY <1>2, ServeTypes, RequestKinds DEF ServeText, TypeInv, TerminalTypeOK
  <2>2. [from |-> Me, to |-> requests[1].qq, group |-> requests[1].group] \in Row
    BY <2>1 DEF Row
  <2> QED BY <1>2, <2>2 DEF ServeText, Insert
<1>3. ASSUME NEW peer \in Peers, NEW g \in Groups \cup {None}, Arrive(peer, g) PROVE Goal
  <2>1. [from |-> peer, to |-> IF g = None THEN Me ELSE None, group |-> g] \in Row
    BY DEF Row
  <2> QED BY <1>3, <2>1 DEF Arrive, Insert
<1>4. CASE ServeLeaveGroup \/ ServeRecall
  BY <1>4 DEF ServeLeaveGroup, ServeRecall
<1>5. ASSUME NEW i \in DOMAIN rows, PeerRecalls(i) \/ Clean(i) PROVE Goal
  BY <1>5 DEF PeerRecalls, Clean
<1>6. ASSUME NEW g \in Groups, LeaveElsewhere(g) PROVE Goal
  BY <1>6 DEF LeaveElsewhere
<1>7. CASE Keyboard
  BY <1>1, <1>7 DEF Keyboard, TypeTo, TypeToGroup, TypeLeaveGroup, TypeHistory, TypeLogout, TypeOther,
       TypeRecall, BeginText, FinishText, BeginPage, FinishPage, Type, Finish
<1>8. CASE Reader
  BY <1>1, <1>8 DEF Reader, BeginAck, ReadAck, ReadSwitch, ReadNobody, ReadGroup, ReadPage, Read
<1>9. CASE Server
  BY <1>1, <1>2, <1>4, <1>9 DEF Server, Refuse, RefuseMember, CountHistory, LosePage, ServeCheckUser, ServeGroupInfo, ServeHistory
<1>10. CASE Others
  BY <1>1, <1>3, <1>5, <1>6, <1>10 DEF Others, AckRefused
<1>11. CASE UNCHANGED vars
  BY <1>1, <1>11 DEF vars
<1> QED BY <1>7, <1>8, <1>9, <1>10, <1>11 DEF Next

\* What matches later matched before, or comes after all rows there were.
LEMMA MatchingStep ==
  ASSUME TypeInv, [Next]_vars
  PROVE  /\ DOMAIN rows \subseteq DOMAIN rows'
         /\ \A chat, of : \A i \in Matching(chat, of)' : i \in Matching(chat, of) \/ \A j \in DOMAIN rows : j < i
<1>1. rows \in Seq(Row) /\ DOMAIN rows = 1..Len(rows) /\ Len(rows) \in Nat /\ kept \subseteq DOMAIN rows
  BY LenProperties DEF TypeInv, TerminalTypeOK
<1>2. /\ DOMAIN rows \subseteq DOMAIN rows'
      /\ \A i \in kept' \ recalled' : \/ (i \in kept \ recalled /\ rows'[i] = rows[i])
                                      \/ \A j \in DOMAIN rows : j < i
  <2>1. CASE rows' = rows /\ kept' \subseteq kept /\ recalled \subseteq recalled'
    BY <2>1
  <2>2. ASSUME NEW r \in Row, rows' = Append(rows, r), kept' = kept \cup {Len(rows) + 1}, recalled' = recalled
        PROVE  /\ DOMAIN rows \subseteq DOMAIN rows'
               /\ \A i \in kept' \ recalled' : \/ (i \in kept \ recalled /\ rows'[i] = rows[i])
                                               \/ \A j \in DOMAIN rows : j < i
    <3>1. /\ DOMAIN rows' = 1..(Len(rows) + 1)
          /\ \A i \in 1..Len(rows) : rows'[i] = rows[i]
      BY <1>1, <2>2, AppendProperties, LenProperties
    <3>2. DOMAIN rows \subseteq DOMAIN rows'
      BY <1>1, <3>1
    <3>3. ASSUME NEW i \in kept' \ recalled'
          PROVE  (i \in kept \ recalled /\ rows'[i] = rows[i]) \/ \A j \in DOMAIN rows : j < i
      BY <1>1, <2>2, <3>1
    <3> QED BY <3>2, <3>3
  <2> QED BY <2>1, <2>2, RowsStep
<1>3. ASSUME NEW chat, NEW of, NEW i \in Matching(chat, of)'
      PROVE  i \in Matching(chat, of) \/ \A j \in DOMAIN rows : j < i
  BY <1>2 DEF Matching, Visible, InChat, IsBetween
<1> QED BY <1>2, <1>3

LEMMA FirstStays ==
  ASSUME requests \in Seq(Requests), requests # <<>>, NEW r \in Requests, Send(r)
  PROVE  requests' # <<>> /\ requests'[1] = requests[1]
<1>1. Len(requests) \in Nat \ {0}
  BY EmptySeq
<1>2. /\ Len(requests') = Len(requests) + 1 /\ requests' \in Seq(Requests)
      /\ \A i \in DOMAIN requests : requests'[i] = requests[i]
      /\ DOMAIN requests = 1..Len(requests)
  BY SendEntries
<1>3. 1 \in DOMAIN requests /\ Len(requests') # 0
  BY <1>1, <1>2
<1> QED BY <1>2, <1>3, EmptySeq

LEMMA CountedFirstStep ==
  ASSUME TypeInv, [Next]_vars
  PROVE  CountedFirst' /\ (counted' = NotCounted \/ counted' \subseteq DOMAIN rows')
<1> DEFINE Goal == CountedFirst' /\ (counted' = NotCounted \/ counted' \subseteq DOMAIN rows')
<1>1. /\ requests \in Seq(Requests) /\ RowTypes /\ CountedFirst
      /\ DOMAIN rows = 1..Len(rows) /\ Len(rows) \in Nat
  BY LenProperties DEF TypeInv, TerminalTypeOK, RowTypes
<1>2. CASE counted' = NotCounted
  BY <1>2 DEF CountedFirst
<1>3. ASSUME UNCHANGED counted, counted # NotCounted, requests' # <<>>, requests'[1] = requests[1] PROVE Goal
  <2> DEFINE q == requests[1]
  <2>1. /\ q.kind = "history" /\ q.chat \in Chat /\ counted \subseteq DOMAIN rows
        /\ \A i \in Matching(q.chat, q.range), j \in counted : i < j => i \in counted
    BY <1>1, <1>3 DEF CountedFirst
  <2>2. DOMAIN rows \subseteq DOMAIN rows'
    BY MatchingStep
  <2>3. ASSUME NEW chat, NEW of, chat = q.chat, of = q.range, NEW i \in Matching(chat, of)', NEW j \in counted, i < j
        PROVE  i \in counted
    <3>1. CASE i \in Matching(chat, of)
      BY <2>1, <2>3, <3>1
    <3>2. CASE \A k \in DOMAIN rows : k < i
      <4>1. j < i /\ j \in Nat
        BY <1>1, <2>1, <3>2
      <4>2. i \in Nat
        BY RowTypesStep, LenProperties DEF RowTypes, Matching, Visible
      <4>3. ~(i < j)
        BY <4>1, <4>2
      <4> QED BY <2>3, <4>3
    <3> QED BY <3>1, <3>2, MatchingStep
  <2>4. counted' = counted /\ counted' \subseteq DOMAIN rows'
    BY <1>3, <2>1, <2>2
  <2>5. requests'[1].chat = q.chat /\ requests'[1].range = q.range
    BY <1>3
  <2>6. \A i \in Matching(requests[1].chat, requests[1].range)', j \in counted' : i < j => i \in counted'
    BY <2>3, <2>4, <2>5
  <2> QED BY <1>3, <2>1, <2>4, <2>5, <2>6 DEF CountedFirst
<1>4. CASE UNCHANGED <<counted, requests>>
  BY <1>1, <1>2, <1>3, <1>4 DEF CountedFirst
<1>5. ASSUME NEW r \in Requests, Send(r), UNCHANGED counted PROVE Goal
  <2>1. CASE counted = NotCounted
    BY <1>2, <1>5, <2>1
  <2>2. CASE counted # NotCounted
    <3>1. requests # <<>>
      BY <1>1, <2>2 DEF CountedFirst
    <3>2. requests' # <<>> /\ requests'[1] = requests[1]
      BY <1>1, <1>5, <3>1, FirstStays
    <3> QED BY <1>3, <1>5, <2>2, <3>2
  <2> QED BY <2>1, <2>2
<1>6. CASE CountHistory
  <2> DEFINE q == requests[1]
             M == Matching(q.chat, q.range)
  <2>1. /\ requests' = requests /\ rows' = rows /\ M' = M /\ requests # <<>> /\ q.kind = "history"
        /\ q.chat \in Peers \cup member /\ counted' \in {M, {}}
    BY <1>6 DEF CountHistory, network, table, Matching, Visible, InChat, IsBetween
  <2>2. M \subseteq DOMAIN rows
    BY <1>1, SelectedProperties
  <2>3. q.chat \in Chat
    BY <1>1, <2>1 DEF Chat, RowTypes
  <2> HIDE DEF M
  <2>4. counted' \subseteq DOMAIN rows' /\ \A i \in M', j \in counted' : i < j => i \in counted'
    BY <2>1, <2>2
  <2> QED BY <2>1, <2>3, <2>4 DEF CountedFirst, M
<1>7. CASE Keyboard
  <2>1. UNCHANGED counted
    BY <1>7 DEF Keyboard, TypeTo, TypeToGroup, TypeLeaveGroup, TypeHistory, TypeLogout, TypeOther,
       TypeRecall, BeginText, FinishText, BeginPage, FinishPage, Type, Finish
  <2>2. UNCHANGED requests \/ \E r \in Requests : Send(r)
    BY <1>7, KeyboardSends
  <2> QED BY <1>4, <1>5, <2>1, <2>2
<1>8. CASE Reader
  <2>1. UNCHANGED counted
    BY <1>8 DEF Reader, BeginAck, ReadAck, ReadSwitch, ReadNobody, ReadGroup, ReadPage, Read
  <2>2. UNCHANGED requests \/ \E r \in Requests : Send(r)
    BY <1>8, ReaderReads DEF BeginAck, network
  <2> QED BY <1>4, <1>5, <2>1, <2>2
<1>9. CASE Server
  BY <1>2, <1>6, <1>9 DEF Server, Refuse, RefuseMember, LosePage, ServeCheckUser, ServeGroupInfo, ServeText,
       ServeHistory, ServeLeaveGroup, ServeRecall, Serve
<1>10. CASE Others
  BY <1>4, <1>10 DEF Others, Arrive, PeerRecalls, Clean, LeaveElsewhere, AckRefused, Event
<1>11. CASE UNCHANGED vars
  BY <1>4, <1>11 DEF vars, network
<1> QED BY <1>7, <1>8, <1>9, <1>10, <1>11 DEF Next

LEMMA DisplayTypesStep ==
  ASSUME TypeInv, [Next]_vars
  PROVE  /\ page' \in HistoryResponse \cup {NoPage}
         /\ walk' \in [next : Nat, seen : Seq(Nat), gap : BOOLEAN]
<1> DEFINE Goal == /\ page' \in HistoryResponse \cup {NoPage}
                   /\ walk' \in [next : Nat, seen : Seq(Nat), gap : BOOLEAN]
<1>1. /\ page \in HistoryResponse \cup {NoPage} /\ walk \in [next : Nat, seen : Seq(Nat), gap : BOOLEAN]
      /\ responses \in Seq(Responses)
  BY DEF TypeInv, TerminalTypeOK
<1>2. CASE UNCHANGED display
  BY <1>1, <1>2 DEF display
<1>3. CASE ReadPage
  <2> DEFINE r == responses[1]
  <2>1. r \in HistoryResponse /\ r.shown \in Seq(Nat)
    BY <1>1, <1>3, ReadTypes, ResponseKinds DEF ReadPage
  <2>2. page' = r
    BY <1>3 DEF ReadPage
  <2>3. \/ walk' = [next |-> PageSize, seen |-> r.shown, gap |-> FALSE]
        \/ walk' = [next |-> walk.next + PageSize, seen |-> walk.seen \o r.shown,
                    gap |-> walk.gap \/ Len(walk.seen) # walk.next
                              \/ ~(ToSet(walk.seen) \subseteq ToSet(r.all))]
        \/ walk' = [walk EXCEPT !.gap = TRUE]
    <3> DEFINE continues == r.offset = walk.next /\ page.more /\ r.chat = page.chat /\ r.range = page.range
               A == [next |-> PageSize, seen |-> r.shown, gap |-> FALSE]
               B == [next |-> walk.next + PageSize, seen |-> walk.seen \o r.shown,
                     gap |-> walk.gap \/ Len(walk.seen) # walk.next
                               \/ ~(ToSet(walk.seen) \subseteq ToSet(r.all))]
               C == [walk EXCEPT !.gap = TRUE]
    <3>1. walk' = CASE r.offset = 0 -> A [] r.offset > 0 /\ continues -> B [] OTHER -> C
      BY <1>3 DEF ReadPage
    <3>2. r.offset \in Nat
      BY <2>1 DEF HistoryResponse
    <3> HIDE DEF A, B, C, continues
    <3>3. walk' = A \/ walk' = B \/ walk' = C
      BY <3>1, <3>2
    <3> QED BY <3>3 DEF A, B, C
  <2>4. walk.next + PageSize \in Nat /\ PageSize \in Nat
    BY <1>1, TerminalAssumption
  <2>5. walk.seen \o r.shown \in Seq(Nat)
    BY <1>1, <2>1, ConcatProperties
  <2>6. [next |-> PageSize, seen |-> r.shown, gap |-> FALSE] \in [next : Nat, seen : Seq(Nat), gap : BOOLEAN]
    BY <2>1, <2>4
  <2>7. [next |-> walk.next + PageSize, seen |-> walk.seen \o r.shown,
         gap |-> walk.gap \/ Len(walk.seen) # walk.next
                   \/ ~(ToSet(walk.seen) \subseteq ToSet(r.all))]
          \in [next : Nat, seen : Seq(Nat), gap : BOOLEAN]
    BY <2>4, <2>5
  <2>8. [walk EXCEPT !.gap = TRUE] \in [next : Nat, seen : Seq(Nat), gap : BOOLEAN]
    BY <1>1
  <2> QED BY <2>1, <2>2, <2>3, <2>6, <2>7, <2>8
<1>4. CASE Keyboard
  BY <1>2, <1>4 DEF Keyboard, TypeTo, TypeToGroup, TypeLeaveGroup, TypeHistory, TypeLogout, TypeOther,
       TypeRecall, BeginText, FinishText, BeginPage, FinishPage, Type, Finish
<1>5. CASE Reader
  BY <1>2, <1>3, <1>5 DEF Reader, BeginAck, ReadAck, ReadSwitch, ReadNobody, ReadGroup
<1>6. CASE Server
  BY <1>2, <1>6 DEF Server, Refuse, RefuseMember, CountHistory, LosePage, ServeCheckUser, ServeGroupInfo, ServeText,
       ServeHistory, ServeLeaveGroup, ServeRecall, Serve
<1>7. CASE Others
  BY <1>2, <1>7 DEF Others, Arrive, PeerRecalls, Clean, LeaveElsewhere, AckRefused, Event
<1>8. CASE UNCHANGED vars
  BY <1>2, <1>8 DEF vars
<1> QED BY <1>4, <1>5, <1>6, <1>7, <1>8 DEF Next

ObservedTypes == crossed \in BOOLEAN /\ strayed \in BOOLEAN /\ raced \in BOOLEAN /\ skipped \in BOOLEAN

LEMMA ObservedTypesStep ==
  ASSUME TypeInv, [Next]_vars
  PROVE  ObservedTypes'
<1>1. ObservedTypes
  BY DEF TypeInv, TerminalTypeOK, ObservedTypes
<1>2. CASE UNCHANGED observed
  BY <1>1, <1>2 DEF observed, ObservedTypes
<1>3. ASSUME NEW q \in Peers, TypeTo(q) PROVE ObservedTypes'
  BY <1>1, <1>3 DEF TypeTo, Type, ObservedTypes
<1>4. ASSUME NEW g \in Groups, TypeToGroup(g) \/ TypeLeaveGroup(g) PROVE ObservedTypes'
  BY <1>2, <1>4 DEF TypeToGroup, TypeLeaveGroup, Type, observed
<1>5. ASSUME NEW q \in Peers, NEW of \in Ranges, TypeHistory(q, of) PROVE ObservedTypes'
  BY <1>1, <1>5 DEF TypeHistory, Type, ObservedTypes
<1>6. CASE TypeLogout
  BY <1>1, <1>6 DEF TypeLogout, Type, ObservedTypes
<1>7. CASE TypeOther \/ BeginText \/ BeginPage("prev") \/ BeginPage("next") \/ \E i \in DOMAIN rows : TypeRecall(i)
  BY <1>2, <1>7 DEF TypeOther, BeginText, BeginPage, TypeRecall, Type, observed
<1>8. CASE FinishText \/ FinishPage("prev", Back(typing.n)) \/ FinishPage("next", Forth(typing.n))
  BY <1>1, <1>8 DEF FinishText, FinishPage, Finish, ObservedTypes
<1>9. CASE Keyboard
  BY <1>3, <1>4, <1>5, <1>6, <1>7, <1>8, <1>9 DEF Keyboard
<1>10. ASSUME NEW kind, Refuse(kind) \/ RefuseMember(kind) PROVE ObservedTypes'
  BY <1>1, <1>10 DEF Refuse, RefuseMember, Serve, ObservedTypes
<1>11. CASE Server
  <2>1. CASE LosePage
    BY <1>1, <2>1 DEF LosePage, Serve, ObservedTypes
  <2> QED BY <1>2, <1>10, <1>11, <2>1 DEF Server, CountHistory, ServeCheckUser, ServeGroupInfo, ServeText, ServeHistory,
             ServeLeaveGroup, ServeRecall, Serve, observed
<1>12. CASE ReadAck
  BY <1>1, <1>12 DEF ReadAck, ObservedTypes
<1>13. CASE ReadSwitch \/ ReadGroup
  BY <1>1, <1>13 DEF ReadSwitch, ReadGroup, ObservedTypes
<1>14. CASE Reader
  BY <1>2, <1>12, <1>13, <1>14 DEF Reader, BeginAck, ReadNobody, ReadPage
<1>15. CASE Others
  BY <1>2, <1>15 DEF Others, Arrive, PeerRecalls, Clean, LeaveElsewhere, AckRefused, Event
<1>16. CASE UNCHANGED vars
  BY <1>2, <1>16 DEF vars
<1> QED BY <1>9, <1>11, <1>14, <1>15, <1>16 DEF Next

LEMMA TypeStep == TypeInv /\ [Next]_vars => TypeInv'
<1> SUFFICES ASSUME TypeInv, [Next]_vars PROVE TypeInv'
  OBVIOUS
<1>1. RowTypes' /\ PlaceTypes' /\ CountTypes'
  BY RowTypesStep, PlaceTypesStep, CountTypesStep
<1>2. requests' \in Seq(Requests) /\ responses' \in Seq(Responses)
  BY NetworkTypesStep
<1>3. page' \in HistoryResponse \cup {NoPage} /\ walk' \in [next : Nat, seen : Seq(Nat), gap : BOOLEAN]
  BY DisplayTypesStep
<1>4. ObservedTypes'
  BY ObservedTypesStep
<1>5. CountedFirst' /\ (counted' = NotCounted \/ counted' \subseteq DOMAIN rows')
  BY CountedFirstStep DEF CountedFirst
<1> QED BY <1>1, <1>2, <1>3, <1>4, <1>5
        DEF RowTypes, PlaceTypes, CountTypes, ObservedTypes, TypeInv, TerminalTypeOK

LEMMA TypeInvHolds == Spec => []TypeInv
BY TypeInit, TypeStep, PTL DEF Spec

\* What the terminal, the server and the messages under way hold keeps its types.
THEOREM TerminalTypeCorrect == Spec => []TerminalTypeOK
<1>1. TypeInv => TerminalTypeOK
  BY DEF TypeInv
<1> QED BY <1>1, TypeInvHolds, PTL

-----------------------------------------------------------------------------
(* The pages of the chat that the next message goes to.                    *)

LEMMA PagesFollowTargetStep ==
  ASSUME TypeInv, PagesFollowTarget, [Next]_vars
  PROVE  PagesFollowTarget'
<1> USE DEF PagesFollowTarget
<1>1. strayed \in BOOLEAN
  BY DEF TypeInv, TerminalTypeOK
<1>2. CASE UNCHANGED <<target, historyQQ, historyGroup, strayed>>
  BY <1>2 DEF target
<1>3. ASSUME NEW q \in Peers, TypeTo(q) PROVE PagesFollowTarget'
  BY <1>3 DEF TypeTo, LeaveGroupChat
<1>4. ASSUME NEW g \in Groups, TypeLeaveGroup(g) PROVE PagesFollowTarget'
  BY <1>4 DEF TypeLeaveGroup, LeaveGroupChat, target
<1>5. CASE TypeLogout \/ \E q \in Peers, of \in Ranges : TypeHistory(q, of)
  BY <1>5 DEF TypeLogout, TypeHistory
<1>6. CASE Keyboard
  BY <1>2, <1>3, <1>4, <1>5, <1>6 DEF Keyboard, TypeToGroup, TypeOther, TypeRecall, BeginText, FinishText,
       BeginPage, FinishPage, Type, Finish, context
<1>7. CASE ReadAck
  BY <1>7 DEF ReadAck, LeaveGroupChat
<1>8. CASE ReadSwitch
  BY <1>8, <1>1 DEF ReadSwitch
<1>9. CASE ReadGroup
  BY <1>9 DEF ReadGroup
<1>10. CASE Reader
  BY <1>2, <1>7, <1>8, <1>9, <1>10 DEF Reader, BeginAck, ReadNobody, ReadPage, context, observed
<1>11. CASE Server
  BY <1>2, <1>11 DEF Server, Refuse, RefuseMember, CountHistory, LosePage, ServeCheckUser, ServeGroupInfo, ServeText,
       ServeHistory, ServeLeaveGroup, ServeRecall, Serve, context, observed
<1>12. CASE Others
  BY <1>2, <1>12 DEF Others, Arrive, PeerRecalls, Clean, LeaveElsewhere, AckRefused, Event, context, observed
<1>13. CASE UNCHANGED vars
  BY <1>2, <1>13 DEF vars, context, observed
<1> QED BY <1>6, <1>10, <1>11, <1>12, <1>13 DEF Next

\* /prev and /next page through the chat that the next message goes to, since
\* the last switch, unless /history or /logout was used after it.
THEOREM PagesFollowTargetHolds == Spec => []PagesFollowTarget
<1>1. Init => PagesFollowTarget
  BY DEF Init, PagesFollowTarget
<1> QED BY <1>1, PagesFollowTargetStep, TypeInvHolds, PTL DEF Spec

-----------------------------------------------------------------------------
(* One target.                                                             *)

\* A /to that was not answered yet.
Switching ==
  \/ \E i \in DOMAIN requests : requests[i].kind = "check"
  \/ \E i \in DOMAIN responses : responses[i].kind = "switch"

\* No /togroup is before a /to on the way to the server and back.
ToIsFirst ==
  /\ \A i, j \in DOMAIN requests : i < j /\ requests[i].kind = "info" => requests[j].kind # "check"
  /\ \A i, j \in DOMAIN responses : i < j /\ responses[i].kind = "group" => responses[j].kind # "switch"
  /\ \A i \in DOMAIN responses, j \in DOMAIN requests :
       responses[i].kind = "group" => requests[j].kind # "check"

TargetInv ==
  ~crossed => /\ ToIsFirst
              /\ Switching => targetGroup = None
              /\ targetQQ = None \/ targetGroup = None

\* A request that is neither of them.
LEMMA TargetSend ==
  ASSUME TypeInv, TargetInv, NEW r \in Requests, Send(r), r.kind # "check",
         UNCHANGED <<responses, crossed>>,
         targetGroup' \in {targetGroup, None}, targetQQ' \in {targetQQ, None}
  PROVE  TargetInv'
<1> SUFFICES ASSUME ~crossed PROVE TargetInv'
  BY DEF TargetInv
<1>1. /\ Len(requests) \in Nat
      /\ DOMAIN requests = 1..Len(requests) /\ DOMAIN requests' = 1..(Len(requests) + 1)
      /\ \A i \in DOMAIN requests : requests'[i] = requests[i]
      /\ requests'[Len(requests) + 1] = r
  BY SendEntries DEF TypeInv, TerminalTypeOK
<1>2. ToIsFirst /\ (Switching => targetGroup = None) /\ (targetQQ = None \/ targetGroup = None)
  BY DEF TargetInv
<1>3. \A j \in DOMAIN requests' : requests'[j].kind = "check" => j \in DOMAIN requests /\ requests[j].kind = "check"
  BY <1>1
<1>4. \A i \in DOMAIN requests', j \in DOMAIN requests :
        i < j => i \in DOMAIN requests /\ requests'[i] = requests[i]
  BY <1>1
<1>5. ToIsFirst'
  <2>1. \A i, j \in DOMAIN requests' : i < j /\ requests'[i].kind = "info" => requests'[j].kind # "check"
    BY <1>2, <1>3, <1>4 DEF ToIsFirst
  <2>2. \A i \in DOMAIN responses', j \in DOMAIN requests' :
          responses'[i].kind = "group" => requests'[j].kind # "check"
    BY <1>2, <1>3 DEF ToIsFirst
  <2> QED BY <1>2, <2>1, <2>2 DEF ToIsFirst
<1>6. Switching' => Switching
  BY <1>3 DEF Switching
<1> QED BY <1>2, <1>5, <1>6 DEF TargetInv

LEMMA TargetTypeTo ==
  ASSUME TypeInv, TargetInv, NEW q \in Peers, TypeTo(q)
  PROVE  TargetInv'
<1> SUFFICES ASSUME ~crossed' PROVE TargetInv'
  BY DEF TargetInv
<1> DEFINE r == [kind |-> "check", qq |-> q]
<1>1. r \in Requests /\ r.kind = "check"
  BY DEF Requests, CheckUserRequest
<1>2. Send(r) /\ UNCHANGED responses /\ targetGroup' = None
  BY DEF TypeTo, Type, LeaveGroupChat
<1>3. ~crossed /\ ~Joining
  BY DEF TypeTo, TypeInv, TerminalTypeOK
<1> HIDE DEF r
<1>4. /\ Len(requests) \in Nat
      /\ DOMAIN requests = 1..Len(requests) /\ DOMAIN requests' = 1..(Len(requests) + 1)
      /\ \A i \in DOMAIN requests : requests'[i] = requests[i]
      /\ requests'[Len(requests) + 1] = r
  BY <1>1, <1>2, SendEntries DEF TypeInv, TerminalTypeOK
<1>5. \A i \in DOMAIN requests' : requests'[i].kind # "info"
  BY <1>1, <1>3, <1>4 DEF Joining
<1>6. \A i \in DOMAIN responses' : responses'[i].kind # "group"
  BY <1>2, <1>3 DEF Joining
<1>7. ToIsFirst'
  BY <1>5, <1>6 DEF ToIsFirst
<1> QED BY <1>2, <1>7 DEF TargetInv

\* A request was served.
LEMMA TargetServe ==
  ASSUME TypeInv, TargetInv, NEW kind, Serve(kind), NEW r \in Responses, Reply(r),
         r.kind = "group" => kind = "info", r.kind = "switch" => kind = "check"
  PROVE  TargetInv'
<1> SUFFICES ASSUME ~crossed PROVE TargetInv'
  BY DEF TargetInv, Serve
<1>1. /\ Len(requests) \in Nat \ {0}
      /\ DOMAIN requests = 1..Len(requests) /\ DOMAIN requests' = 1..(Len(requests) - 1)
      /\ \A i \in DOMAIN requests' : i + 1 \in DOMAIN requests /\ requests'[i] = requests[i + 1]
      /\ 1 \in DOMAIN requests /\ requests[1].kind = kind
  BY ServeEntries DEF TypeInv, TerminalTypeOK
<1>2. /\ Len(responses) \in Nat
      /\ DOMAIN responses = 1..Len(responses) /\ DOMAIN responses' = 1..(Len(responses) + 1)
      /\ \A i \in DOMAIN responses : responses'[i] = responses[i]
      /\ responses'[Len(responses) + 1] = r
  BY ReplyEntries DEF TypeInv, TerminalTypeOK
<1>3. ToIsFirst /\ (Switching => targetGroup = None) /\ (targetQQ = None \/ targetGroup = None)
  BY DEF TargetInv
<1>4. UNCHANGED <<targetQQ, targetGroup, crossed>>
  BY DEF Serve, target
<1>5. \A i \in DOMAIN responses' :
        (i \in DOMAIN responses /\ responses'[i] = responses[i]) \/ (i = Len(responses) + 1 /\ responses'[i] = r)
  BY <1>2
<1>6. Switching' => Switching
  <2>1. ASSUME NEW i \in DOMAIN responses', responses'[i].kind = "switch" PROVE Switching
    BY <1>1, <1>5, <2>1 DEF Switching
  <2>2. ASSUME NEW i \in DOMAIN requests', requests'[i].kind = "check" PROVE Switching
    BY <1>1, <2>2 DEF Switching
  <2> QED BY <2>1, <2>2 DEF Switching
<1>7. \A i, j \in DOMAIN requests' : i < j /\ requests'[i].kind = "info" => requests'[j].kind # "check"
  <2> SUFFICES ASSUME NEW i \in DOMAIN requests', NEW j \in DOMAIN requests', i < j, requests'[i].kind = "info"
               PROVE  requests'[j].kind # "check"
    OBVIOUS
  <2>1. i + 1 < j + 1
    BY <1>1
  <2>2. i + 1 \in DOMAIN requests /\ j + 1 \in DOMAIN requests /\ requests[i + 1].kind = "info"
    BY <1>1
  <2>3. requests[j + 1].kind # "check"
    BY <1>3, <2>1, <2>2 DEF ToIsFirst
  <2> QED BY <1>1, <2>3
<1>8. \A i \in DOMAIN responses', j \in DOMAIN requests' :
        responses'[i].kind = "group" => requests'[j].kind # "check"
  <2> SUFFICES ASSUME NEW i \in DOMAIN responses', NEW j \in DOMAIN requests', responses'[i].kind = "group"
               PROVE  requests[j + 1].kind # "check"
    BY <1>1
  <2>1. CASE i \in DOMAIN responses /\ responses'[i] = responses[i]
    BY <1>1, <1>3, <2>1 DEF ToIsFirst
  <2>2. CASE responses'[i] = r
    <3>1. requests[1].kind = "info" /\ 1 \in DOMAIN requests /\ j + 1 \in DOMAIN requests /\ 1 < j + 1
      BY <1>1, <2>2
    <3> QED BY <1>3, <3>1 DEF ToIsFirst
  <2> QED BY <1>5, <2>1, <2>2
<1>9. \A i, j \in DOMAIN responses' : i < j /\ responses'[i].kind = "group" => responses'[j].kind # "switch"
  <2> SUFFICES ASSUME NEW i \in DOMAIN responses', NEW j \in DOMAIN responses', i < j,
                      responses'[i].kind = "group", responses'[j].kind = "switch"
               PROVE  FALSE
    OBVIOUS
  <2>1. i \in DOMAIN responses /\ responses'[i] = responses[i]
    BY <1>2
  <2>2. CASE j \in DOMAIN responses /\ responses'[j] = responses[j]
    BY <1>3, <2>1, <2>2 DEF ToIsFirst
  <2>3. CASE responses'[j] = r
    BY <1>1, <1>3, <2>1, <2>3 DEF ToIsFirst
  <2> QED BY <1>5, <2>2, <2>3
<1>10. ToIsFirst'
  BY <1>7, <1>8, <1>9 DEF ToIsFirst
<1> QED BY <1>3, <1>4, <1>6, <1>10 DEF TargetInv

\* A response is read, and a request sent in turn perhaps.
LEMMA OrderRead ==
  ASSUME TypeInv, ToIsFirst, NEW kind, Read(kind),
         UNCHANGED requests \/ \E r \in Requests : Send(r) /\ r.kind # "check"
  PROVE  /\ ToIsFirst'
         /\ Switching' => Switching
         /\ kind = "group" => ~Switching'
         /\ kind = "switch" => Switching
<1>1. /\ Len(responses) \in Nat \ {0}
      /\ DOMAIN responses = 1..Len(responses) /\ DOMAIN responses' = 1..(Len(responses) - 1)
      /\ \A i \in DOMAIN responses' : i + 1 \in DOMAIN responses /\ responses'[i] = responses[i + 1]
      /\ 1 \in DOMAIN responses /\ responses[1].kind = kind
  BY ReadEntries DEF TypeInv, TerminalTypeOK
<1>2. \A i, j \in DOMAIN responses' : i < j /\ responses'[i].kind = "group" => responses'[j].kind # "switch"
  <2> SUFFICES ASSUME NEW i \in DOMAIN responses', NEW j \in DOMAIN responses', i < j,
                      responses'[i].kind = "group"
               PROVE  responses'[j].kind # "switch"
    OBVIOUS
  <2>1. i + 1 < j + 1
    BY <1>1
  <2> QED BY <1>1, <2>1 DEF ToIsFirst
<1>3. /\ \A j \in DOMAIN requests' : requests'[j].kind = "check" => j \in DOMAIN requests /\ requests[j].kind = "check"
      /\ \A i \in DOMAIN requests', j \in DOMAIN requests :
           i < j => i \in DOMAIN requests /\ requests'[i] = requests[i]
  <2>1. CASE UNCHANGED requests
    BY <2>1
  <2>2. ASSUME NEW r \in Requests, Send(r), r.kind # "check"
        PROVE  /\ \A j \in DOMAIN requests' :
                    requests'[j].kind = "check" => j \in DOMAIN requests /\ requests[j].kind = "check"
               /\ \A i \in DOMAIN requests', j \in DOMAIN requests :
                    i < j => i \in DOMAIN requests /\ requests'[i] = requests[i]
    <3>1. /\ Len(requests) \in Nat
          /\ DOMAIN requests = 1..Len(requests) /\ DOMAIN requests' = 1..(Len(requests) + 1)
          /\ \A i \in DOMAIN requests : requests'[i] = requests[i]
          /\ requests'[Len(requests) + 1] = r
      BY <2>2, SendEntries DEF TypeInv, TerminalTypeOK
    <3> QED BY <2>2, <3>1
  <2> QED BY <2>1, <2>2
<1>4. \A i, j \in DOMAIN requests' : i < j /\ requests'[i].kind = "info" => requests'[j].kind # "check"
  BY <1>3 DEF ToIsFirst
<1>5. ToIsFirst'
  BY <1>1, <1>2, <1>3, <1>4 DEF ToIsFirst
<1>6. Switching' => Switching
  BY <1>1, <1>3 DEF Switching
<1>7. kind = "group" => ~Switching'
  <2> SUFFICES ASSUME kind = "group" PROVE ~Switching'
    OBVIOUS
  <2>1. \A j \in DOMAIN responses' : responses'[j].kind # "switch"
    <3> SUFFICES ASSUME NEW j \in DOMAIN responses' PROVE responses[j + 1].kind # "switch"
      BY <1>1
    <3>1. 1 < j + 1
      BY <1>1
    <3> QED BY <1>1, <3>1 DEF ToIsFirst
  <2>2. \A j \in DOMAIN requests' : requests'[j].kind # "check"
    BY <1>1, <1>3 DEF ToIsFirst
  <2> QED BY <2>1, <2>2 DEF Switching
<1>8. kind = "switch" => Switching
  BY <1>1 DEF Switching
<1> QED BY <1>5, <1>6, <1>7, <1>8

\* A request was served, and the page is not sent.
LEMMA TargetLose ==
  ASSUME TypeInv, TargetInv, NEW kind, Serve(kind), UNCHANGED responses
  PROVE  TargetInv'
<1> SUFFICES ASSUME ~crossed PROVE TargetInv'
  BY DEF TargetInv, Serve
<1>1. /\ Len(requests) \in Nat \ {0}
      /\ DOMAIN requests = 1..Len(requests) /\ DOMAIN requests' = 1..(Len(requests) - 1)
      /\ \A i \in DOMAIN requests' : i + 1 \in DOMAIN requests /\ requests'[i] = requests[i + 1]
  BY ServeEntries DEF TypeInv, TerminalTypeOK
<1>2. ToIsFirst /\ (Switching => targetGroup = None) /\ (targetQQ = None \/ targetGroup = None)
  BY DEF TargetInv
<1>3. UNCHANGED <<targetQQ, targetGroup, crossed>>
  BY DEF Serve, target
<1>4. Switching' => Switching
  BY <1>1 DEF Switching
<1>5. \A i, j \in DOMAIN requests' : i < j /\ requests'[i].kind = "info" => requests'[j].kind # "check"
  <2> SUFFICES ASSUME NEW i \in DOMAIN requests', NEW j \in DOMAIN requests', i < j, requests'[i].kind = "info"
               PROVE  requests'[j].kind # "check"
    OBVIOUS
  <2>1. i + 1 < j + 1
    BY <1>1
  <2>2. i + 1 \in DOMAIN requests /\ j + 1 \in DOMAIN requests /\ requests[i + 1].kind = "info"
    BY <1>1
  <2>3. requests[j + 1].kind # "check"
    BY <1>2, <2>1, <2>2 DEF ToIsFirst
  <2> QED BY <1>1, <2>3
<1>6. ToIsFirst'
  BY <1>1, <1>2, <1>5 DEF ToIsFirst
<1> QED BY <1>2, <1>3, <1>4, <1>6 DEF TargetInv

LEMMA TargetStep ==
  ASSUME TypeInv, TargetInv, [Next]_vars
  PROVE  TargetInv'
<1>1. responses \in Seq(Responses)
  BY DEF TypeInv, TerminalTypeOK
<1>2. CASE UNCHANGED <<network, crossed>> /\ targetGroup' \in {targetGroup, None} /\ targetQQ' \in {targetQQ, None}
  <2>1. ToIsFirst' <=> ToIsFirst
    BY <1>2 DEF ToIsFirst, network
  <2>2. Switching' <=> Switching
    BY <1>2 DEF Switching, network
  <2> QED BY <1>2, <2>1, <2>2 DEF TargetInv
<1>3. CASE Keyboard
  <2>1. CASE \E q \in Peers : TypeTo(q)
    BY <2>1, TargetTypeTo
  <2>2. CASE ~\E q \in Peers : TypeTo(q)
    <3>1. targetGroup' \in {targetGroup, None} /\ targetQQ' \in {targetQQ, None} /\ UNCHANGED crossed
      BY <1>3, <2>2 DEF Keyboard, TypeToGroup, TypeLeaveGroup, TypeHistory, TypeLogout, TypeOther,
           TypeRecall, BeginText, FinishText, BeginPage, FinishPage, Finish, LeaveGroupChat, target
    <3>2. UNCHANGED responses /\ (UNCHANGED requests \/ \E r \in Requests : Send(r) /\ r.kind # "check")
      BY <1>3, <2>2, KeyboardSends
    <3> QED BY <1>2, <3>1, <3>2, TargetSend DEF network
  <2> QED BY <2>1, <2>2
<1>4. CASE Server
  <2>1. CASE CountHistory
    BY <1>2, <2>1 DEF CountHistory, target, observed
  <2>2. CASE LosePage
    BY <2>2, TargetLose DEF LosePage
  <2>3. CASE ~CountHistory /\ ~LosePage
    BY <1>4, <2>3, ServerAnswers, TargetServe
  <2> QED BY <2>1, <2>2, <2>3
<1>5. CASE BeginAck
  BY <1>2, <1>5 DEF BeginAck, target, observed
<1>6. ASSUME NEW kind, Read(kind), UNCHANGED <<requests, crossed>>,
             targetGroup' \in {targetGroup, None}, UNCHANGED targetQQ
      PROVE  TargetInv'
  BY <1>6, OrderRead DEF TargetInv
<1>7. CASE ReadAck
  BY <1>6, <1>7 DEF ReadAck, LeaveGroupChat
<1>8. CASE ReadNobody \/ ReadPage
  BY <1>6, <1>8 DEF ReadNobody, ReadPage, target, observed
<1>9. CASE ReadSwitch
  <2>1. Read("switch") /\ UNCHANGED <<targetGroup, crossed>>
    BY <1>9 DEF ReadSwitch
  <2>2. \E r \in Requests : Send(r) /\ r.kind # "check"
    <3>1. responses[1].kind = "switch"
      BY <2>1 DEF Read
    <3> QED BY <1>9, <3>1, ReaderReads DEF Reader, Read, BeginAck
  <2> QED BY <2>1, <2>2, OrderRead DEF TargetInv
<1>10. CASE ReadGroup
  <2>1. Read("group") /\ targetQQ' = None /\ UNCHANGED crossed
    BY <1>10 DEF ReadGroup
  <2>2. \E r \in Requests : Send(r) /\ r.kind # "check"
    <3>1. responses[1].kind = "group"
      BY <2>1 DEF Read
    <3> QED BY <1>10, <3>1, ReaderReads DEF Reader, Read, BeginAck
  <2> QED BY <2>1, <2>2, OrderRead DEF TargetInv
<1>11. CASE Reader
  BY <1>5, <1>7, <1>8, <1>9, <1>10, <1>11 DEF Reader
<1>12. CASE AckRefused
  <2>1. PICK r \in Responses : Reply(r) /\ r.kind = "ack"
    BY <1>12, Acks DEF AckRefused
  <2>2. /\ DOMAIN responses = 1..Len(responses) /\ DOMAIN responses' = 1..(Len(responses) + 1)
        /\ Len(responses) \in Nat
        /\ \A i \in DOMAIN responses : responses'[i] = responses[i]
        /\ responses'[Len(responses) + 1].kind = "ack"
    BY <1>1, <2>1, ReplyEntries
  <2>3. \A i \in DOMAIN responses' : responses'[i].kind # "ack" => i \in DOMAIN responses /\ responses'[i] = responses[i]
    BY <2>2
  <2>4. UNCHANGED <<requests, targetQQ, targetGroup, crossed>>
    BY <1>12 DEF AckRefused, Event, target, observed
  <2>5. ToIsFirst => ToIsFirst'
    BY <2>3, <2>4 DEF ToIsFirst
  <2>6. Switching' => Switching
    BY <2>3, <2>4 DEF Switching
  <2> QED BY <2>4, <2>5, <2>6 DEF TargetInv
<1>13. CASE Others
  <2>1. CASE UNCHANGED <<network, target, crossed>>
    BY <1>2, <2>1 DEF target
  <2> QED BY <1>12, <1>13, <2>1 DEF Others, Arrive, PeerRecalls, Clean, LeaveElsewhere, Event, network, observed
<1>14. CASE UNCHANGED vars
  BY <1>2, <1>14 DEF vars, target, observed
<1> QED BY <1>3, <1>4, <1>11, <1>13, <1>14 DEF Next

\* The next message goes to a peer or to a group, unless a /to was typed while
\* a /togroup was not answered.
THEOREM OneTargetHolds == Spec => []OneTarget
<1>1. Init => TargetInv
  BY DEF Init, TargetInv, ToIsFirst, Switching
<1>2. TargetInv => OneTarget
  BY DEF TargetInv, OneTarget
<1> QED BY <1>1, <1>2, TargetStep, TypeInvHolds, PTL DEF Spec

-----------------------------------------------------------------------------
(* The count of unanswered messages.                                       *)

\* The places at which a sequence has an element of T.
Places(s, T) == {i \in DOMAIN s : s[i] \in T}

LEMMA PlacesFinite ==
  ASSUME NEW S, NEW T, NEW s \in Seq(S)
  PROVE  IsFiniteSet(Places(s, T)) /\ Cardinality(Places(s, T)) \in Nat
<1>1. DOMAIN s = 1..Len(s) /\ Len(s) \in Nat
  BY LenProperties
<1>2. IsFiniteSet(1..Len(s))
  BY <1>1, FS_Interval
<1>3. Places(s, T) \in SUBSET (1..Len(s))
  BY <1>1 DEF Places
<1>4. IsFiniteSet(Places(s, T))
  BY <1>2, <1>3, FS_Subset
<1> QED BY <1>4, FS_CardinalityType

LEMMA PlacesAppend ==
  ASSUME NEW S, NEW T, NEW s \in Seq(S), NEW e \in S
  PROVE  Cardinality(Places(Append(s, e), T)) = Cardinality(Places(s, T)) + IF e \in T THEN 1 ELSE 0
<1> DEFINE t == Append(s, e)
           n == Len(s) + 1
<1>1. /\ t \in Seq(S) /\ DOMAIN s = 1..Len(s) /\ DOMAIN t = 1..n /\ Len(s) \in Nat
      /\ t[n] = e /\ \A i \in DOMAIN s : t[i] = s[i]
  BY AppendProperties, LenProperties
<1>2. IsFiniteSet(Places(s, T)) /\ Cardinality(Places(s, T)) \in Nat
  BY PlacesFinite
<1> HIDE DEF t
<1>3. n \notin Places(s, T)
  BY <1>1 DEF Places
<1>4. CASE e \in T
  <2>1. Places(t, T) = Places(s, T) \cup {n}
    BY <1>1, <1>4 DEF Places
  <2>2. Cardinality(Places(s, T) \cup {n}) = Cardinality(Places(s, T)) + 1
    BY <1>2, <1>3, FS_AddElement
  <2> QED BY <1>4, <2>1, <2>2 DEF t
<1>5. CASE e \notin T
  <2>1. Places(t, T) = Places(s, T)
    BY <1>1, <1>5 DEF Places
  <2> QED BY <1>2, <1>5, <2>1 DEF t
<1> QED BY <1>4, <1>5

LEMMA PlacesTail ==
  ASSUME NEW S, NEW T, NEW s \in Seq(S), s # <<>>
  PROVE  Cardinality(Places(Tail(s), T)) = Cardinality(Places(s, T)) - IF s[1] \in T THEN 1 ELSE 0
<1> DEFINE t == Tail(s)
           P == Places(s, T) \ {1}
           f == [i \in P |-> i - 1]
<1>1. /\ t \in Seq(S) /\ Len(s) \in Nat \ {0} /\ DOMAIN s = 1..Len(s)
      /\ Len(t) = Len(s) - 1 /\ DOMAIN t = 1..Len(t) /\ \A i \in 1..Len(t) : t[i] = s[i + 1]
  BY HeadTailProperties, LenProperties, EmptySeq
<1>2. IsFiniteSet(Places(s, T)) /\ Cardinality(Places(s, T)) \in Nat
  BY PlacesFinite
<1> HIDE DEF t
<1>3. \A i \in P : i - 1 \in Places(t, T)
  <2> SUFFICES ASSUME NEW i \in P PROVE i - 1 \in Places(t, T)
    OBVIOUS
  <2>1. i \in 1..Len(s) /\ i # 1 /\ s[i] \in T
    BY <1>1 DEF Places
  <2>2. i - 1 \in 1..Len(t) /\ (i - 1) + 1 = i
    BY <1>1, <2>1
  <2>3. t[i - 1] = s[i]
    BY <1>1, <2>2
  <2> QED BY <1>1, <2>1, <2>2, <2>3 DEF Places
<1>4. \A j \in Places(t, T) : j + 1 \in P /\ f[j + 1] = j
  <2> SUFFICES ASSUME NEW j \in Places(t, T) PROVE j + 1 \in P /\ f[j + 1] = j
    OBVIOUS
  <2>1. j \in 1..Len(t) /\ t[j] \in T
    BY <1>1 DEF Places
  <2>2. j + 1 \in 1..Len(s) /\ j + 1 # 1 /\ s[j + 1] = t[j] /\ (j + 1) - 1 = j
    BY <1>1, <2>1
  <2>3. j + 1 \in P
    BY <1>1, <2>1, <2>2 DEF Places
  <2> QED BY <2>2, <2>3
<1>5. P \subseteq Nat
  BY <1>1 DEF Places
<1>6. \A i, j \in P : f[i] = f[j] => i = j
  BY <1>5
<1>7. f \in [P -> Places(t, T)]
  BY <1>3
<1>8. f \in Bijection(P, Places(t, T))
  <2>1. f \in Injection(P, Places(t, T))
    BY <1>6, <1>7 DEF Injection, IsInjective
  <2>2. f \in Surjection(P, Places(t, T))
    BY <1>4, <1>7 DEF Surjection
  <2> QED BY <2>1, <2>2 DEF Bijection
<1>9. ExistsBijection(P, Places(t, T))
  BY <1>8 DEF ExistsBijection
<1>10. /\ IsFiniteSet(P)
       /\ Cardinality(P) = IF 1 \in Places(s, T) THEN Cardinality(Places(s, T)) - 1 ELSE Cardinality(Places(s, T))
  BY <1>2, FS_RemoveElement
<1> HIDE DEF P, f
<1>11. Cardinality(Places(t, T)) = Cardinality(P)
  BY <1>9, <1>10, FS_Bijection
<1>12. 1 \in Places(s, T) <=> s[1] \in T
  BY <1>1 DEF Places
<1> QED BY <1>2, <1>10, <1>11, <1>12 DEF t

\* The messages on their way to the server.
Texts == {r \in Requests : r.kind = "text"}

TextsAsked == Cardinality(Places(requests, Texts))
TextsAnswered == Cardinality(Places(responses, TextAcks))

LEMMA UnansweredIs ==
  ASSUME TypeInv
  PROVE  /\ Unanswered = TextsAsked + TextsAnswered
         /\ TextsAsked \in Nat /\ TextsAnswered \in Nat
<1>1. requests \in Seq(Requests) /\ responses \in Seq(Responses)
  BY DEF TypeInv, TerminalTypeOK
<1>2. \A i \in DOMAIN requests : requests[i] \in Requests
  BY <1>1, LenProperties, ElementOfSeq
<1>3. \A i \in DOMAIN responses : responses[i] \in Responses
  BY <1>1, LenProperties, ElementOfSeq
<1>4. Answers("text", requests) = Places(requests, Texts)
  BY <1>2 DEF Answers, Places, Texts
<1>5. {i \in Answers("ack", responses) : responses[i].text} = Places(responses, TextAcks)
  BY <1>3 DEF Answers, Places, TextAcks
<1>6. TextsAsked \in Nat /\ TextsAnswered \in Nat
  BY <1>1, PlacesFinite DEF TextsAsked, TextsAnswered
<1> QED BY <1>4, <1>5, <1>6 DEF Unanswered, TextsAsked, TextsAnswered

LEMMA AskedSend ==
  ASSUME requests \in Seq(Requests), NEW r \in Requests, Send(r)
  PROVE  TextsAsked' = TextsAsked + IF r.kind = "text" THEN 1 ELSE 0
<1>1. requests' = Append(requests, r)
  BY DEF Send
<1>2. Cardinality(Places(Append(requests, r), Texts)) = Cardinality(Places(requests, Texts)) + IF r \in Texts THEN 1 ELSE 0
  BY PlacesAppend
<1>3. r \in Texts <=> r.kind = "text"
  BY DEF Texts
<1>4. TextsAsked' = Cardinality(Places(Append(requests, r), Texts))
  BY <1>1 DEF TextsAsked
<1> QED BY <1>2, <1>3, <1>4 DEF TextsAsked

LEMMA AskedServe ==
  ASSUME requests \in Seq(Requests), NEW kind, Serve(kind)
  PROVE  TextsAsked' = TextsAsked - IF kind = "text" THEN 1 ELSE 0
<1>1. requests' = Tail(requests) /\ requests # <<>>
  BY DEF Serve
<1>2. Cardinality(Places(Tail(requests), Texts)) = Cardinality(Places(requests, Texts)) - IF requests[1] \in Texts THEN 1 ELSE 0
  BY <1>1, PlacesTail
<1>3. requests[1] \in Texts <=> kind = "text"
  BY ServeTypes DEF Texts
<1>4. TextsAsked' = Cardinality(Places(Tail(requests), Texts))
  BY <1>1 DEF TextsAsked
<1> QED BY <1>2, <1>3, <1>4 DEF TextsAsked

LEMMA AnsweredReply ==
  ASSUME responses \in Seq(Responses), NEW r \in Responses, Reply(r)
  PROVE  TextsAnswered' = TextsAnswered + IF r \in TextAcks THEN 1 ELSE 0
<1>1. responses' = Append(responses, r)
  BY DEF Reply
<1>2. Cardinality(Places(Append(responses, r), TextAcks)) = Cardinality(Places(responses, TextAcks)) + IF r \in TextAcks THEN 1 ELSE 0
  BY PlacesAppend
<1>3. TextsAnswered' = Cardinality(Places(Append(responses, r), TextAcks))
  BY <1>1 DEF TextsAnswered
<1> QED BY <1>2, <1>3 DEF TextsAnswered

LEMMA AnsweredRead ==
  ASSUME responses \in Seq(Responses), NEW kind, Read(kind)
  PROVE  /\ TextsAnswered' \in {TextsAnswered, TextsAnswered - 1}
         /\ kind # "ack" => TextsAnswered' = TextsAnswered
<1>1. responses' = Tail(responses) /\ responses # <<>>
  BY DEF Read
<1>2. Cardinality(Places(Tail(responses), TextAcks)) = Cardinality(Places(responses, TextAcks)) - IF responses[1] \in TextAcks THEN 1 ELSE 0
  BY <1>1, PlacesTail
<1>3. responses[1] \in TextAcks => kind = "ack"
  BY ReadTypes DEF TextAcks
<1>4. TextsAnswered' = Cardinality(Places(Tail(responses), TextAcks))
  BY <1>1 DEF TextsAnswered
<1>5. TextsAnswered \in Nat
  BY PlacesFinite DEF TextsAnswered
<1> QED BY <1>2, <1>3, <1>4, <1>5 DEF TextsAnswered

AnswersInv == raced \/ sentCount <= TextsAsked + TextsAnswered

LEMMA AnswersStep ==
  ASSUME TypeInv, TypeInv', AnswersInv, [Next]_vars
  PROVE  AnswersInv'
<1> DEFINE asked == TextsAsked'
           answered == TextsAnswered'
           sent == sentCount'
<1>1. requests \in Seq(Requests) /\ responses \in Seq(Responses) /\ raced \in BOOLEAN
  BY DEF TypeInv, TerminalTypeOK
<1>2. TextsAsked \in Nat /\ TextsAnswered \in Nat /\ sentCount \in Nat
  <2>1. TextsAsked \in Nat /\ TextsAnswered \in Nat
    BY UnansweredIs
  <2>2. sentCount \in Nat
    BY TerminalAssumption DEF TypeInv, TerminalTypeOK
  <2> QED BY <2>1, <2>2
<1>3. requests' \in Seq(Requests) /\ responses' \in Seq(Responses)
  BY DEF TypeInv, TerminalTypeOK
<1>4. asked \in Nat /\ answered \in Nat
  <2>1. Cardinality(Places(requests', Texts)) \in Nat /\ Cardinality(Places(responses', TextAcks)) \in Nat
    BY <1>3, PlacesFinite
  <2> QED BY <2>1 DEF TextsAsked, TextsAnswered
<1>5. sent \in Nat
  BY TerminalAssumption DEF TypeInv, TerminalTypeOK
<1>6. AnswersInv' <=> raced' \/ sent <= asked + answered
  BY DEF AnswersInv
<1>7. raced \/ sentCount <= TextsAsked + TextsAnswered
  BY DEF AnswersInv
<1> HIDE DEF asked, answered, sent
<1>8. ASSUME raced => raced',
             raced' \/ \E d \in {0, 1} : sent <= sentCount + d /\ asked + answered >= TextsAsked + TextsAnswered + d
      PROVE  AnswersInv'
  BY <1>2, <1>4, <1>5, <1>6, <1>7, <1>8
<1>9. asked = TextsAsked' /\ answered = TextsAnswered' /\ sent = sentCount'
  BY DEF asked, answered, sent
<1>10. CASE UNCHANGED network /\ UNCHANGED <<sentCount, raced>>
  <2>1. asked = TextsAsked /\ answered = TextsAnswered /\ sent = sentCount
    BY <1>9, <1>10 DEF network, TextsAsked, TextsAnswered
  <2>2. raced => raced'
    BY <1>10
  <2>3. sent <= sentCount + 0 /\ asked + answered >= TextsAsked + TextsAnswered + 0
    BY <1>2, <2>1
  <2> QED BY <1>8, <2>2, <2>3
<1>11. CASE Keyboard
  <2>1. CASE UNCHANGED requests /\ ~FinishText
    <3>1. UNCHANGED <<sentCount, raced>> \/ \E cmd, n : FinishPage(cmd, n)
      BY <1>11, <2>1 DEF Keyboard, TypeTo, TypeToGroup, TypeLeaveGroup, TypeHistory, TypeLogout, TypeOther,
         TypeRecall, BeginText, BeginPage, Type, counting
    <3>2. UNCHANGED sentCount /\ (raced => raced')
      <4>1. CASE UNCHANGED <<sentCount, raced>>
        BY <4>1
      <4>2. ASSUME NEW cmd, NEW n, FinishPage(cmd, n) PROVE UNCHANGED sentCount /\ (raced => raced')
        BY <4>2 DEF FinishPage
      <4> QED BY <3>1, <4>1, <4>2
    <3>3. UNCHANGED responses
      BY <1>11, KeyboardSends
    <3>4. asked = TextsAsked /\ answered = TextsAnswered /\ sent = sentCount
      BY <1>9, <2>1, <3>2, <3>3 DEF TextsAsked, TextsAnswered
    <3>5. sent <= sentCount + 0 /\ asked + answered >= TextsAsked + TextsAnswered + 0
      BY <1>2, <3>4
    <3> QED BY <1>8, <3>2, <3>5
  <2>2. ASSUME NEW r \in Requests, Send(r), r.kind = "text" => FinishText, ~FinishText PROVE AnswersInv'
    <3>1. UNCHANGED <<sentCount, raced>> \/ \E cmd, n : FinishPage(cmd, n)
      BY <1>11, <2>2 DEF Keyboard, TypeTo, TypeToGroup, TypeLeaveGroup, TypeHistory, TypeLogout, TypeOther,
         TypeRecall, BeginText, BeginPage, Type, counting
    <3>2. UNCHANGED sentCount /\ (raced => raced')
      <4>1. CASE UNCHANGED <<sentCount, raced>>
        BY <4>1
      <4>2. ASSUME NEW cmd, NEW n, FinishPage(cmd, n) PROVE UNCHANGED sentCount /\ (raced => raced')
        BY <4>2 DEF FinishPage
      <4> QED BY <3>1, <4>1, <4>2
    <3>3. UNCHANGED responses
      BY <1>11, KeyboardSends
    <3>4. asked = TextsAsked
      <4>1. TextsAsked' = TextsAsked + IF r.kind = "text" THEN 1 ELSE 0
        BY <1>1, <2>2, AskedSend
      <4> QED BY <1>2, <1>9, <2>2, <4>1
    <3>5. answered = TextsAnswered /\ sent = sentCount
      BY <1>9, <3>2, <3>3 DEF TextsAnswered
    <3>6. sent <= sentCount + 0 /\ asked + answered >= TextsAsked + TextsAnswered + 0
      BY <1>2, <3>4, <3>5
    <3> QED BY <1>8, <3>2, <3>6
  <2>3. CASE FinishText
    <3> DEFINE r == [kind |-> "text", qq |-> targetQQ, group |-> targetGroup]
    <3>1. r \in Requests /\ r.kind = "text"
      BY DEF Requests, TextMessage, TypeInv, TerminalTypeOK
    <3>2. Send(r) /\ UNCHANGED responses
      BY <2>3 DEF FinishText, Finish
    <3>3. sentCount' = typing.n + 1 /\ (raced => raced') /\ (raced' \/ typing.n = sentCount)
      BY <2>3 DEF FinishText
    <3> HIDE DEF r
    <3>4. TextsAsked' = TextsAsked + 1
      BY <1>1, <3>1, <3>2, AskedSend
    <3>5. asked = TextsAsked + 1 /\ answered = TextsAnswered
      BY <1>9, <3>2, <3>4 DEF TextsAnswered
    <3>6. raced' \/ sent = sentCount + 1
      BY <1>9, <3>3
    <3>7. raced' \/ (sent <= sentCount + 1 /\ asked + answered >= TextsAsked + TextsAnswered + 1)
      BY <1>2, <3>5, <3>6
    <3> QED BY <1>8, <3>3, <3>7
  <2> QED BY <1>11, <2>1, <2>2, <2>3, KeyboardSends
<1>12. CASE Server
  <2>1. CASE CountHistory
    BY <1>10, <2>1 DEF CountHistory, counting, observed
  <2>2. CASE LosePage
    <3>1. Serve("history") /\ UNCHANGED <<responses, sentCount, raced>>
      BY <2>2 DEF LosePage, Serve, counting
    <3>2. TextsAsked' = TextsAsked - IF "history" = "text" THEN 1 ELSE 0
      BY <1>1, <3>1, AskedServe
    <3>3. TextsAnswered' = TextsAnswered
      BY <3>1 DEF TextsAnswered
    <3>4. sent <= sentCount + 0 /\ asked + answered >= TextsAsked + TextsAnswered + 0
      BY <1>2, <1>9, <3>1, <3>2, <3>3
    <3>5. raced => raced'
      BY <3>1
    <3> QED BY <1>8, <3>4, <3>5
  <2>3. CASE ~CountHistory /\ ~LosePage
    <3>1. PICK kind \in Kinds, r \in Responses : Serve(kind) /\ Reply(r) /\ (r \in TextAcks <=> kind = "text")
      BY <1>12, <2>3, ServerAnswers
    <3>2. UNCHANGED <<sentCount, raced>>
      BY <3>1 DEF Serve, counting
    <3>3. TextsAsked' = TextsAsked - IF kind = "text" THEN 1 ELSE 0
      BY <1>1, <3>1, AskedServe
    <3>4. TextsAnswered' = TextsAnswered + IF r \in TextAcks THEN 1 ELSE 0
      BY <1>1, <3>1, AnsweredReply
    <3>5. sent <= sentCount + 0 /\ asked + answered >= TextsAsked + TextsAnswered + 0
      BY <1>2, <1>4, <1>9, <3>1, <3>2, <3>3, <3>4
    <3>6. raced => raced'
      BY <3>2
    <3> QED BY <1>8, <3>5, <3>6
  <2> QED BY <2>1, <2>2, <2>3
<1>13. CASE ReadAck
  <2>1. /\ acking # NotRead /\ Read("ack") /\ UNCHANGED requests
        /\ (raced => raced') /\ (raced' \/ acking = sentCount)
    BY <1>13 DEF ReadAck
  <2>2. sentCount' = IF acking <= 1 THEN 0 ELSE acking - 1
    BY <1>13 DEF ReadAck, Answered
  <2>3. TextsAnswered' \in {TextsAnswered, TextsAnswered - 1}
    BY <1>1, <2>1, AnsweredRead
  <2>4. asked = TextsAsked /\ answered \in {TextsAnswered, TextsAnswered - 1}
    BY <1>9, <2>1, <2>3 DEF TextsAsked
  <2>5. raced' \/ sent = IF sentCount <= 1 THEN 0 ELSE sentCount - 1
    <3> SUFFICES ASSUME ~raced' PROVE sent = IF sentCount <= 1 THEN 0 ELSE sentCount - 1
      OBVIOUS
    <3>1. acking = sentCount
      BY <2>1
    <3> QED BY <1>9, <2>2, <3>1
  <2>6. raced' \/ sent <= asked + answered
    BY <1>2, <1>4, <1>7, <2>1, <2>4, <2>5
  <2> QED BY <1>6, <2>6
<1>14. CASE BeginAck
  BY <1>10, <1>14 DEF BeginAck, observed
<1>15. ASSUME NEW kind \in {"switch", "nobody", "group", "page"}, Read(kind), UNCHANGED <<sentCount, raced>>,
              UNCHANGED requests \/ \E r \in Requests : Send(r) /\ r.kind = "history"
       PROVE  AnswersInv'
  <2>1. TextsAnswered' = TextsAnswered
    BY <1>1, <1>15, AnsweredRead
  <2>2. TextsAsked' = TextsAsked
    <3>1. CASE UNCHANGED requests
      BY <3>1 DEF TextsAsked
    <3>2. ASSUME NEW r \in Requests, Send(r), r.kind = "history" PROVE TextsAsked' = TextsAsked
      <4>1. TextsAsked' = TextsAsked + IF r.kind = "text" THEN 1 ELSE 0
        BY <1>1, <3>2, AskedSend
      <4> QED BY <1>2, <3>2, <4>1
    <3> QED BY <1>15, <3>1, <3>2
  <2>3. sent <= sentCount + 0 /\ asked + answered >= TextsAsked + TextsAnswered + 0
    BY <1>2, <1>9, <1>15, <2>1, <2>2
  <2>4. raced => raced'
    BY <1>15
  <2> QED BY <1>8, <2>3, <2>4
<1>16. CASE Reader
  <2>1. CASE ReadSwitch \/ ReadNobody \/ ReadGroup \/ ReadPage
    <3>1. UNCHANGED <<sentCount, raced>>
      BY <2>1 DEF ReadSwitch, ReadNobody, ReadGroup, ReadPage, counting, observed
    <3>2. \E kind \in {"switch", "nobody", "group", "page"} :
            Read(kind) /\ (UNCHANGED requests \/ \E r \in Requests : Send(r) /\ r.kind = "history")
      <4>1. responses[1].kind # "ack"
        BY <2>1 DEF ReadSwitch, ReadNobody, ReadGroup, ReadPage, Read
      <4> QED BY <1>16, <4>1, ReaderReads DEF BeginAck, Read
    <3> QED BY <1>15, <3>1, <3>2
  <2> QED BY <1>13, <1>14, <1>16, <2>1 DEF Reader
<1>17. CASE AckRefused
  <2>1. PICK r \in Responses : Reply(r) /\ r \notin TextAcks
    <3>1. Ack("delivered", "other")
      BY <1>17 DEF AckRefused
    <3>2. PICK r \in Responses : Reply(r) /\ (r \in TextAcks <=> "delivered" = "text")
      BY <3>1, Acks
    <3> QED BY <3>2
  <2>2. UNCHANGED <<requests, sentCount, raced>>
    BY <1>17 DEF AckRefused, Event, counting, observed
  <2>3. TextsAnswered' = TextsAnswered + IF r \in TextAcks THEN 1 ELSE 0
    BY <1>1, <2>1, AnsweredReply
  <2>4. TextsAsked' = TextsAsked
    BY <2>2 DEF TextsAsked
  <2>5. sent <= sentCount + 0 /\ asked + answered >= TextsAsked + TextsAnswered + 0
    BY <1>2, <1>9, <2>1, <2>2, <2>3, <2>4
  <2>6. raced => raced'
    BY <2>2
  <2> QED BY <1>8, <2>5, <2>6
<1>18. CASE Others
  <2>1. CASE UNCHANGED <<network, sentCount, raced>>
    BY <1>10, <2>1
  <2> QED BY <1>17, <1>18, <2>1 DEF Others, Arrive, PeerRecalls, Clean, LeaveElsewhere, Event,
             network, counting, observed
<1>19. CASE UNCHANGED vars
  BY <1>10, <1>19 DEF vars, counting, observed
<1> QED BY <1>11, <1>12, <1>16, <1>18, <1>19 DEF Next

\* The terminal never counts more messages than are unanswered, so that the
\* answer to the last one is displayed, unless an update of the count was lost.
THEOREM LastAnswerHolds == Spec => []LastAnswerShown
<1>1. Init => AnswersInv
  <2> SUFFICES ASSUME Init PROVE AnswersInv
    OBVIOUS
  <2>1. TypeInv /\ sentCount = 0
    BY TypeInit DEF Init
  <2>2. TextsAsked \in Nat /\ TextsAnswered \in Nat
    BY <2>1, UnansweredIs
  <2> QED BY <2>1, <2>2 DEF AnswersInv
<1>2. TypeInv /\ AnswersInv /\ [Next]_vars => AnswersInv'
  BY TypeStep, AnswersStep
<1>3. TypeInv /\ AnswersInv => LastAnswerShown
  BY UnansweredIs DEF AnswersInv, LastAnswerShown
<1> QED BY <1>1, <1>2, <1>3, TypeInvHolds, PTL DEF Spec

-----------------------------------------------------------------------------
(* What /sessions and /searchmsg show.                                     *)

\* All rows of a chat that are visible, and all that are kept.
LEMMA WholeChat ==
  ASSUME RowTypes, NEW chat
  PROVE  /\ DOMAIN rows = 1..Len(rows) /\ Len(rows) \in Nat /\ IsFiniteSet(DOMAIN rows)
         /\ Matching(chat, Everything) = {i \in Visible : InChat(i, chat)}
<1>1. DOMAIN rows = 1..Len(rows) /\ Len(rows) \in Nat /\ Len(rows) <= MaxRows
  BY LenProperties DEF RowTypes
<1>2. IsFiniteSet(DOMAIN rows)
  BY <1>1, FS_Interval
<1>3. Visible \subseteq DOMAIN rows
  BY DEF Visible, RowTypes
<1>4. \A i \in Visible : InRange(i, Everything)
  <2> SUFFICES ASSUME NEW i \in 1..Len(rows) PROVE 1 <= i /\ i <= MaxRows
    BY <1>1, <1>3 DEF InRange, Everything
  <2> QED BY <1>1, TerminalAssumption
<1> QED BY <1>1, <1>2, <1>4 DEF Matching

\* The newest of a set of rows that may be empty.
LEMMA NewestOrNone ==
  ASSUME NEW S \in SUBSET Nat, IsFiniteSet(S)
  PROVE  /\ Newest(S) \in Nat /\ \A i \in S : i <= Newest(S)
         /\ S # {} => Newest(S) \in S
         /\ S = {} => Newest(S) = 0
<1>1. CASE S = {}
  BY <1>1 DEF Newest
<1>2. CASE S # {}
  BY <1>2, NewestAndOldest
<1> QED BY <1>1, <1>2

LEMMA LastMessageIs ==
  ASSUME RowTypes, NEW chat \in Chat
  PROVE  LastMessage(chat) = Newest({i \in kept : InChat(i, chat)})
<1> DEFINE K == {i \in kept : InChat(i, chat)}
<1>1. CASE chat \in Groups
  BY <1>1 DEF LastMessage, InChat
<1>2. CASE chat \notin Groups
  <2>1. chat \in Peers /\ chat # Me
    BY <1>2, TerminalAssumption DEF Chat
  <2>2. IsFiniteSet(DOMAIN rows) /\ DOMAIN rows \subseteq Nat
    BY WholeChat
  <2>3. \A i \in kept : rows[i] \in Row
    BY ElementOfSeq, LenProperties DEF RowTypes
  <2>4. K = Sent(chat) \cup Received(chat)
    <3>1. ASSUME NEW i \in kept PROVE InChat(i, chat) <=> i \in Sent(chat) \/ i \in Received(chat)
      <4>1. rows[i] \in Row
        BY <2>3
      <4>2. InChat(i, chat) <=> rows[i].group = None /\ {rows[i].from, rows[i].to} = {Me, chat}
        BY <1>2 DEF InChat, IsBetween
      <4>3. {rows[i].from, rows[i].to} = {Me, chat} <=>
              (rows[i].from = Me /\ rows[i].to = chat) \/ (rows[i].from = chat /\ rows[i].to = Me)
        BY <2>1
      <4>4. i \in Sent(chat) <=> rows[i].from = Me /\ rows[i].to = chat /\ rows[i].group = None
        BY <4>1 DEF Sent, Row
      <4>5. i \in Received(chat) <=> rows[i].from = chat /\ rows[i].to = Me /\ rows[i].group = None
        BY <4>1 DEF Received, Row
      <4> QED BY <4>2, <4>3, <4>4, <4>5
    <3> QED BY <3>1 DEF Sent, Received
  <2>5. Sent(chat) \in SUBSET DOMAIN rows /\ Received(chat) \in SUBSET DOMAIN rows /\ K \in SUBSET DOMAIN rows
    BY DEF Sent, Received, RowTypes
  <2>6. /\ Sent(chat) \in SUBSET Nat /\ IsFiniteSet(Sent(chat))
        /\ Received(chat) \in SUBSET Nat /\ IsFiniteSet(Received(chat))
        /\ K \in SUBSET Nat /\ IsFiniteSet(K)
    BY <2>2, <2>5, FS_Subset
  <2> DEFINE a == Newest(Sent(chat))
             b == Newest(Received(chat))
  <2>7. /\ a \in Nat /\ \A i \in Sent(chat) : i <= a
        /\ Sent(chat) # {} => a \in Sent(chat)
        /\ Sent(chat) = {} => a = 0
    BY <2>6, NewestOrNone
  <2>8. /\ b \in Nat /\ \A i \in Received(chat) : i <= b
        /\ Received(chat) # {} => b \in Received(chat)
        /\ Received(chat) = {} => b = 0
    BY <2>6, NewestOrNone
  <2>9. LastMessage(chat) = Max({a, b})
    BY <1>2 DEF LastMessage
  <2>10. Max({a, b}) = IF a <= b THEN b ELSE a
    BY <2>7, <2>8, GreaterOfTwo
  <2> HIDE DEF a, b
  <2>11. CASE K = {}
    <3>1. Newest(K) = 0
      BY <2>11 DEF Newest
    <3>2. a = 0 /\ b = 0
      BY <2>4, <2>7, <2>8, <2>11
    <3> QED BY <2>9, <2>10, <3>1, <3>2
  <2>12. CASE K # {}
    <3>1. \A i \in K : i <= a \/ i <= b
      BY <2>4, <2>7, <2>8
    <3>2. \A i \in K : i <= Max({a, b})
      <4> SUFFICES ASSUME NEW i \in K PROVE i <= Max({a, b})
        OBVIOUS
      <4>1. i \in Nat
        BY <2>6
      <4> QED BY <2>7, <2>8, <2>10, <3>1, <4>1
    <3>3. Max({a, b}) \in K
      <4>1. PICK i \in K : TRUE
        BY <2>12
      <4>2. i \in Nat /\ i # 0
        BY <2>5, WholeChat
      <4>3. i <= Max({a, b})
        BY <3>2
      <4>4. CASE a <= b
        <5>1. b # 0
          BY <2>8, <2>10, <4>2, <4>3, <4>4
        <5> QED BY <2>4, <2>8, <2>10, <4>4, <5>1
      <4>5. CASE ~(a <= b)
        <5>1. a # 0
          BY <2>7, <2>8, <4>5
        <5> QED BY <2>4, <2>7, <2>10, <4>5, <5>1
      <4> QED BY <4>4, <4>5
    <3>4. Newest(K) = Max({a, b})
      BY <2>6, <3>2, <3>3, NewestIs
    <3> QED BY <2>9, <3>4
  <2> QED BY <2>11, <2>12
<1> QED BY <1>1, <1>2

LEMMA SessionsFromTypes ==
  ASSUME RowTypes
  PROVE  SessionsShowNewest
<1> SUFFICES ASSUME NEW chat \in Peers \cup member
             PROVE  LET history == ToSet(Selected(chat, Everything)) IN
                    /\ history # {} => \E s \in SessionList(member) : s.chat = chat
                    /\ \A s \in SessionList(member) : s.chat = chat /\ s.last # Newest(history) =>
                         s.last > Newest(history) /\ s.last \in recalled
  BY DEF SessionsShowNewest
<1> DEFINE V == ToSet(Selected(chat, Everything))
           K == {i \in kept : InChat(i, chat)}
<1>1. chat \in Chat
  BY DEF RowTypes, Chat
<1>2. V = Matching(chat, Everything) /\ V \in SUBSET Nat /\ IsFiniteSet(V)
  BY SelectedProperties
<1>3. /\ IsFiniteSet(DOMAIN rows) /\ DOMAIN rows \subseteq Nat \ {0}
      /\ V = {i \in Visible : InChat(i, chat)}
  BY <1>2, WholeChat
<1>4. K \in SUBSET DOMAIN rows
  BY DEF RowTypes
<1>5. K \in SUBSET Nat /\ IsFiniteSet(K)
  BY <1>3, <1>4, FS_Subset
<1>6. V \subseteq K /\ \A i \in K : i \in V \/ i \in recalled
  BY <1>3 DEF Visible
<1>7. LastMessage(chat) = Newest(K)
  BY <1>1, LastMessageIs
<1>8. \A s \in SessionList(member) : s.chat = chat => s.last = Newest(K)
  BY <1>7 DEF SessionList
<1>9. /\ Newest(K) \in Nat /\ \A i \in K : i <= Newest(K)
      /\ K # {} => Newest(K) \in K
      /\ K = {} => Newest(K) = 0
  BY <1>5, NewestOrNone
<1>10. /\ Newest(V) \in Nat /\ \A i \in V : i <= Newest(V)
       /\ V # {} => Newest(V) \in V
       /\ V = {} => Newest(V) = 0
  BY <1>2, NewestOrNone
<1> HIDE DEF V, K
<1>11. ASSUME V # {} PROVE \E s \in SessionList(member) : s.chat = chat
  <2>1. K # {}
    BY <1>6, <1>11
  <2>2. LastMessage(chat) # 0
    BY <1>3, <1>4, <1>7, <1>9, <2>1
  <2>3. chat \in member \cup {p \in Peers : LastMessage(p) # 0}
    BY <2>2
  <2>4. [chat |-> chat, last |-> LastMessage(chat)] \in SessionList(member)
    BY <2>3 DEF SessionList
  <2> QED BY <2>4
<1>12. ASSUME Newest(K) # Newest(V) PROVE Newest(K) > Newest(V) /\ Newest(K) \in recalled
  <2>1. K # {}
    BY <1>6, <1>9, <1>10, <1>12
  <2>2. Newest(V) <= Newest(K)
    BY <1>6, <1>9, <1>10
  <2>3. Newest(K) > Newest(V)
    BY <1>9, <1>10, <1>12, <2>2
  <2>4. Newest(K) \notin V
    BY <1>9, <1>10, <2>3
  <2> QED BY <1>6, <1>9, <2>1, <2>3, <2>4
<1>13. \A s \in SessionList(member) : s.chat = chat /\ s.last # Newest(V) => s.last > Newest(V) /\ s.last \in recalled
  BY <1>8, <1>12
<1> QED BY <1>11, <1>13 DEF V

\* The neighbours of a place in an increasing sequence.
LEMMA Neighbours ==
  ASSUME NEW h \in Seq(Nat), Increasing(h), IsFiniteSet(ToSet(h)), 0 \notin ToSet(h), NEW k \in DOMAIN h
  PROVE  /\ {l \in DOMAIN h : h[l] = Newest({j \in ToSet(h) : j < h[k]})} = {k - 1} \cap DOMAIN h
         /\ {l \in DOMAIN h : h[l] = Oldest({j \in ToSet(h) : j > h[k]})} = {k + 1} \cap DOMAIN h
<1> DEFINE B == {j \in ToSet(h) : j < h[k]}
           A == {j \in ToSet(h) : j > h[k]}
<1>1. DOMAIN h = 1..Len(h) /\ Len(h) \in Nat /\ \A i \in 1..Len(h) : h[i] \in Nat /\ h[i] \in ToSet(h)
  BY LenProperties, ElementOfSeq DEF ToSet
<1>2. \A x \in ToSet(h) : \E i \in 1..Len(h) : h[i] = x
  BY <1>1 DEF ToSet
<1>3. \A i, j \in 1..Len(h) : i < j <=> h[i] < h[j]
  <2> SUFFICES ASSUME NEW i \in 1..Len(h), NEW j \in 1..Len(h) PROVE i < j <=> h[i] < h[j]
    OBVIOUS
  <2>1. i < j => h[i] < h[j]
    BY <1>1 DEF Increasing
  <2>2. j < i => h[j] < h[i]
    BY <1>1 DEF Increasing
  <2> QED BY <1>1, <2>1, <2>2
<1>4. \A i, j \in 1..Len(h) : h[i] = h[j] => i = j
  <2> SUFFICES ASSUME NEW i \in 1..Len(h), NEW j \in 1..Len(h), h[i] = h[j], i # j PROVE FALSE
    OBVIOUS
  <2>1. i < j \/ j < i
    OBVIOUS
  <2> QED BY <1>1, <1>3, <2>1
<1>5. ToSet(h) \in SUBSET Nat
  BY <1>1, <1>2
<1>6. B \in SUBSET Nat /\ IsFiniteSet(B) /\ A \in SUBSET Nat /\ IsFiniteSet(A)
  <2>1. B \in SUBSET ToSet(h) /\ A \in SUBSET ToSet(h)
    OBVIOUS
  <2> QED BY <1>5, <2>1, FS_Subset
<1>7. {l \in DOMAIN h : h[l] = Newest(B)} = {k - 1} \cap DOMAIN h
  <2>1. CASE k = 1
    <3>1. B = {}
      <4> SUFFICES ASSUME NEW i \in 1..Len(h), h[i] < h[1] PROVE FALSE
        BY <1>2, <2>1
      <4> QED BY <1>1, <1>3, <2>1
    <3>2. Newest(B) = 0
      BY <3>1 DEF Newest
    <3>3. k - 1 \notin DOMAIN h
      BY <1>1, <2>1
    <3>4. \A l \in DOMAIN h : h[l] # 0
      BY <1>1
    <3> QED BY <3>2, <3>3, <3>4
  <2>2. CASE k # 1
    <3>1. k - 1 \in 1..Len(h)
      BY <1>1, <2>2
    <3>2. h[k - 1] \in B
      BY <1>1, <1>3, <3>1
    <3>3. \A j \in B : j <= h[k - 1]
      <4> SUFFICES ASSUME NEW i \in 1..Len(h), h[i] < h[k] PROVE h[i] <= h[k - 1]
        BY <1>2
      <4>1. i < k
        BY <1>1, <1>3
      <4>2. i = k - 1 \/ i < k - 1
        BY <1>1, <4>1
      <4> QED BY <1>1, <1>3, <3>1, <4>2
    <3>4. Newest(B) = h[k - 1]
      BY <1>6, <3>2, <3>3, NewestIs
    <3> QED BY <1>1, <1>4, <3>1, <3>4
  <2> QED BY <2>1, <2>2
<1>8. {l \in DOMAIN h : h[l] = Oldest(A)} = {k + 1} \cap DOMAIN h
  <2>1. CASE k = Len(h)
    <3>1. A = {}
      <4> SUFFICES ASSUME NEW i \in 1..Len(h), h[i] > h[k] PROVE FALSE
        BY <1>2
      <4>1. k < i
        BY <1>1, <1>3
      <4> QED BY <1>1, <2>1, <4>1
    <3>2. Oldest(A) = 0
      BY <3>1 DEF Oldest
    <3>3. k + 1 \notin DOMAIN h
      BY <1>1, <2>1
    <3>4. \A l \in DOMAIN h : h[l] # 0
      BY <1>1
    <3> QED BY <3>2, <3>3, <3>4
  <2>2. CASE k # Len(h)
    <3>1. k + 1 \in 1..Len(h)
      BY <1>1, <2>2
    <3>2. h[k + 1] \in A
      BY <1>1, <1>3, <3>1
    <3>3. \A j \in A : h[k + 1] <= j
      <4> SUFFICES ASSUME NEW i \in 1..Len(h), h[i] > h[k] PROVE h[k + 1] <= h[i]
        BY <1>2
      <4>1. k < i
        BY <1>1, <1>3
      <4>2. i = k + 1 \/ k + 1 < i
        BY <1>1, <4>1
      <4> QED BY <1>1, <1>3, <3>1, <4>2
    <3>4. Oldest(A) = h[k + 1]
      BY <1>6, <3>2, <3>3, OldestIs
    <3> QED BY <1>1, <1>4, <3>1, <3>4
  <2> QED BY <2>1, <2>2
<1> QED BY <1>7, <1>8

LEMMA ContextFromTypes ==
  ASSUME RowTypes
  PROVE  ContextIsNeighbour
<1> SUFFICES ASSUME NEW chat \in Chat, NEW i, NEW k \in DOMAIN Selected(chat, Everything),
                    Selected(chat, Everything)[k] = i
             PROVE  LET h == Selected(chat, Everything)
                        after == {l \in DOMAIN h : h[l] = ContextAfter(i)} IN
                    /\ {l \in DOMAIN h : h[l] = ContextBefore(i)} = {k - 1} \cap DOMAIN h
                    /\ chat \in Peers => after = {k + 1} \cap DOMAIN h
                    /\ chat \in Groups => \A j \in DOMAIN h :
                         j > k /\ (after = {} \/ \E a \in after : j < a) => ~SamePair(i, h[j])
  BY DEF ContextIsNeighbour, SearchResults
<1> DEFINE h == Selected(chat, Everything)
           V == ToSet(h)
           after == {l \in DOMAIN h : h[l] = ContextAfter(i)}
           A == {j \in Visible : j > i /\ SamePair(i, j) /\ rows[j].group = rows[i].group}
<1>1. /\ h \in Seq(Nat) /\ Increasing(h) /\ V = Matching(chat, Everything)
      /\ V \in SUBSET Nat /\ IsFiniteSet(V)
  BY SelectedProperties
<1>2. V = {j \in Visible : InChat(j, chat)} /\ DOMAIN rows = 1..Len(rows) /\ IsFiniteSet(DOMAIN rows)
  BY <1>1, WholeChat
<1>3. 0 \notin V
  BY <1>2 DEF Visible, RowTypes
<1>4. i \in V
  BY DEF ToSet
<1>5. /\ {l \in DOMAIN h : h[l] = Newest({j \in V : j < i})} = {k - 1} \cap DOMAIN h
      /\ {l \in DOMAIN h : h[l] = Oldest({j \in V : j > i})} = {k + 1} \cap DOMAIN h
  <2>1. IsFiniteSet(ToSet(h)) /\ 0 \notin ToSet(h) /\ k \in DOMAIN h /\ h[k] = i
    BY <1>1, <1>3
  <2> HIDE DEF h
  <2>2. /\ {l \in DOMAIN h : h[l] = Newest({j \in ToSet(h) : j < h[k]})} = {k - 1} \cap DOMAIN h
        /\ {l \in DOMAIN h : h[l] = Oldest({j \in ToSet(h) : j > h[k]})} = {k + 1} \cap DOMAIN h
    BY <1>1, <2>1, Neighbours
  <2> QED BY <2>1, <2>2
<1>6. InChat(i, chat) /\ chat # None
  BY <1>2, <1>4, TerminalAssumption DEF Chat
<1>7. ContextBefore(i) = Newest({j \in V : j < i})
  <2>1. ASSUME NEW j \in Visible
        PROVE  InChat(j, chat) <=> (IF rows[i].group # None THEN rows[j].group = rows[i].group
                                    ELSE IsBetween(j, rows[i].from, rows[i].to))
    <3>1. CASE chat \in Groups
      BY <1>6, <3>1 DEF InChat
    <3>2. CASE chat \notin Groups
      BY <1>6, <3>2 DEF InChat, IsBetween
    <3> QED BY <3>1, <3>2
  <2>2. {j \in V : j < i} = {j \in Visible : /\ j < i
                                            /\ IF rows[i].group # None THEN rows[j].group = rows[i].group
                                               ELSE IsBetween(j, rows[i].from, rows[i].to)}
    BY <1>2, <2>1
  <2> QED BY <2>2 DEF ContextBefore
<1>8. ContextAfter(i) = Oldest(A)
  BY DEF ContextAfter
<1>9. ASSUME chat \in Peers PROVE after = {k + 1} \cap DOMAIN h
  <2>1. chat \notin Groups
    BY <1>9, TerminalAssumption
  <2>2. \A j \in Visible : InChat(j, chat) <=> SamePair(i, j) /\ rows[j].group = rows[i].group
    BY <1>6, <2>1 DEF InChat, IsBetween, SamePair
  <2>3. A = {j \in V : j > i}
    BY <1>2, <2>2
  <2> QED BY <1>5, <1>8, <2>3
<1>10. ASSUME chat \in Groups, NEW j \in DOMAIN h, j > k, after = {} \/ \E a \in after : j < a, SamePair(i, h[j])
       PROVE  FALSE
  <2>1. \A l \in Visible : InChat(l, chat) <=> rows[l].group = rows[i].group
    BY <1>6, <1>10 DEF InChat
  <2>2. A = {l \in V : l > i /\ SamePair(i, l)}
    BY <1>2, <2>1
  <2>3. h[j] \in V /\ h[j] \in Nat /\ i \in Nat /\ k \in Nat /\ j \in Nat
    BY <1>1, LenProperties DEF ToSet
  <2>4. i < h[j]
    BY <1>1, <1>10, <2>3 DEF Increasing
  <2>5. h[j] \in A
    BY <1>10, <2>2, <2>3, <2>4
  <2>6. A \in SUBSET V
    BY <2>2
  <2>7. A \in SUBSET Nat /\ IsFiniteSet(A) /\ A # {}
    BY <1>1, <2>5, <2>6, FS_Subset
  <2>8. Oldest(A) \in A /\ \A l \in A : Oldest(A) <= l
    BY <2>7, NewestAndOldest
  <2>9. PICK a \in DOMAIN h : h[a] = Oldest(A)
    BY <2>6, <2>8 DEF ToSet
  <2>10. a \in after
    BY <1>8, <2>9
  <2>11. PICK b \in after : j < b
    BY <1>10, <2>10
  <2>12. h[j] < h[b] /\ h[b] = Oldest(A)
    BY <1>1, <1>8, <2>11 DEF Increasing
  <2>13. Oldest(A) <= h[j] /\ Oldest(A) \in Nat
    BY <2>5, <2>7, <2>8
  <2> QED BY <2>3, <2>12, <2>13
<1> QED BY <1>5, <1>7, <1>9, <1>10

\* /sessions lists every chat that has a history, with the last row of it, or a
\* later one that was recalled.
THEOREM SessionsShowNewestHolds == Spec => []SessionsShowNewest
<1>1. TypeInv => SessionsShowNewest
  BY SessionsFromTypes DEF TypeInv, TerminalTypeOK, RowTypes
<1> QED BY <1>1, TypeInvHolds, PTL

\* The rows that a search shows around a row are its neighbours in the history of
\* its chat; in a group, the one after is the sender's next.
THEOREM ContextIsNeighbourHolds == Spec => []ContextIsNeighbour
<1>1. TypeInv => ContextIsNeighbour
  BY ContextFromTypes DEF TypeInv, TerminalTypeOK, RowTypes
<1> QED BY <1>1, TypeInvHolds, PTL

-----------------------------------------------------------------------------
(* The pages that follow each other.                                       *)

\* The page on the screen, the pages that arrive, and all else under way.
View == [k \in 0..(Len(responses) + Len(requests)) |->
           IF k = 0 THEN page ELSE IF k <= Len(responses) THEN responses[k] ELSE requests[k - Len(responses)]]

IsPaging(e) == e.kind \in {"page", "history"}
NonePaging(E, k, l) == \A j \in DOMAIN E : k < j /\ j < l => ~IsPaging(E[j])

Near(a, b) ==
  a.chat = b.chat /\ a.range = b.range =>
    b.offset \in {0, a.offset, a.offset + PageSize} \/ a.offset = b.offset + PageSize

\* Of the entries 0..n, those about pages are neighbours of those before them.
Chained(E, n) ==
  \A k, l \in 0..n : k < l /\ IsPaging(E[k]) /\ IsPaging(E[l]) /\ NonePaging(E, k, l)
    => E[k].chat = None \/ Near(E[k], E[l])

\* The last of them is at an offset o, if it is of a chat that has the context.
EndsAt(E, n, o, ofGroup, ofQQ, of) ==
  \A k \in 0..n : IsPaging(E[k]) /\ NonePaging(E, k, n + 1) /\ E[k].chat # None =>
    \/ E[k].offset = o
    \/ ~(E[k].chat = ofGroup /\ E[k].range = Everything) /\ ~(E[k].chat = ofQQ /\ E[k].range = of)

UnderWay == Len(responses) + Len(requests)

PagesLinked ==
  /\ Chained(View, UnderWay)
  /\ EndsAt(View, UnderWay, offset, historyGroup, historyQQ, range)

StepInv == raced \/ skipped \/ PagesLinked
Alike(a, b) ==
  IsPaging(a) /\ IsPaging(b) /\ a.chat = b.chat /\ a.range = b.range /\ a.offset = b.offset

\* The entries of F that are about pages are those of E, in the same order and
\* up to the last one of them; what comes before the first one may be missing.
Carries(E, F, n, m, g) ==
  /\ DOMAIN E = 0..n /\ DOMAIN F = 0..m
  /\ \A k \in 0..m : IsPaging(F[k]) => g[k] \in 0..n /\ Alike(F[k], E[g[k]])
  /\ \A k, l \in 0..m : k < l /\ IsPaging(F[k]) /\ IsPaging(F[l]) => g[k] < g[l]
  /\ \A k \in 0..m, j \in 0..n : IsPaging(F[k]) /\ IsPaging(E[j]) /\ g[k] < j =>
       \E l \in 0..m : k < l /\ IsPaging(F[l]) /\ g[l] = j

\* Entries that are neighbours stay so when all others come and go.
LEMMA ChainedKept ==
  ASSUME NEW E, NEW F, NEW n \in Nat, NEW m \in Nat, NEW g, Carries(E, F, n, m, g)
  PROVE  /\ Chained(E, n) => Chained(F, m)
         /\ \A o, h, q, of : EndsAt(E, n, o, h, q, of) => EndsAt(F, m, o, h, q, of)
<1> USE DEF Carries
<1>1. ASSUME NEW k \in 0..m, NEW l \in 0..m, k < l, IsPaging(F[k]), IsPaging(F[l]), NonePaging(F, k, l)
      PROVE  NonePaging(E, g[k], g[l])
  <2> SUFFICES ASSUME NEW j \in 0..n, g[k] < j, j < g[l], IsPaging(E[j]) PROVE FALSE
    BY DEF NonePaging
  <2>1. PICK i \in 0..m : k < i /\ IsPaging(F[i]) /\ g[i] = j
    BY <1>1
  <2>2. ~(i < l)
    BY <1>1, <2>1 DEF NonePaging
  <2>3. g[l] \in 0..n
    BY <1>1
  <2>4. i = l \/ l < i
    BY <2>2
  <2>5. l < i => g[l] < g[i]
    BY <1>1, <2>1
  <2> QED BY <2>1, <2>3, <2>4, <2>5
<1>2. ASSUME Chained(E, n) PROVE Chained(F, m)
  <2> SUFFICES ASSUME NEW k \in 0..m, NEW l \in 0..m, k < l, IsPaging(F[k]), IsPaging(F[l]), NonePaging(F, k, l)
               PROVE  F[k].chat = None \/ Near(F[k], F[l])
    BY DEF Chained
  <2>1. NonePaging(E, g[k], g[l])
    BY <1>1
  <2>2. g[k] \in 0..n /\ g[l] \in 0..n /\ g[k] < g[l] /\ Alike(F[k], E[g[k]]) /\ Alike(F[l], E[g[l]])
    OBVIOUS
  <2>3. E[g[k]].chat = None \/ Near(E[g[k]], E[g[l]])
    BY <1>2, <2>1, <2>2 DEF Chained, Alike
  <2> QED BY <2>2, <2>3 DEF Alike, Near
<1>3. ASSUME NEW o, NEW h, NEW q, NEW of, EndsAt(E, n, o, h, q, of) PROVE EndsAt(F, m, o, h, q, of)
  <2> SUFFICES ASSUME NEW k \in 0..m, IsPaging(F[k]), NonePaging(F, k, m + 1), F[k].chat # None
               PROVE  \/ F[k].offset = o
                      \/ ~(F[k].chat = h /\ F[k].range = Everything) /\ ~(F[k].chat = q /\ F[k].range = of)
    BY DEF EndsAt
  <2>1. g[k] \in 0..n /\ Alike(F[k], E[g[k]])
    OBVIOUS
  <2>2. NonePaging(E, g[k], n + 1)
    <3> SUFFICES ASSUME NEW j \in 0..n, g[k] < j, IsPaging(E[j]) PROVE FALSE
      BY DEF NonePaging
    <3>1. PICK i \in 0..m : k < i /\ IsPaging(F[i])
      OBVIOUS
    <3>2. i < m + 1
      OBVIOUS
    <3> QED BY <3>1, <3>2 DEF NonePaging
  <2> QED BY <1>3, <2>1, <2>2 DEF EndsAt, Alike
<1> QED BY <1>2, <1>3

\* A request that is sent becomes the last one.
LEMMA ChainedSend ==
  ASSUME NEW E, NEW F, NEW n \in Nat, DOMAIN E = 0..n, DOMAIN F = 0..(n + 1),
         \A k \in 0..n : F[k] = E[k], IsPaging(F[n + 1]), Chained(E, n),
         \A k \in 0..n : IsPaging(E[k]) /\ NonePaging(E, k, n + 1) => E[k].chat = None \/ Near(E[k], F[n + 1])
  PROVE  /\ Chained(F, n + 1)
         /\ \A o, h, q, of : F[n + 1].offset = o => EndsAt(F, n + 1, o, h, q, of)
<1>1. ASSUME NEW k \in 0..n, NEW l \in 0..(n + 1), NonePaging(F, k, l) PROVE NonePaging(E, k, l)
  BY <1>1 DEF NonePaging
<1>2. Chained(F, n + 1)
  <2> SUFFICES ASSUME NEW k \in 0..(n + 1), NEW l \in 0..(n + 1), k < l, IsPaging(F[k]), IsPaging(F[l]),
                      NonePaging(F, k, l)
               PROVE  F[k].chat = None \/ Near(F[k], F[l])
    BY DEF Chained
  <2>1. k \in 0..n /\ F[k] = E[k] /\ NonePaging(E, k, l)
    BY <1>1
  <2>2. CASE l = n + 1
    BY <2>1, <2>2
  <2>3. CASE l # n + 1
    <3>1. l \in 0..n /\ F[l] = E[l]
      BY <2>3
    <3> QED BY <2>1, <3>1 DEF Chained
  <2> QED BY <2>2, <2>3
<1>3. ASSUME NEW o, NEW h, NEW q, NEW of, F[n + 1].offset = o PROVE EndsAt(F, n + 1, o, h, q, of)
  <2> SUFFICES ASSUME NEW k \in 0..(n + 1), IsPaging(F[k]), NonePaging(F, k, (n + 1) + 1) PROVE k = n + 1
    BY <1>3 DEF EndsAt
  <2>1. n + 1 \in 0..(n + 1) /\ n + 1 < (n + 1) + 1
    OBVIOUS
  <2>2. ~(k < n + 1)
    BY <2>1 DEF NonePaging
  <2> QED BY <2>2
<1> QED BY <1>2, <1>3

\* Who follows the context from an end to a neighbour of it.
LEMMA NearTheEnd ==
  ASSUME NEW E, NEW n \in Nat, NEW o \in Nat, NEW h, NEW q, NEW of, EndsAt(E, n, o, h, q, of),
         NEW r, (r.chat = h /\ r.range = Everything) \/ (r.chat = q /\ r.range = of),
         r.offset \in {0, o, o + PageSize} \/ o = r.offset + PageSize
  PROVE  \A k \in 0..n : IsPaging(E[k]) /\ NonePaging(E, k, n + 1) => E[k].chat = None \/ Near(E[k], r)
<1> SUFFICES ASSUME NEW k \in 0..n, IsPaging(E[k]), NonePaging(E, k, n + 1), E[k].chat # None,
                    E[k].chat = r.chat, E[k].range = r.range
             PROVE  r.offset \in {0, E[k].offset, E[k].offset + PageSize} \/ E[k].offset = r.offset + PageSize
  BY DEF Near
<1>1. E[k].offset = o
  BY DEF EndsAt
<1> QED BY <1>1

\* The pages and the requests for one, under way and on the screen, stay as they are.
PagesKept ==
  /\ Chained(View, UnderWay) => Chained(View', UnderWay')
  /\ \A o, h, q, of : EndsAt(View, UnderWay, o, h, q, of) => EndsAt(View', UnderWay', o, h, q, of)

LEMMA ViewIs ==
  ASSUME TypeInv
  PROVE  /\ Len(responses) \in Nat /\ Len(requests) \in Nat /\ UnderWay \in Nat
         /\ UnderWay = Len(responses) + Len(requests)
         /\ DOMAIN View = 0..UnderWay /\ View[0] = page
         /\ \A k \in 1..Len(responses) : View[k] = responses[k]
         /\ \A k \in 1..Len(requests) : View[Len(responses) + k] = requests[k]
<1>1. Len(responses) \in Nat /\ Len(requests) \in Nat
  BY LenProperties DEF TypeInv, TerminalTypeOK
<1>2. DOMAIN View = 0..UnderWay /\ View[0] = page /\ UnderWay \in Nat
  BY <1>1 DEF View, UnderWay
<1>3. \A k \in 1..Len(responses) : View[k] = responses[k]
  BY <1>1 DEF View
<1>4. ASSUME NEW k \in 1..Len(requests) PROVE View[Len(responses) + k] = requests[k]
  <2>1. /\ Len(responses) + k \in 0..(Len(responses) + Len(requests)) /\ Len(responses) + k # 0
        /\ ~(Len(responses) + k <= Len(responses)) /\ (Len(responses) + k) - Len(responses) = k
    BY <1>1
  <2> QED BY <2>1 DEF View
<1> QED BY <1>1, <1>2, <1>3, <1>4 DEF UnderWay

LEMMA ViewSend ==
  ASSUME TypeInv, TypeInv', NEW r \in Requests, Send(r), UNCHANGED <<responses, page>>
  PROVE  /\ UnderWay' = UnderWay + 1
         /\ \A k \in 0..UnderWay : View'[k] = View[k]
         /\ View'[UnderWay + 1] = r
<1> DEFINE n == Len(responses)
           m == Len(requests)
<1>1. /\ Len(requests') = m + 1 /\ \A i \in 1..m : requests'[i] = requests[i]
      /\ requests'[m + 1] = r /\ n \in Nat /\ m \in Nat /\ Len(responses') = n
  BY SendEntries, ViewIs DEF TypeInv, TerminalTypeOK
<1>2. UnderWay = n + m /\ UnderWay' = n + (m + 1)
  BY <1>1 DEF UnderWay
<1>3. \A k \in 0..(n + (m + 1)) :
        View'[k] = IF k = 0 THEN page ELSE IF k <= n THEN responses[k] ELSE requests'[k - n]
  BY <1>1 DEF View
<1>4. \A k \in 0..(n + m) : View[k] = IF k = 0 THEN page ELSE IF k <= n THEN responses[k] ELSE requests[k - n]
  BY DEF View
<1> HIDE DEF n, m
<1>5. ASSUME NEW k \in 0..(n + m) PROVE View'[k] = View[k]
  <2>1. k \in 0..(n + (m + 1)) /\ (k # 0 /\ ~(k <= n) => k - n \in 1..m)
    BY <1>1
  <2> QED BY <1>1, <1>3, <1>4, <2>1
<1>6. View'[n + (m + 1)] = requests'[m + 1]
  <2>1. /\ n + (m + 1) \in 0..(n + (m + 1)) /\ n + (m + 1) # 0 /\ ~(n + (m + 1) <= n)
        /\ (n + (m + 1)) - n = m + 1
    BY <1>1
  <2> QED BY <1>3, <2>1
<1>7. (n + m) + 1 = n + (m + 1)
  BY <1>1
<1> QED BY <1>1, <1>2, <1>5, <1>6, <1>7

LEMMA ViewServe ==
  ASSUME TypeInv, TypeInv', NEW kind, Serve(kind), NEW r \in Responses, Reply(r)
  PROVE  /\ UnderWay' = UnderWay
         /\ \A k \in 0..UnderWay : k # Len(responses) + 1 => View'[k] = View[k]
         /\ Len(responses) + 1 \in 0..UnderWay
         /\ View'[Len(responses) + 1] = r /\ View[Len(responses) + 1] = requests[1]
<1> DEFINE n == Len(responses)
           m == Len(requests)
<1>1. /\ m \in Nat \ {0} /\ Len(requests') = m - 1 /\ \A i \in 1..(m - 1) : requests'[i] = requests[i + 1]
  BY ServeEntries DEF TypeInv, TerminalTypeOK
<1>2. /\ n \in Nat /\ Len(responses') = n + 1 /\ \A i \in 1..n : responses'[i] = responses[i]
      /\ responses'[n + 1] = r
  BY ReplyEntries DEF TypeInv, TerminalTypeOK
<1>3. UnderWay = n + m /\ UnderWay' = (n + 1) + (m - 1) /\ page' = page
  BY <1>1, <1>2 DEF UnderWay, Serve, display
<1>4. \A k \in 0..((n + 1) + (m - 1)) :
        View'[k] = IF k = 0 THEN page ELSE IF k <= n + 1 THEN responses'[k] ELSE requests'[k - (n + 1)]
  BY <1>1, <1>2, <1>3 DEF View
<1>5. \A k \in 0..(n + m) : View[k] = IF k = 0 THEN page ELSE IF k <= n THEN responses[k] ELSE requests[k - n]
  BY DEF View
<1> HIDE DEF n, m
<1>6. (n + 1) + (m - 1) = n + m
  BY <1>1, <1>2
<1>7. ASSUME NEW k \in 0..(n + m), k # n + 1 PROVE View'[k] = View[k]
  <2>1. CASE k <= n
    <3>1. k <= n + 1
      BY <1>2, <2>1
    <3>2. k = 0 \/ responses'[k] = responses[k]
      BY <1>2, <2>1
    <3> QED BY <1>4, <1>5, <1>6, <2>1, <3>1, <3>2
  <2>2. CASE ~(k <= n)
    <3>1. ~(k <= n + 1) /\ k # 0 /\ k - (n + 1) \in 1..(m - 1) /\ (k - (n + 1)) + 1 = k - n
      BY <1>1, <1>2, <1>7, <2>2
    <3>2. requests'[k - (n + 1)] = requests[k - n]
      BY <1>1, <3>1
    <3> QED BY <1>4, <1>5, <1>6, <2>2, <3>1, <3>2
  <2> QED BY <2>1, <2>2
<1>8. n + 1 \in 0..(n + m) /\ n + 1 # 0 /\ n + 1 <= n + 1 /\ ~(n + 1 <= n) /\ (n + 1) - n = 1
  BY <1>1, <1>2
<1>9. View'[n + 1] = r
  BY <1>2, <1>4, <1>6, <1>8
<1>10. View[n + 1] = requests[1]
  BY <1>5, <1>8
<1> QED BY <1>3, <1>6, <1>7, <1>8, <1>9, <1>10 DEF n

\* The entries without the first response.
Rest(first) == [k \in 0..(UnderWay - 1) |-> IF k = 0 THEN first ELSE View[k + 1]]

LEMMA ViewRead ==
  ASSUME TypeInv, NEW kind, Read(kind), UNCHANGED requests
  PROVE  UnderWay' = UnderWay - 1 /\ View' = Rest(page')
<1> DEFINE n == Len(responses)
           m == Len(requests)
<1>1. /\ n \in Nat \ {0} /\ Len(responses') = n - 1 /\ \A i \in 1..(n - 1) : responses'[i] = responses[i + 1]
  BY ReadEntries DEF TypeInv, TerminalTypeOK
<1>2. m \in Nat /\ UnderWay = n + m /\ UnderWay' = (n - 1) + m
  BY <1>1, ViewIs DEF UnderWay
<1>3. View' = [k \in 0..((n - 1) + m) |->
                 IF k = 0 THEN page' ELSE IF k <= n - 1 THEN responses'[k] ELSE requests[k - (n - 1)]]
  BY <1>1 DEF View
<1>4. \A k \in 0..(n + m) : View[k] = IF k = 0 THEN page ELSE IF k <= n THEN responses[k] ELSE requests[k - n]
  BY DEF View
<1> HIDE DEF n, m
<1>5. (n - 1) + m = (n + m) - 1
  BY <1>1, <1>2
<1>6. ASSUME NEW k \in 0..((n - 1) + m), k # 0
      PROVE  (IF k <= n - 1 THEN responses'[k] ELSE requests[k - (n - 1)]) = View[k + 1]
  <2>1. k + 1 \in 0..(n + m) /\ k + 1 # 0
    BY <1>1, <1>2
  <2>2. CASE k <= n - 1
    <3>1. k + 1 <= n /\ k \in 1..(n - 1)
      BY <1>1, <1>6, <2>2
    <3> QED BY <1>1, <1>4, <2>1, <2>2, <3>1
  <2>3. CASE ~(k <= n - 1)
    <3>1. ~(k + 1 <= n) /\ (k + 1) - n = k - (n - 1)
      BY <1>1, <2>3
    <3> QED BY <1>4, <2>1, <2>3, <3>1
  <2> QED BY <2>2, <2>3
<1>7. View' = [k \in 0..((n + m) - 1) |-> IF k = 0 THEN page' ELSE View[k + 1]]
  BY <1>3, <1>5, <1>6
<1> QED BY <1>2, <1>5, <1>7 DEF Rest


LEMMA ViewReply ==
  ASSUME TypeInv, TypeInv', NEW r \in Responses, Reply(r), UNCHANGED <<requests, page>>
  PROVE  /\ UnderWay' = UnderWay + 1
         /\ \A k \in 0..Len(responses) : View'[k] = View[k]
         /\ View'[Len(responses) + 1] = r
         /\ \A k \in (Len(responses) + 1)..UnderWay : View'[k + 1] = View[k]
<1> DEFINE n == Len(responses)
           m == Len(requests)
<1>1. /\ n \in Nat /\ Len(responses') = n + 1 /\ \A i \in 1..n : responses'[i] = responses[i]
      /\ responses'[n + 1] = r
  BY ReplyEntries DEF TypeInv, TerminalTypeOK
<1>2. m \in Nat /\ UnderWay = n + m /\ UnderWay' = (n + 1) + m
  BY <1>1, ViewIs DEF UnderWay
<1>3. \A k \in 0..((n + 1) + m) :
        View'[k] = IF k = 0 THEN page ELSE IF k <= n + 1 THEN responses'[k] ELSE requests[k - (n + 1)]
  BY <1>1 DEF View
<1>4. \A k \in 0..(n + m) : View[k] = IF k = 0 THEN page ELSE IF k <= n THEN responses[k] ELSE requests[k - n]
  BY DEF View
<1> HIDE DEF n, m
<1>5. ASSUME NEW k \in 0..n PROVE View'[k] = View[k]
  <2>1. k \in 0..((n + 1) + m) /\ k \in 0..(n + m) /\ k <= n /\ k <= n + 1 /\ (k # 0 => k \in 1..n)
    BY <1>1, <1>2
  <2> QED BY <1>1, <1>3, <1>4, <2>1
<1>6. View'[n + 1] = r
  <2>1. n + 1 \in 0..((n + 1) + m) /\ n + 1 # 0 /\ n + 1 <= n + 1
    BY <1>1, <1>2
  <2> QED BY <1>1, <1>3, <2>1
<1>7. ASSUME NEW k \in (n + 1)..(n + m) PROVE View'[k + 1] = View[k]
  <2>1. /\ k + 1 \in 0..((n + 1) + m) /\ k + 1 # 0 /\ ~(k + 1 <= n + 1)
        /\ k \in 0..(n + m) /\ k # 0 /\ ~(k <= n) /\ (k + 1) - (n + 1) = k - n
    BY <1>1, <1>2
  <2> QED BY <1>3, <1>4, <2>1
<1>8. (n + 1) + m = (n + m) + 1
  BY <1>1, <1>2
<1> QED BY <1>2, <1>5, <1>6, <1>7, <1>8 DEF n

LEMMA ViewReadSend ==
  ASSUME TypeInv, NEW kind, Read(kind), NEW r \in Requests, Send(r), UNCHANGED page
  PROVE  /\ UnderWay' = UnderWay /\ UnderWay \in Nat \ {0}
         /\ \A k \in 0..(UnderWay - 1) : View'[k] = Rest(page)[k]
         /\ View'[UnderWay] = r
<1> DEFINE n == Len(responses)
           m == Len(requests)
<1>1. /\ n \in Nat \ {0} /\ Len(responses') = n - 1 /\ \A i \in 1..(n - 1) : responses'[i] = responses[i + 1]
  BY ReadEntries DEF TypeInv, TerminalTypeOK
<1>2. /\ m \in Nat /\ Len(requests') = m + 1 /\ \A i \in 1..m : requests'[i] = requests[i]
      /\ requests'[m + 1] = r
  BY SendEntries DEF TypeInv, TerminalTypeOK
<1>3. UnderWay = n + m /\ UnderWay' = (n - 1) + (m + 1)
  BY <1>1, <1>2 DEF UnderWay
<1>4. \A k \in 0..((n - 1) + (m + 1)) :
         View'[k] = IF k = 0 THEN page ELSE IF k <= n - 1 THEN responses'[k] ELSE requests'[k - (n - 1)]
  BY <1>1, <1>2 DEF View
<1>5. \A k \in 0..(n + m) : View[k] = IF k = 0 THEN page ELSE IF k <= n THEN responses[k] ELSE requests[k - n]
  BY DEF View
<1>6. \A k \in 0..((n + m) - 1) : Rest(page)[k] = IF k = 0 THEN page ELSE View[k + 1]
  BY <1>3 DEF Rest
<1> HIDE DEF n, m
<1>7. (n - 1) + (m + 1) = n + m /\ n + m \in Nat \ {0}
  BY <1>1, <1>2
<1>8. ASSUME NEW k \in 0..((n + m) - 1) PROVE View'[k] = Rest(page)[k]
  <2>1. CASE k = 0
    <3>1. 0 \in 0..((n - 1) + (m + 1))
      BY <1>1, <1>2
    <3> QED BY <1>4, <1>6, <2>1, <3>1
  <2>2. CASE k # 0 /\ k <= n - 1
    <3>1. k + 1 \in 0..(n + m) /\ k + 1 # 0 /\ k + 1 <= n /\ k \in 1..(n - 1) /\ k \in 0..((n - 1) + (m + 1))
      BY <1>1, <1>2, <2>2
    <3> QED BY <1>1, <1>4, <1>5, <1>6, <2>2, <3>1
  <2>3. CASE k # 0 /\ ~(k <= n - 1)
    <3>1. /\ k + 1 \in 0..(n + m) /\ k + 1 # 0 /\ ~(k + 1 <= n) /\ k \in 0..((n - 1) + (m + 1))
          /\ (k + 1) - n = k - (n - 1) /\ k - (n - 1) \in 1..m
      BY <1>1, <1>2, <2>3
    <3> QED BY <1>2, <1>4, <1>5, <1>6, <2>3, <3>1
  <2> QED BY <2>1, <2>2, <2>3
<1>9. View'[n + m] = r
  <2>1. /\ n + m \in 0..((n - 1) + (m + 1)) /\ n + m # 0 /\ ~(n + m <= n - 1)
        /\ (n + m) - (n - 1) = m + 1
    BY <1>1, <1>2
  <2> QED BY <1>2, <1>4, <2>1
<1> QED BY <1>3, <1>7, <1>8, <1>9

\* Only requests for a page and pages are about pages.
LEMMA PagingKinds ==
  /\ \A r \in Requests : IsPaging(r) <=> r.kind = "history"
  /\ \A r \in Responses : IsPaging(r) <=> r.kind = "page"
BY DEF IsPaging, Requests, CheckUserRequest, GroupInfoRequest, TextMessage, HistoryRequest,
       GroupLeaveRequest, RecallRequest, OtherRequest,
       Responses, ServerAck, CheckUserResponse, GroupInfoResponse, HistoryResponse

LEMMA KeptUnchanged == ASSUME UNCHANGED <<network, page>> PROVE PagesKept
BY DEF PagesKept, View, UnderWay, network

LEMMA KeptSend ==
  ASSUME TypeInv, TypeInv', NEW r \in Requests, Send(r), UNCHANGED <<responses, page>>, r.kind # "history"
  PROVE  PagesKept
<1> DEFINE E == View
           F == View'
           n == UnderWay
           g == [k \in 0..n |-> k]
<1>1. n \in Nat /\ DOMAIN E = 0..n
  BY ViewIs
<1>2. UnderWay' = n + 1 /\ (\A k \in 0..n : F[k] = E[k]) /\ F[n + 1] = r
  BY ViewSend
<1>3. DOMAIN F = 0..(n + 1)
  BY <1>2 DEF View, UnderWay
<1>4. ~IsPaging(r)
  BY PagingKinds
<1> HIDE DEF E, F, n
<1>5. \A k \in 0..(n + 1) : IsPaging(F[k]) => k \in 0..n /\ g[k] = k /\ F[k] = E[k]
  BY <1>1, <1>2, <1>4
<1>6. \A k \in 0..(n + 1) : IsPaging(F[k]) => g[k] \in 0..n /\ Alike(F[k], E[g[k]])
  BY <1>5 DEF Alike
<1>7. \A k, l \in 0..(n + 1) : k < l /\ IsPaging(F[k]) /\ IsPaging(F[l]) => g[k] < g[l]
  BY <1>5
<1>8. \A k \in 0..(n + 1), j \in 0..n : IsPaging(F[k]) /\ IsPaging(E[j]) /\ g[k] < j =>
        \E l \in 0..(n + 1) : k < l /\ IsPaging(F[l]) /\ g[l] = j
  <2> SUFFICES ASSUME NEW k \in 0..(n + 1), NEW j \in 0..n, IsPaging(F[k]), IsPaging(E[j]), g[k] < j
               PROVE  j \in 0..(n + 1) /\ k < j /\ IsPaging(F[j]) /\ g[j] = j
    BY <1>1
  <2> QED BY <1>1, <1>2, <1>5
<1> HIDE DEF g
<1>9. n + 1 \in Nat
  BY <1>1
<1>10. /\ Chained(E, n) => Chained(F, n + 1)
       /\ \A o, h, q, of : EndsAt(E, n, o, h, q, of) => EndsAt(F, n + 1, o, h, q, of)
  <2>1. Carries(E, F, n, n + 1, g)
    BY <1>1, <1>3, <1>6, <1>7, <1>8, <1>9 DEF Carries
  <2> QED BY <1>1, <1>6, <1>8, <1>9, <2>1, ChainedKept
<1> QED BY <1>2, <1>10 DEF PagesKept, E, F, n

LEMMA KeptServe ==
  ASSUME TypeInv, TypeInv', NEW kind, Serve(kind), NEW r \in Responses, Reply(r),
         (~IsPaging(requests[1]) /\ ~IsPaging(r)) \/ Alike(r, requests[1])
  PROVE  PagesKept
<1> DEFINE E == View
           F == View'
           n == UnderWay
           p == Len(responses) + 1
           g == [k \in 0..n |-> k]
<1>1. n \in Nat /\ DOMAIN E = 0..n
  BY ViewIs
<1>2. /\ UnderWay' = n /\ (\A k \in 0..n : k # p => F[k] = E[k]) /\ p \in 0..n
      /\ F[p] = r /\ E[p] = requests[1]
  BY ViewServe
<1>3. DOMAIN F = 0..n
  BY <1>2 DEF View, UnderWay
<1> HIDE DEF E, F, n, p
<1>4. \A k \in 0..n : g[k] = k /\ (IsPaging(F[k]) <=> IsPaging(E[k])) /\ (IsPaging(F[k]) => Alike(F[k], E[k]))
  BY <1>2 DEF Alike
<1>5. \A k \in 0..n : IsPaging(F[k]) => g[k] \in 0..n /\ Alike(F[k], E[g[k]])
  BY <1>4
<1>6. \A k, l \in 0..n : k < l /\ IsPaging(F[k]) /\ IsPaging(F[l]) => g[k] < g[l]
  BY <1>4
<1>7. \A k \in 0..n, j \in 0..n : IsPaging(F[k]) /\ IsPaging(E[j]) /\ g[k] < j =>
        \E l \in 0..n : k < l /\ IsPaging(F[l]) /\ g[l] = j
  BY <1>4
<1> HIDE DEF g
<1>8. /\ Chained(E, n) => Chained(F, n)
      /\ \A o, h, q, of : EndsAt(E, n, o, h, q, of) => EndsAt(F, n, o, h, q, of)
  <2>1. Carries(E, F, n, n, g)
    BY <1>1, <1>3, <1>5, <1>6, <1>7 DEF Carries
  <2> QED BY <1>1, <2>1, ChainedKept
<1> QED BY <1>2, <1>8 DEF PagesKept, E, F, n

LEMMA KeptReply ==
  ASSUME TypeInv, TypeInv', NEW r \in Responses, Reply(r), UNCHANGED <<requests, page>>, ~IsPaging(r)
  PROVE  PagesKept
<1> DEFINE E == View
           F == View'
           n == UnderWay
           p == Len(responses)
           g == [k \in 0..(n + 1) |-> IF k <= p THEN k ELSE k - 1]
<1>1. n \in Nat /\ DOMAIN E = 0..n /\ p \in Nat /\ p <= n
  BY ViewIs
<1>2. /\ UnderWay' = n + 1 /\ (\A k \in 0..p : F[k] = E[k]) /\ F[p + 1] = r
      /\ \A k \in (p + 1)..n : F[k + 1] = E[k]
  BY ViewReply
<1>3. DOMAIN F = 0..(n + 1)
  BY <1>2 DEF View, UnderWay
<1> HIDE DEF E, F, n, p
<1>4. \A k \in 0..(n + 1) : IsPaging(F[k]) => /\ k # p + 1 /\ g[k] \in 0..n /\ F[k] = E[g[k]]
                                              /\ g[k] = IF k <= p THEN k ELSE k - 1
  <2> SUFFICES ASSUME NEW k \in 0..(n + 1), IsPaging(F[k])
               PROVE  k # p + 1 /\ g[k] \in 0..n /\ F[k] = E[g[k]]
    OBVIOUS
  <2>1. k # p + 1
    BY <1>2
  <2>2. CASE k <= p
    BY <1>1, <1>2, <2>1, <2>2
  <2>3. CASE ~(k <= p)
    <3>1. k - 1 \in (p + 1)..n /\ (k - 1) + 1 = k /\ g[k] = k - 1
      BY <1>1, <2>1, <2>3
    <3>2. F[k] = E[k - 1]
      BY <1>2, <3>1
    <3> QED BY <1>1, <2>1, <3>1, <3>2
  <2> QED BY <2>2, <2>3
<1>5. \A k \in 0..(n + 1) : IsPaging(F[k]) => g[k] \in 0..n /\ Alike(F[k], E[g[k]])
  BY <1>4 DEF Alike
<1>6. \A k, l \in 0..(n + 1) : k < l /\ IsPaging(F[k]) /\ IsPaging(F[l]) => g[k] < g[l]
  BY <1>1, <1>4
<1>7. \A k \in 0..(n + 1), j \in 0..n : IsPaging(F[k]) /\ IsPaging(E[j]) /\ g[k] < j =>
        \E l \in 0..(n + 1) : k < l /\ IsPaging(F[l]) /\ g[l] = j
  <2> SUFFICES ASSUME NEW k \in 0..(n + 1), NEW j \in 0..n, IsPaging(F[k]), IsPaging(E[j]), g[k] < j
               PROVE  \E l \in 0..(n + 1) : k < l /\ IsPaging(F[l]) /\ g[l] = j
    OBVIOUS
  <2>1. g[k] = IF k <= p THEN k ELSE k - 1
    BY <1>4
  <2>2. CASE j <= p
    <3>1. j \in 0..(n + 1) /\ g[j] = j /\ k < j /\ j \in 0..p
      BY <1>1, <2>1, <2>2
    <3> QED BY <1>2, <3>1
  <2>3. CASE ~(j <= p)
    <3>1. j + 1 \in 0..(n + 1) /\ g[j + 1] = j /\ k < j + 1 /\ j \in (p + 1)..n
      BY <1>1, <2>1, <2>3
    <3> QED BY <1>2, <3>1
  <2> QED BY <2>2, <2>3
<1> HIDE DEF g
<1>8. n + 1 \in Nat
  BY <1>1
<1>9. /\ Chained(E, n) => Chained(F, n + 1)
      /\ \A o, h, q, of : EndsAt(E, n, o, h, q, of) => EndsAt(F, n + 1, o, h, q, of)
  <2>1. Carries(E, F, n, n + 1, g)
    BY <1>1, <1>3, <1>5, <1>6, <1>7, <1>8 DEF Carries
  <2> QED BY <1>1, <1>8, <2>1, ChainedKept
<1> QED BY <1>2, <1>9 DEF PagesKept, E, F, n

\* So they do without the first response, unless that is a page, which replaces
\* the one on the screen.
LEMMA RestKept ==
  ASSUME TypeInv, NEW kind, Read(kind), NEW first,
         (kind # "page" /\ first = page) \/ (kind = "page" /\ first = responses[1])
  PROVE  /\ UnderWay - 1 \in Nat /\ DOMAIN Rest(first) = 0..(UnderWay - 1)
         /\ Chained(View, UnderWay) => Chained(Rest(first), UnderWay - 1)
         /\ \A o, h, q, of : EndsAt(View, UnderWay, o, h, q, of) => EndsAt(Rest(first), UnderWay - 1, o, h, q, of)
<1> DEFINE E == View
           F == Rest(first)
           n == UnderWay
           g == [k \in 0..(n - 1) |-> IF k = 0 /\ kind # "page" THEN 0 ELSE k + 1]
<1>1. /\ Len(responses) \in Nat \ {0} /\ responses[1] \in Responses /\ responses[1].kind = kind
  BY ReadEntries, ReadTypes DEF TypeInv, TerminalTypeOK
<1>2. 1 \in 1..Len(responses)
  BY <1>1
<1>3. n \in Nat \ {0} /\ DOMAIN E = 0..n /\ E[0] = page /\ E[1] = responses[1]
  BY <1>1, <1>2, ViewIs
<1>4. DOMAIN F = 0..(n - 1) /\ \A k \in 0..(n - 1) : F[k] = IF k = 0 THEN first ELSE E[k + 1]
  BY DEF Rest
<1>5. kind # "page" => ~IsPaging(E[1])
  BY <1>1, <1>3, PagingKinds
<1> HIDE DEF E, F, n
<1>6. n - 1 \in Nat
  BY <1>3
<1>7. \A k \in 0..(n - 1) : /\ g[k] = IF k = 0 /\ kind # "page" THEN 0 ELSE k + 1
                            /\ g[k] \in 0..n /\ F[k] = E[g[k]]
  <2> SUFFICES ASSUME NEW k \in 0..(n - 1) PROVE g[k] \in 0..n /\ F[k] = E[g[k]]
    OBVIOUS
  <2>1. g[k] \in 0..n
    BY <1>3
  <2>2. CASE k = 0
    BY <1>3, <1>4, <1>6, <2>2
  <2>3. CASE k # 0
    <3>1. g[k] = k + 1
      BY <2>3
    <3> QED BY <1>4, <2>1, <2>3, <3>1
  <2> QED BY <2>1, <2>2, <2>3
<1>8. \A k \in 0..(n - 1) : IsPaging(F[k]) => g[k] \in 0..n /\ Alike(F[k], E[g[k]])
  BY <1>7 DEF Alike
<1>9. \A k, l \in 0..(n - 1) : k < l /\ IsPaging(F[k]) /\ IsPaging(F[l]) => g[k] < g[l]
  BY <1>3, <1>7
<1>10. \A k \in 0..(n - 1), j \in 0..n : IsPaging(F[k]) /\ IsPaging(E[j]) /\ g[k] < j =>
        \E l \in 0..(n - 1) : k < l /\ IsPaging(F[l]) /\ g[l] = j
  <2> SUFFICES ASSUME NEW k \in 0..(n - 1), NEW j \in 0..n, IsPaging(F[k]), IsPaging(E[j]), g[k] < j
               PROVE  j - 1 \in 0..(n - 1) /\ k < j - 1 /\ IsPaging(F[j - 1]) /\ g[j - 1] = j
    OBVIOUS
  <2>1. g[k] = IF k = 0 /\ kind # "page" THEN 0 ELSE k + 1
    BY <1>7
  <2>2. kind # "page" => j # 1
    BY <1>5
  <2>3. j - 1 \in 0..(n - 1) /\ k < j - 1
    BY <1>3, <2>1, <2>2
  <2>4. g[j - 1] = j
    BY <1>3, <2>3
  <2> QED BY <1>7, <2>3, <2>4
<1> HIDE DEF g
<1>11. /\ Chained(E, n) => Chained(F, n - 1)
       /\ \A o, h, q, of : EndsAt(E, n, o, h, q, of) => EndsAt(F, n - 1, o, h, q, of)
  <2>1. Carries(E, F, n, n - 1, g)
    BY <1>3, <1>4, <1>6, <1>8, <1>9, <1>10 DEF Carries
  <2>2. n \in Nat
    BY <1>3
  <2> QED BY <1>6, <2>1, <2>2, ChainedKept
<1> QED BY <1>4, <1>6, <1>11 DEF E, F, n

\* A flag that is observed stays set.
LEMMA FlagsStay ==
  ASSUME TypeInv, [Next]_vars
  PROVE  (raced => raced') /\ (skipped => skipped')
<1> DEFINE Stay == (raced => raced') /\ (skipped => skipped')
<1>1. CASE UNCHANGED <<raced, skipped>>
  BY <1>1
<1>2. CASE FinishText \/ FinishPage("prev", Back(typing.n)) \/ FinishPage("next", Forth(typing.n))
  <2>1. skipped' = skipped
    BY <1>2 DEF FinishText, FinishPage, Finish
  <2>2. raced => raced'
    BY <1>2, Zenon DEF FinishText, FinishPage
  <2> QED BY <2>1, <2>2
<1>3. CASE Keyboard
  BY <1>1, <1>2, <1>3 DEF Keyboard, TypeTo, TypeToGroup, TypeLeaveGroup, TypeHistory, TypeLogout, TypeOther,
       TypeRecall, BeginText, BeginPage, Type
<1>4. ASSUME NEW kind, Refuse(kind) \/ RefuseMember(kind) PROVE Stay
  <2>1. raced' = raced
    BY <1>4 DEF Refuse, RefuseMember, Serve
  <2>2. skipped => skipped'
    BY <1>4, Zenon DEF Refuse, RefuseMember
  <2> QED BY <2>1, <2>2
<1>5. CASE Server
  <2>1. CASE LosePage
    BY <2>1 DEF LosePage, Serve
  <2> QED BY <1>1, <1>4, <1>5, <2>1 DEF Server, CountHistory, ServeCheckUser, ServeGroupInfo, ServeText,
             ServeHistory, ServeLeaveGroup, ServeRecall, Serve, observed
<1>6. CASE ReadAck
  <2>1. raced => raced'
    BY <1>6, Zenon DEF ReadAck
  <2>2. skipped => skipped'
    BY <1>6 DEF ReadAck
  <2> QED BY <2>1, <2>2
<1>7. CASE Reader
  BY <1>1, <1>6, <1>7 DEF Reader, BeginAck, ReadSwitch, ReadNobody, ReadGroup, ReadPage, observed
<1>8. CASE Others
  BY <1>1, <1>8 DEF Others, Arrive, PeerRecalls, Clean, LeaveElsewhere, AckRefused, Event, observed
<1>9. CASE UNCHANGED vars
  BY <1>1, <1>9 DEF vars, observed
<1> QED BY <1>3, <1>5, <1>7, <1>8, <1>9 DEF Next

\* Who gives a context up, or keeps it, is not to follow other pages than before.
LEMMA LinkedKept ==
  ASSUME PagesLinked, PagesKept, range' = range,
         historyGroup' \in {historyGroup, None}, historyQQ' \in {historyQQ, None},
         offset' = offset \/ (historyGroup' = None /\ historyQQ' = None)
  PROVE  PagesLinked'
<1>1. Chained(View', UnderWay') /\ EndsAt(View', UnderWay', offset, historyGroup, historyQQ, range)
  BY DEF PagesLinked, PagesKept
<1>2. EndsAt(View', UnderWay', offset', historyGroup', historyQQ', range')
  BY <1>1 DEF EndsAt
<1> QED BY <1>1, <1>2 DEF PagesLinked

LEMMA LinkedSend ==
  ASSUME TypeInv, TypeInv', NEW r \in Requests, Send(r), UNCHANGED <<responses, page>>, r.kind = "history",
         Chained(View, UnderWay), offset' = r.offset,
         \A k \in 0..UnderWay : IsPaging(View[k]) /\ NonePaging(View, k, UnderWay + 1) =>
           View[k].chat = None \/ Near(View[k], r)
  PROVE  PagesLinked'
<1> DEFINE E == View
           F == View'
           n == UnderWay
<1>1. n \in Nat /\ DOMAIN E = 0..n
  BY ViewIs
<1>2. UnderWay' = n + 1 /\ (\A k \in 0..n : F[k] = E[k]) /\ F[n + 1] = r
  BY ViewSend
<1>3. DOMAIN F = 0..(n + 1)
  BY <1>2 DEF View, UnderWay
<1>4. IsPaging(F[n + 1])
  BY <1>2, PagingKinds
<1>5. Chained(E, n)
  OBVIOUS
<1>6. \A k \in 0..n : IsPaging(E[k]) /\ NonePaging(E, k, n + 1) => E[k].chat = None \/ Near(E[k], F[n + 1])
  BY <1>2
<1> HIDE DEF E, F, n
<1>7. Chained(F, n + 1) /\ \A o, h, q, of : F[n + 1].offset = o => EndsAt(F, n + 1, o, h, q, of)
  BY <1>1, <1>2, <1>3, <1>4, <1>5, <1>6, ChainedSend
<1>8. EndsAt(F, n + 1, offset', historyGroup', historyQQ', range')
  BY <1>2, <1>7
<1> QED BY <1>2, <1>7, <1>8 DEF PagesLinked, E, F, n

\* The first page may follow any other.
LEMMA FirstPageIsNear ==
  ASSUME NEW a, NEW b, b.offset = 0
  PROVE  Near(a, b)
BY DEF Near

LEMMA LinkedReadSend ==
  ASSUME TypeInv, NEW kind, Read(kind), kind # "page", NEW r \in Requests, Send(r), page' = page, r.kind = "history",
         Chained(View, UnderWay), r.offset = 0, offset' = 0
  PROVE  PagesLinked'
<1> DEFINE E == Rest(page)
           F == View'
           n == UnderWay - 1
<1>1. n \in Nat /\ DOMAIN E = 0..n /\ Chained(E, n)
  BY RestKept
<1>2. /\ UnderWay' = UnderWay /\ UnderWay \in Nat \ {0} /\ (\A k \in 0..n : F[k] = E[k])
      /\ F[UnderWay] = r
  BY ViewReadSend
<1>3. UnderWay = n + 1
  BY <1>2
<1>4. F[n + 1] = r /\ DOMAIN F = 0..(n + 1)
  <2>1. DOMAIN F = 0..UnderWay'
    BY DEF View, UnderWay
  <2> QED BY <1>2, <1>3, <2>1
<1>5. IsPaging(F[n + 1])
  BY <1>4, PagingKinds
<1>6. \A k \in 0..n : IsPaging(E[k]) /\ NonePaging(E, k, n + 1) => E[k].chat = None \/ Near(E[k], F[n + 1])
  BY <1>4, FirstPageIsNear
<1> HIDE DEF E, F, n
<1>7. Chained(F, n + 1) /\ \A o, h, q, of : F[n + 1].offset = o => EndsAt(F, n + 1, o, h, q, of)
  BY <1>1, <1>2, <1>4, <1>5, <1>6, ChainedSend
<1>8. EndsAt(F, n + 1, offset', historyGroup', historyQQ', range')
  BY <1>4, <1>7
<1> QED BY <1>2, <1>3, <1>7, <1>8 DEF PagesLinked, F

\* /prev and /next ask for a neighbour of the page that was asked for last.
LEMMA FinishPageLinked ==
  ASSUME TypeInv, TypeInv', PagesLinked, NEW cmd, NEW n \in Nat, FinishPage(cmd, n), ~raced',
         n = Back(typing.n) \/ n = Forth(typing.n)
  PROVE  PagesLinked'
<1> DEFINE r == IF typing.ofGroup THEN GetHistory(historyGroup, n, Everything) ELSE GetHistory(historyQQ, n, range)
<1>1. Send(r) /\ offset' = n /\ UNCHANGED <<responses, page>>
  BY DEF FinishPage, Finish, display
<1>2. typing.n = offset
  BY DEF FinishPage
<1>3. /\ historyGroup \in Chat \cup {None} /\ historyQQ \in Chat \cup {None}
      /\ range \in Ranges \cup {Everything} /\ Everything \in Ranges \cup {Everything} /\ offset \in Nat
  BY DEF TypeInv, TerminalTypeOK, Chat
<1>4. r \in Requests /\ r.kind = "history"
  BY <1>3, HistoryRequests
<1>5. r.offset = n /\ ((r.chat = historyGroup /\ r.range = Everything) \/ (r.chat = historyQQ /\ r.range = range))
  BY DEF GetHistory
<1>6. n \in {0, offset, offset + PageSize} \/ offset = n + PageSize
  BY <1>2, <1>3, TerminalAssumption DEF Back, Forth
<1> HIDE DEF r
<1>7. UnderWay \in Nat
  BY ViewIs
<1>8. \A k \in 0..UnderWay : IsPaging(View[k]) /\ NonePaging(View, k, UnderWay + 1) =>
        View[k].chat = None \/ Near(View[k], r)
  BY <1>3, <1>5, <1>6, <1>7, NearTheEnd DEF PagesLinked
<1> QED BY <1>1, <1>4, <1>5, <1>8, LinkedSend DEF PagesLinked

LEMMA KeyboardTypes ==
  ASSUME TypeInv
  PROVE  Back(typing.n) \in Nat /\ Forth(typing.n) \in Nat /\ \A i \in DOMAIN rows : i \in Nat
<1>1. Back(typing.n) \in Nat /\ Forth(typing.n) \in Nat
  BY TerminalAssumption DEF Back, Forth, TypeInv, TerminalTypeOK
<1>2. \A i \in DOMAIN rows : i \in Nat
  BY LenProperties DEF TypeInv, TerminalTypeOK
<1> QED BY <1>1, <1>2

LEMMA LinkedKeyboard ==
  ASSUME TypeInv, TypeInv', PagesLinked, Keyboard, ~raced'
  PROVE  PagesLinked'
<1> DEFINE Same == UNCHANGED <<historyQQ, historyGroup, offset, range>>
<1>1. ASSUME NEW r \in Requests, Send(r), UNCHANGED <<responses, page>>, r.kind # "history", Same
      PROVE  PagesLinked'
  BY <1>1, KeptSend, LinkedKept
<1>2. ASSUME UNCHANGED <<network, page>>, Same
      PROVE  PagesLinked'
  BY <1>2, KeptUnchanged, LinkedKept
<1>3. ASSUME NEW q \in Peers, TypeTo(q) PROVE PagesLinked'
  <2> DEFINE r == [kind |-> "check", qq |-> q]
  <2>1. r \in Requests /\ r.kind # "history"
    BY DEF Requests, CheckUserRequest
  <2>2. Send(r) /\ UNCHANGED <<responses, page>>
    BY <1>3 DEF TypeTo, Type, display
  <2>3. historyGroup' = None /\ UNCHANGED <<historyQQ, offset, range>>
    BY <1>3 DEF TypeTo, LeaveGroupChat
  <2> HIDE DEF r
  <2>4. PagesKept
    BY <2>1, <2>2, KeptSend
  <2> QED BY <2>3, <2>4, LinkedKept
<1>4. ASSUME NEW g \in Groups, TypeToGroup(g) PROVE PagesLinked'
  <2> DEFINE r == [kind |-> "info", group |-> g]
  <2>1. r \in Requests /\ r.kind # "history"
    BY DEF Requests, GroupInfoRequest
  <2>2. Send(r) /\ UNCHANGED <<responses, page>> /\ Same
    BY <1>4 DEF TypeToGroup, Type, display, context
  <2> HIDE DEF r
  <2> QED BY <1>1, <2>1, <2>2
<1>5. ASSUME NEW g \in Groups, TypeLeaveGroup(g) PROVE PagesLinked'
  <2> DEFINE r == [kind |-> "leave", group |-> g]
  <2>1. r \in Requests /\ r.kind # "history"
    BY DEF Requests, GroupLeaveRequest
  <2>2. Send(r) /\ UNCHANGED <<responses, page, range>>
    BY <1>5 DEF TypeLeaveGroup, Type, display
  <2>3. \/ historyGroup' = None /\ historyQQ' = None
        \/ UNCHANGED <<historyGroup, historyQQ, offset>>
    BY <1>5 DEF TypeLeaveGroup, LeaveGroupChat
  <2> HIDE DEF r
  <2>4. PagesKept
    BY <2>1, <2>2, KeptSend
  <2> QED BY <2>2, <2>3, <2>4, LinkedKept
<1>6. ASSUME NEW q \in Peers, NEW of \in Ranges, TypeHistory(q, of) PROVE PagesLinked'
  <2> DEFINE r == GetHistory(q, 0, of)
  <2>1. r \in Requests /\ r.kind = "history"
    BY HistoryRequests DEF Chat
  <2>2. Send(r) /\ UNCHANGED <<responses, page>> /\ offset' = r.offset
    BY <1>6 DEF TypeHistory, Type, display, GetHistory
  <2>3. r.offset = 0
    BY DEF GetHistory
  <2> HIDE DEF r
  <2>4. \A k \in 0..UnderWay : Near(View[k], r)
    BY <2>3, FirstPageIsNear
  <2> QED BY <2>1, <2>2, <2>4, LinkedSend DEF PagesLinked
<1>7. CASE TypeLogout
  <2>1. UNCHANGED <<network, page, historyGroup, offset, range>> /\ historyQQ' = None
    BY <1>7 DEF TypeLogout, Type, network, display
  <2>2. PagesKept
    BY <2>1, KeptUnchanged
  <2> QED BY <2>1, <2>2, LinkedKept
<1>8. ASSUME NEW i \in DOMAIN rows, TypeRecall(i) PROVE PagesLinked'
  <2> DEFINE r == [kind |-> "recall", id |-> i]
  <2>1. i \in Nat
    BY KeyboardTypes
  <2>2. r \in Requests /\ r.kind # "history"
    BY <2>1 DEF Requests, RecallRequest
  <2>3. Send(r) /\ UNCHANGED <<responses, page>> /\ Same
    BY <1>8 DEF TypeRecall, Type, display, context
  <2> HIDE DEF r
  <2> QED BY <1>1, <2>2, <2>3
<1>9. CASE TypeOther
  <2> DEFINE r == [kind |-> "other"]
  <2>1. r \in Requests /\ r.kind # "history"
    BY DEF Requests, OtherRequest
  <2>2. Send(r) /\ UNCHANGED <<responses, page>> /\ Same
    BY <1>9 DEF TypeOther, Type, display, context
  <2> HIDE DEF r
  <2> QED BY <1>1, <2>1, <2>2
<1>10. CASE FinishText
  <2> DEFINE r == [kind |-> "text", qq |-> targetQQ, group |-> targetGroup]
  <2>1. r \in Requests /\ r.kind # "history"
    BY DEF Requests, TextMessage, TypeInv, TerminalTypeOK
  <2>2. Send(r) /\ UNCHANGED <<responses, page>> /\ Same
    BY <1>10 DEF FinishText, Finish, display
  <2> HIDE DEF r
  <2> QED BY <1>1, <2>1, <2>2
<1>11. CASE BeginText \/ BeginPage("prev") \/ BeginPage("next")
  <2>1. UNCHANGED <<network, page>> /\ Same
    BY <1>11 DEF BeginText, BeginPage, Type, network, display, context
  <2> QED BY <1>2, <2>1
<1>12. CASE FinishPage("prev", Back(typing.n)) \/ FinishPage("next", Forth(typing.n))
  <2>1. Back(typing.n) \in Nat /\ Forth(typing.n) \in Nat
    BY KeyboardTypes
  <2> QED BY <1>12, <2>1, FinishPageLinked
<1> QED BY <1>3, <1>4, <1>5, <1>6, <1>7, <1>8, <1>9, <1>10, <1>11, <1>12 DEF Keyboard

\* A request for a page is answered by that page, in its place.
LEMMA LinkedServer ==
  ASSUME TypeInv, TypeInv', PagesLinked, Server, ~skipped'
  PROVE  PagesLinked'
<1>1. CASE CountHistory
  <2>1. UNCHANGED <<network, page, historyQQ, historyGroup, offset, range>>
    BY <1>1 DEF CountHistory, display, context
  <2> QED BY <2>1, KeptUnchanged, LinkedKept
<1> SUFFICES ASSUME ~CountHistory PROVE PagesLinked'
  BY <1>1
<1>2. ~LosePage
  BY DEF LosePage
<1>3. PICK kind \in Kinds, r \in Responses :
        /\ Serve(kind) /\ Reply(r)
        /\ r.kind = "page" => ServeHistory
        /\ kind = "history" => ServeHistory \/ (r.kind = "ack" /\ skipped')
  BY <1>2, ServerAnswers
<1>4. requests \in Seq(Requests)
  BY DEF TypeInv, TerminalTypeOK
<1>5. requests[1] \in Requests /\ requests[1].kind = kind
  BY <1>3, <1>4, ServeTypes
<1>6. UNCHANGED <<historyQQ, historyGroup, offset, range>>
  BY <1>3 DEF Serve, context
<1>7. CASE ServeHistory
  <2> DEFINE q == requests[1]
             p == PageOf(q)
  <2>1. Serve("history") /\ counted # NotCounted /\ Reply(p)
    BY <1>7 DEF ServeHistory
  <2>2. /\ q \in Requests /\ q.kind = "history"
        /\ p \in Responses /\ p.kind = "page" /\ p.chat = q.chat /\ p.offset = q.offset /\ p.range = q.range
    BY <2>1, PageTypes
  <2> HIDE DEF p
  <2>3. Alike(p, q)
    BY <2>2 DEF Alike, IsPaging
  <2>4. PagesKept
    BY <2>1, <2>2, <2>3, KeptServe
  <2> QED BY <1>6, <2>4, LinkedKept
<1>8. CASE ~ServeHistory
  <2>1. ~IsPaging(requests[1]) /\ ~IsPaging(r)
    BY <1>3, <1>5, <1>8, PagingKinds
  <2>2. PagesKept
    BY <1>3, <2>1, KeptServe
  <2> QED BY <1>6, <2>2, LinkedKept
<1> QED BY <1>7, <1>8

LEMMA LinkedReader ==
  ASSUME TypeInv, TypeInv', PagesLinked, Reader, ~skipped'
  PROVE  PagesLinked'
<1>1. responses \in Seq(Responses)
  BY DEF TypeInv, TerminalTypeOK
<1>2. ASSUME NEW kind, Read(kind), UNCHANGED requests,
             (kind # "page" /\ page' = page) \/ (kind = "page" /\ page' = responses[1])
      PROVE  PagesKept
  <2>1. UnderWay' = UnderWay - 1 /\ View' = Rest(page')
    BY <1>2, ViewRead
  <2>2. /\ Chained(View, UnderWay) => Chained(Rest(page'), UnderWay - 1)
        /\ \A o, h, q, of : EndsAt(View, UnderWay, o, h, q, of) => EndsAt(Rest(page'), UnderWay - 1, o, h, q, of)
    BY <1>2, RestKept
  <2> QED BY <2>1, <2>2 DEF PagesKept
<1>3. CASE BeginAck
  <2>1. UNCHANGED <<network, page, historyQQ, historyGroup, offset, range>>
    BY <1>3 DEF BeginAck, display, context
  <2> QED BY <2>1, KeptUnchanged, LinkedKept
<1>4. CASE ReadAck
  <2>1. Read("ack") /\ UNCHANGED <<requests, page, historyQQ, range>>
    BY <1>4 DEF ReadAck, display
  <2>2. UNCHANGED <<historyGroup, offset>>
    BY <1>4 DEF ReadAck
  <2>3. PagesKept
    BY <1>2, <2>1
  <2> QED BY <2>1, <2>2, <2>3, LinkedKept
<1>5. CASE ReadSwitch
  <2> DEFINE r == GetHistory(responses[1].qq, 0, Everything)
  <2>1. Read("switch") /\ Send(r) /\ page' = page /\ offset' = 0
    BY <1>5 DEF ReadSwitch, display
  <2>2. responses[1].qq \in Peers
    BY <1>1, <2>1, ReadTypes, ResponseKinds
  <2>3. r \in Requests /\ r.kind = "history" /\ r.offset = 0
    BY <2>2, HistoryRequests DEF Chat, GetHistory
  <2> HIDE DEF r
  <2> QED BY <2>1, <2>3, LinkedReadSend DEF PagesLinked
<1>6. CASE ReadGroup
  <2> DEFINE r == GetHistory(responses[1].group, 0, Everything)
  <2>1. Read("group") /\ Send(r) /\ page' = page /\ offset' = 0
    BY <1>6 DEF ReadGroup, display
  <2>2. responses[1].group \in Groups
    BY <1>1, <2>1, ReadTypes, ResponseKinds
  <2>3. r \in Requests /\ r.kind = "history" /\ r.offset = 0
    BY <2>2, HistoryRequests DEF Chat, GetHistory
  <2> HIDE DEF r
  <2> QED BY <2>1, <2>3, LinkedReadSend DEF PagesLinked
<1>7. CASE ReadNobody
  <2>1. Read("nobody") /\ UNCHANGED <<requests, page, historyQQ, historyGroup, offset, range>>
    BY <1>7 DEF ReadNobody, display, context
  <2>2. PagesKept
    BY <1>2, <2>1
  <2> QED BY <2>1, <2>2, LinkedKept
<1>8. CASE ReadPage
  <2>1. Read("page") /\ UNCHANGED <<requests, historyQQ, historyGroup, offset, range>> /\ page' = responses[1]
    BY <1>8 DEF ReadPage, context
  <2>2. PagesKept
    BY <1>2, <2>1
  <2> QED BY <2>1, <2>2, LinkedKept
<1> QED BY <1>3, <1>4, <1>5, <1>6, <1>7, <1>8 DEF Reader

LEMMA LinkedOthers ==
  ASSUME TypeInv, TypeInv', PagesLinked, Others
  PROVE  PagesLinked'
<1>1. UNCHANGED <<historyQQ, historyGroup, offset, range, requests, page>>
  BY DEF Others, Arrive, PeerRecalls, Clean, LeaveElsewhere, AckRefused, Event, context, display
<1>2. CASE AckRefused
  <2>1. PICK r \in Responses : Reply(r) /\ r.kind = "ack"
    BY <1>2, Acks DEF AckRefused
  <2>2. PagesKept
    BY <1>1, <2>1, PagingKinds, KeptReply
  <2> QED BY <1>1, <2>2, LinkedKept
<1>3. CASE UNCHANGED responses
  BY <1>1, <1>3, KeptUnchanged, LinkedKept DEF network
<1> QED BY <1>2, <1>3 DEF Others, Arrive, PeerRecalls, Clean, LeaveElsewhere

LEMMA StepInvStep == TypeInv /\ TypeInv' /\ StepInv /\ [Next]_vars => StepInv'
<1> SUFFICES ASSUME TypeInv, TypeInv', StepInv, [Next]_vars, ~raced', ~skipped' PROVE PagesLinked'
  BY DEF StepInv
<1>1. PagesLinked
  BY FlagsStay DEF StepInv
<1>2. CASE UNCHANGED vars
  <2>1. UNCHANGED <<network, page, historyQQ, historyGroup, offset, range>>
    BY <1>2 DEF vars, display, context
  <2> QED BY <1>1, <2>1, KeptUnchanged, LinkedKept
<1> QED BY <1>1, <1>2, LinkedKeyboard, LinkedServer, LinkedReader, LinkedOthers DEF Next

LEMMA StepInvInit == Init => StepInv
<1> SUFFICES ASSUME Init PROVE PagesLinked
  BY DEF StepInv
<1>1. responses = <<>> /\ requests = <<>> /\ page = NoPage
  BY DEF Init
<1>2. UnderWay = 0 /\ DOMAIN View = 0..0 /\ View[0] = NoPage
  BY <1>1 DEF UnderWay, View
<1>3. \A k \in 0..UnderWay : k = 0
  BY <1>2
<1>4. NoPage.chat = None
  BY DEF NoPage
<1> QED BY <1>2, <1>3, <1>4 DEF PagesLinked, Chained, EndsAt

LEMMA StepInvHolds == Spec => []StepInv
BY TypeInvHolds, StepInvInit, StepInvStep, PTL DEF Spec

LEMMA StepByPageStep ==
  ASSUME TypeInv, TypeInv', StepInv, [Next]_vars,
         page'.chat = page.chat, page'.range = page.range, page' # page, ~raced, ~skipped
  PROVE  page'.offset \in {0, page.offset, page.offset + PageSize} \/ page.offset = page'.offset + PageSize
<1>1. ReadPage
  <2>1. \/ Keyboard \/ Server \/ Reader \/ Others \/ UNCHANGED vars
    BY DEF Next
  <2>2. ~UNCHANGED display
    BY DEF display
  <2>3. CASE Keyboard
    BY <2>2, <2>3 DEF Keyboard, TypeTo, TypeToGroup, TypeLeaveGroup, TypeHistory, TypeLogout, TypeOther,
       TypeRecall, BeginText, BeginPage, Type, FinishText, FinishPage, Finish
  <2>4. CASE Server
    BY <2>2, <2>4 DEF Server, Refuse, RefuseMember, CountHistory, LosePage, ServeCheckUser, ServeGroupInfo, ServeText, ServeHistory,
       ServeLeaveGroup, ServeRecall, Serve
  <2>5. CASE Reader
    BY <2>2, <2>5 DEF Reader, BeginAck, ReadAck, ReadSwitch, ReadNobody, ReadGroup
  <2>6. CASE Others
    BY <2>2, <2>6 DEF Others, Arrive, PeerRecalls, Clean, LeaveElsewhere, AckRefused, Event
  <2> QED BY <2>1, <2>2, <2>3, <2>4, <2>5, <2>6 DEF vars
<1>2. Read("page") /\ page' = responses[1]
  BY <1>1 DEF ReadPage
<1>3. responses \in Seq(Responses)
  BY DEF TypeInv, TerminalTypeOK
<1>4. Len(responses) \in Nat \ {0} /\ responses[1] \in Responses /\ responses[1].kind = "page"
  BY <1>2, <1>3, ReadEntries, ReadTypes
<1>5. 0 \in 0..UnderWay /\ 1 \in 0..UnderWay /\ View[0] = page /\ View[1] = page'
  BY <1>2, <1>4, ViewIs
<1>6. page.kind = "page"
  BY DEF TypeInv, TerminalTypeOK, HistoryResponse, NoPage
<1>7. IsPaging(View[0]) /\ IsPaging(View[1])
  BY <1>2, <1>4, <1>5, <1>6 DEF IsPaging
<1>8. NonePaging(View, 0, 1)
  <2>1. \A j \in DOMAIN View : j \in Int
    BY ViewIs
  <2> QED BY <2>1 DEF NonePaging
<1>9. Chained(View, UnderWay)
  BY DEF StepInv, PagesLinked
<1>10. View[0].chat = None \/ Near(View[0], View[1])
  BY <1>5, <1>7, <1>8, <1>9 DEF Chained
<1>11. page.chat # None
  BY <1>2, <1>4, ResponseKinds, TerminalAssumption DEF Chat
<1> QED BY <1>5, <1>10, <1>11 DEF Near

\* Two pages of one chat that follow each other on the screen are neighbours,
\* or the second is the first page.
THEOREM StepByPageHolds == Spec => StepByPage
<1>1. TypeInv /\ TypeInv' /\ StepInv /\ [Next]_vars =>
        [page'.chat = page.chat /\ page'.range = page.range /\ page' # page /\ ~raced /\ ~skipped
          => page'.offset \in {0, page.offset, page.offset + PageSize} \/ page.offset = page'.offset + PageSize]_vars
  BY StepByPageStep
<1> QED BY <1>1, TypeInvHolds, StepInvHolds, PTL DEF Spec, StepByPage

-----------------------------------------------------------------------------
(* A walk through the history.                                             *)

\* The page on the screen, and what arrives.
Arriving == [k \in 0..Len(responses) |-> IF k = 0 THEN page ELSE responses[k]]
Pages == {Arriving[k] : k \in {j \in 0..Len(responses) : Arriving[j].kind = "page"}}

\* What is selected later is what was selected, or comes after it.
After(p, S) == \A i \in S : i \in ToSet(p.all) \/ \A j \in ToSet(p.all) : j < i

\* A page shows a part of what was selected, and there is said to be more of what
\* was counted.  What was selected was counted before, or comes after all that was.
IsPage(p) ==
  /\ p.shown = Window(p.all, p.offset, PageSize)
  /\ p.more = HasMore(Cardinality(p.counted), p.offset, PageSize)
  /\ p.counted \in SUBSET Nat /\ IsFiniteSet(p.counted)
  /\ \A i \in ToSet(p.all), j \in p.counted : i < j => i \in p.counted

\* A page was selected from the rows, and is not later than they are.
OfRows(p) ==
  /\ Increasing(p.all) /\ ToSet(p.all) \subseteq DOMAIN rows
  /\ After(p, Matching(p.chat, p.range))
  /\ IsPage(p)

\* Nor is a page later than those that arrive after it.
InTurn(A, n) ==
  \A k, l \in 0..n :
    k < l /\ A[k].kind = "page" /\ A[l].kind = "page" /\ A[k].chat = A[l].chat /\ A[k].range = A[l].range
      => After(A[k], ToSet(A[l].all))

PagesInv == (\A p \in Pages : OfRows(p)) /\ InTurn(Arriving, Len(responses))

\* The pages that were seen are the beginning of what the last one was taken from,
\* and have all that was counted if there is no more.
WalkGoes(w, p) ==
  /\ Len(w.seen) <= Len(p.all)
  /\ \A k \in 1..Len(w.seen) : w.seen[k] = p.all[k]
  /\ p.more \/ p.counted \cap ToSet(p.all) \subseteq ToSet(w.seen)

WalkInv == walk.gap \/ WalkGoes(walk, page)

\* What the server has just selected.
Fresh(p) ==
  /\ Increasing(p.all) /\ ToSet(p.all) \subseteq DOMAIN rows
  /\ ToSet(p.all) = Matching(p.chat, p.range)
  /\ IsPage(p)

LEMMA FreshOfRows ==
  ASSUME NEW p, Fresh(p)
  PROVE  OfRows(p)
BY DEF Fresh, OfRows, After

LEMMA OfRowsKept ==
  ASSUME TypeInv, [Next]_vars
  PROVE  \A p : OfRows(p) => OfRows(p)'
<1> SUFFICES ASSUME NEW p, OfRows(p) PROVE OfRows(p)'
  OBVIOUS
<1>1. DOMAIN rows \subseteq DOMAIN rows'
  BY MatchingStep
<1>2. \A i \in Matching(p.chat, p.range)' : i \in Matching(p.chat, p.range) \/ \A j \in DOMAIN rows : j < i
  BY MatchingStep
<1>3. After(p, Matching(p.chat, p.range)')
  BY <1>2 DEF OfRows, After
<1> QED BY <1>1, <1>3 DEF OfRows, IsPage, Window, HasMore


\* What a step does to the pages.
LEMMA ArrivingStep ==
  ASSUME TypeInv, TypeInv', [Next]_vars
  PROVE  \/ UNCHANGED <<responses, page>>
         \/ \E r \in Responses : Reply(r) /\ page' = page /\ (r.kind = "page" => Fresh(r))
         \/ \E kind : /\ Read(kind)
                      /\ ((kind # "page" /\ page' = page) \/ (kind = "page" /\ page' = responses[1]))
<1> DEFINE Goal == \/ UNCHANGED <<responses, page>>
                   \/ \E r \in Responses : Reply(r) /\ page' = page /\ (r.kind = "page" => Fresh(r))
                   \/ \E kind : /\ Read(kind)
                                /\ ((kind # "page" /\ page' = page) \/ (kind = "page" /\ page' = responses[1]))
<1>1. CASE Keyboard
  BY <1>1 DEF Keyboard, TypeTo, TypeToGroup, TypeLeaveGroup, TypeHistory, TypeLogout, TypeOther,
       TypeRecall, BeginText, BeginPage, Type, FinishText, FinishPage, Finish, display
<1>2. CASE ServeHistory
  <2> DEFINE q == requests[1]
             p == PageOf(q)
  <2>1. Serve("history") /\ counted # NotCounted /\ Reply(p)
    BY <1>2 DEF ServeHistory
  <2>2. /\ p \in Responses /\ p.chat = q.chat /\ p.range = q.range
        /\ p.all = Selected(q.chat, q.range) /\ p.shown = Window(p.all, p.offset, PageSize)
        /\ p.more = HasMore(Cardinality(counted), p.offset, PageSize) /\ p.counted = counted
    BY <2>1, PageTypes
  <2>3. RowTypes /\ Len(rows) \in Nat /\ DOMAIN rows = 1..Len(rows)
    BY LenProperties DEF TypeInv, TerminalTypeOK, RowTypes
  <2>4. /\ Increasing(p.all) /\ ToSet(p.all) = Matching(p.chat, p.range)
        /\ Matching(p.chat, p.range) \subseteq DOMAIN rows
    BY <2>2, <2>3, SelectedProperties
  <2>5. /\ counted \subseteq DOMAIN rows
        /\ \A i \in Matching(q.chat, q.range), j \in counted : i < j => i \in counted
    BY <2>1 DEF TypeInv, CountedFirst
  <2> HIDE DEF p
  <2>6. counted \in SUBSET Nat /\ IsFiniteSet(counted)
    <3>1. IsFiniteSet(1..Len(rows))
      BY <2>3, FS_Interval
    <3> QED BY <2>3, <2>5, <3>1, FS_Subset
  <2>7. IsPage(p)
    BY <2>2, <2>4, <2>5, <2>6 DEF IsPage
  <2>8. Fresh(p)
    BY <2>4, <2>7 DEF Fresh
  <2>9. page' = page
    BY <2>1 DEF Serve, display
  <2> QED BY <2>1, <2>2, <2>8, <2>9
<1>3. CASE Server /\ ~ServeHistory
  <2>1. CASE CountHistory
    BY <2>1 DEF CountHistory, network, display
  <2>2. CASE LosePage
    BY <2>2 DEF LosePage, Serve, display
  <2>3. CASE ~CountHistory /\ ~LosePage
    <3>1. PICK kind \in Kinds, r \in Responses : Serve(kind) /\ Reply(r) /\ (r.kind = "page" => ServeHistory)
      BY <1>3, <2>3, ServerAnswers
    <3>2. page' = page
      BY <3>1 DEF Serve, display
    <3> QED BY <1>3, <3>1, <3>2
  <2> QED BY <2>1, <2>2, <2>3
<1>4. CASE Reader
  <2>1. CASE BeginAck
    BY <2>1 DEF BeginAck, network, display
  <2>2. CASE ReadPage
    BY <2>2 DEF ReadPage
  <2>3. CASE ReadAck \/ ReadSwitch \/ ReadNobody \/ ReadGroup
    <3>1. \E kind \in {"ack", "switch", "nobody", "group"} : Read(kind) /\ page' = page
      BY <2>3 DEF ReadAck, ReadSwitch, ReadNobody, ReadGroup, display
    <3> QED BY <3>1
  <2> QED BY <1>4, <2>1, <2>2, <2>3 DEF Reader
<1>5. CASE AckRefused
  <2>1. PICK r \in Responses : Reply(r) /\ r.kind = "ack"
    BY <1>5, Acks DEF AckRefused
  <2>2. page' = page
    BY <1>5 DEF AckRefused, Event, display
  <2> QED BY <2>1, <2>2
<1>6. CASE Others /\ ~AckRefused
  BY <1>6 DEF Others, Arrive, PeerRecalls, Clean, LeaveElsewhere, Event, display
<1>7. CASE UNCHANGED vars
  BY <1>7 DEF vars, network, display
<1> QED BY <1>1, <1>2, <1>3, <1>4, <1>5, <1>6, <1>7 DEF Next

LEMMA ArrivingIs ==
  ASSUME TypeInv
  PROVE  Len(responses) \in Nat /\ \A k \in 0..Len(responses) : Arriving[k] = IF k = 0 THEN page ELSE responses[k]
BY LenProperties DEF Arriving, TypeInv, TerminalTypeOK

LEMMA PagesAfterReply ==
  ASSUME TypeInv, PagesInv, NEW r \in Responses, Reply(r), page' = page, r.kind = "page" => Fresh(r)
  PROVE  (\A p \in Pages' : OfRows(p)) /\ InTurn(Arriving', Len(responses'))
<1> DEFINE n == Len(responses)
           A == Arriving
           B == Arriving'
<1>1. /\ n \in Nat /\ Len(responses') = n + 1 /\ \A i \in 1..n : responses'[i] = responses[i]
      /\ responses'[n + 1] = r
  BY ReplyEntries DEF TypeInv, TerminalTypeOK
<1>2. \A k \in 0..n : A[k] = IF k = 0 THEN page ELSE responses[k]
  BY ArrivingIs
<1>3. \A k \in 0..(n + 1) : B[k] = IF k = 0 THEN page ELSE responses'[k]
  BY <1>1 DEF Arriving
<1>4. Pages' = {B[k] : k \in {j \in 0..(n + 1) : B[j].kind = "page"}}
  BY <1>1 DEF Pages
<1>5. Pages = {A[k] : k \in {j \in 0..n : A[j].kind = "page"}} /\ InTurn(A, n)
  BY DEF Pages, PagesInv
<1> HIDE DEF n, A, B
<1>6. \A k \in 0..n : B[k] = A[k] /\ k \in 0..(n + 1)
  <2> SUFFICES ASSUME NEW k \in 0..n PROVE B[k] = A[k] /\ k \in 0..(n + 1)
    OBVIOUS
  <2>1. k \in 0..(n + 1) /\ (k # 0 => k \in 1..n)
    BY <1>1
  <2> QED BY <1>1, <1>2, <1>3, <2>1
<1>7. B[n + 1] = r
  <2>1. n + 1 \in 0..(n + 1) /\ n + 1 # 0
    BY <1>1
  <2> QED BY <1>1, <1>3, <2>1
<1>8. ASSUME NEW k \in 0..(n + 1), B[k].kind = "page", k # n + 1 PROVE k \in 0..n /\ A[k] \in Pages /\ B[k] = A[k]
  <2>1. k \in 0..n
    BY <1>1, <1>8
  <2> QED BY <1>5, <1>6, <1>8, <2>1
<1>9. \A p \in Pages' : OfRows(p)
  <2> SUFFICES ASSUME NEW k \in 0..(n + 1), B[k].kind = "page" PROVE OfRows(B[k])
    BY <1>4
  <2> QED BY <1>7, <1>8, FreshOfRows DEF PagesInv
<1>10. InTurn(B, n + 1)
  <2> SUFFICES ASSUME NEW k \in 0..(n + 1), NEW l \in 0..(n + 1), k < l, B[k].kind = "page", B[l].kind = "page",
                      B[k].chat = B[l].chat, B[k].range = B[l].range
               PROVE  After(B[k], ToSet(B[l].all))
    BY DEF InTurn
  <2>1. k # n + 1
    BY <1>1
  <2>2. k \in 0..n /\ A[k] \in Pages /\ B[k] = A[k]
    BY <1>8, <2>1
  <2>3. CASE l = n + 1
    <3>1. ToSet(B[l].all) = Matching(B[k].chat, B[k].range)
      BY <1>7, <2>3 DEF Fresh
    <3>2. After(B[k], Matching(B[k].chat, B[k].range))
      BY <2>2 DEF PagesInv, OfRows
    <3> QED BY <3>1, <3>2
  <2>4. CASE l # n + 1
    <3>1. l \in 0..n /\ B[l] = A[l]
      BY <1>8, <2>4
    <3> QED BY <1>5, <2>2, <3>1 DEF InTurn
  <2> QED BY <2>3, <2>4
<1> QED BY <1>1, <1>9, <1>10 DEF B

LEMMA PagesAfterRead ==
  ASSUME TypeInv, PagesInv, NEW kind, Read(kind),
         (kind # "page" /\ page' = page) \/ (kind = "page" /\ page' = responses[1])
  PROVE  (\A p \in Pages' : OfRows(p)) /\ InTurn(Arriving', Len(responses'))
<1> DEFINE n == Len(responses)
           A == Arriving
           B == Arriving'
           g == [k \in 0..(n - 1) |-> IF k = 0 /\ kind # "page" THEN 0 ELSE k + 1]
<1>1. /\ n \in Nat \ {0} /\ Len(responses') = n - 1 /\ \A i \in 1..(n - 1) : responses'[i] = responses[i + 1]
  BY ReadEntries DEF TypeInv, TerminalTypeOK
<1>2. \A k \in 0..n : A[k] = IF k = 0 THEN page ELSE responses[k]
  BY ArrivingIs
<1>3. \A k \in 0..(n - 1) : B[k] = IF k = 0 THEN page' ELSE responses'[k]
  BY <1>1 DEF Arriving
<1>4. Pages' = {B[k] : k \in {j \in 0..(n - 1) : B[j].kind = "page"}}
  BY <1>1 DEF Pages
<1>5. Pages = {A[k] : k \in {j \in 0..n : A[j].kind = "page"}} /\ InTurn(A, n)
  BY DEF Pages, PagesInv
<1> HIDE DEF n, A, B
<1>6. \A k \in 0..(n - 1) : g[k] \in 0..n /\ B[k] = A[g[k]]
  <2> SUFFICES ASSUME NEW k \in 0..(n - 1) PROVE g[k] \in 0..n /\ B[k] = A[g[k]]
    OBVIOUS
  <2>1. g[k] \in 0..n
    BY <1>1
  <2>2. CASE k = 0
    <3>1. 0 \in 0..n /\ 1 \in 0..n
      BY <1>1
    <3> QED BY <1>2, <1>3, <2>2, <3>1
  <2>3. CASE k # 0
    <3>1. g[k] = k + 1 /\ k \in 1..(n - 1) /\ k + 1 \in 0..n /\ k + 1 # 0
      BY <1>1, <2>3
    <3>2. A[k + 1] = responses[k + 1]
      BY <1>2, <3>1
    <3> QED BY <1>1, <1>3, <2>3, <3>1, <3>2
  <2> QED BY <2>1, <2>2, <2>3
<1>7. \A k, l \in 0..(n - 1) : k < l => g[k] < g[l]
  <2> SUFFICES ASSUME NEW k \in 0..(n - 1), NEW l \in 0..(n - 1), k < l PROVE g[k] < g[l]
    OBVIOUS
  <2>1. g[k] <= k + 1 /\ g[l] = l + 1 /\ g[k] \in 0..n
    BY <1>1
  <2> QED BY <2>1
<1> HIDE DEF g
<1>8. \A p \in Pages' : OfRows(p)
  <2> SUFFICES ASSUME NEW k \in 0..(n - 1), B[k].kind = "page" PROVE OfRows(B[k])
    BY <1>4
  <2>1. B[k] \in Pages
    BY <1>5, <1>6
  <2> QED BY <2>1 DEF PagesInv
<1>9. InTurn(B, n - 1)
  BY <1>5, <1>6, <1>7 DEF InTurn
<1> QED BY <1>1, <1>8, <1>9 DEF B

LEMMA PagesInvStep == TypeInv /\ TypeInv' /\ PagesInv /\ [Next]_vars => PagesInv'
<1> SUFFICES ASSUME TypeInv, TypeInv', PagesInv, [Next]_vars PROVE PagesInv'
  OBVIOUS
<1>1. (\A p \in Pages' : OfRows(p)) /\ InTurn(Arriving', Len(responses'))
  <2>1. CASE UNCHANGED <<responses, page>>
    BY <2>1 DEF PagesInv, Pages, Arriving
  <2> QED BY <2>1, ArrivingStep, PagesAfterReply, PagesAfterRead
<1>2. \A p \in Pages' : OfRows(p)'
  BY <1>1, OfRowsKept
<1> QED BY <1>1, <1>2 DEF PagesInv

\* Before the first page, none is on the screen.
LEMMA PagesInvInit == Init => PagesInv
<1> SUFFICES ASSUME Init PROVE PagesInv
  OBVIOUS
<1>1. responses = <<>> /\ page = NoPage
  BY DEF Init
<1>2. Len(responses) = 0 /\ Arriving[0] = NoPage
  BY <1>1 DEF Arriving
<1>3. \A k \in 0..0 : k = 0
  OBVIOUS
<1>4. Pages = {NoPage}
  <2>1. NoPage.kind = "page"
    BY DEF NoPage
  <2>2. {j \in 0..0 : Arriving[j].kind = "page"} = {0}
    BY <1>2, <1>3, <2>1
  <2>3. Pages = {Arriving[k] : k \in {j \in 0..0 : Arriving[j].kind = "page"}}
    BY <1>2 DEF Pages
  <2>4. Pages = {Arriving[k] : k \in {0}}
    BY <2>2, <2>3
  <2> QED BY <1>2, <2>4
<1>5. /\ NoPage.all = <<>> /\ NoPage.shown = <<>> /\ NoPage.more = FALSE /\ NoPage.offset = 0
      /\ NoPage.counted = {}
  BY DEF NoPage
<1>6. ToSet(<<>>) = {} /\ Increasing(<<>>)
  BY DEF ToSet, Increasing
<1>7. IsPage(NoPage)
  <2>1. <<>> \in Seq(Nat) /\ Len(<<>>) = 0 /\ PageSize \in Nat \ {0}
    BY EmptySeq, TerminalAssumption
  <2>2. /\ Window(<<>>, 0, PageSize) \in Seq(Nat)
        /\ Len(Window(<<>>, 0, PageSize)) =
             IF 0 + PageSize <= Len(<<>>) THEN PageSize ELSE IF 0 <= Len(<<>>) THEN Len(<<>>) - 0 ELSE 0
    BY <2>1, WindowProperties
  <2>3. ~(0 + PageSize <= 0) /\ ~(0 + PageSize < 0) /\ 0 <= 0 /\ 0 - 0 = 0
    BY <2>1
  <2>4. Len(Window(<<>>, 0, PageSize)) = 0
    BY <2>1, <2>2, <2>3
  <2>5. Window(<<>>, 0, PageSize) = <<>>
    BY <2>2, <2>4, EmptySeq
  <2>6. IsFiniteSet({}) /\ Cardinality({}) = 0
    BY FS_EmptySet
  <2>7. ~HasMore(Cardinality({}), 0, PageSize)
    BY <2>3, <2>6 DEF HasMore
  <2>8. HasMore(Cardinality({}), 0, PageSize) \in BOOLEAN
    BY DEF HasMore
  <2> QED BY <1>5, <2>5, <2>6, <2>7, <2>8 DEF IsPage
<1>8. OfRows(NoPage)
  <2>1. NoPage.chat = None /\ NoPage.range = Everything
    BY DEF NoPage
  <2> QED BY <1>5, <1>6, <1>7, <2>1 DEF OfRows, After
<1>9. InTurn(Arriving, Len(responses))
  BY <1>2, <1>3 DEF InTurn
<1> QED BY <1>4, <1>8, <1>9 DEF PagesInv

LEMMA PagesInvHolds == Spec => []PagesInv
BY TypeInvHolds, PagesInvInit, PagesInvStep, PTL DEF Spec

\* Rows that were counted, with all that are before them, are among the first.
LEMMA CountedPlace ==
  ASSUME NEW s \in Seq(Nat), Increasing(s), NEW C, IsFiniteSet(C),
         \A i \in ToSet(s), j \in C : i < j => i \in C,
         NEW m \in 1..Len(s), s[m] \in C
  PROVE  m <= Cardinality(C)
<1>1. \A i \in 1..Len(s) : s[i] \in Nat
  BY ElementOfSeq
<1>2. DOMAIN s = 1..Len(s)
  BY LenProperties
<1>3. UpTo(ToSet(s), s[m]) \subseteq C
  <2> SUFFICES ASSUME NEW k \in 1..Len(s), s[k] <= s[m] PROVE s[k] \in C
    BY <1>2 DEF UpTo, ToSet
  <2>1. s[k] \in ToSet(s)
    BY <1>2 DEF ToSet
  <2>2. s[k] = s[m] \/ s[k] < s[m]
    BY <1>1
  <2> QED BY <2>1, <2>2
<1>4. Cardinality(UpTo(ToSet(s), s[m])) <= Cardinality(C)
  BY <1>3, FS_Subset
<1> QED BY <1>4, PlaceIsRank

\* The next page continues what was seen, and if it is said to be the last one,
\* all that was counted has been seen.
LEMMA NextPage ==
  ASSUME NEW r, r.all \in Seq(Nat), Increasing(r.all), IsPage(r), NEW seen \in Seq(Nat), r.offset = Len(seen),
         Len(seen) <= Len(r.all), \A k \in 1..Len(seen) : seen[k] = r.all[k]
  PROVE  /\ Len(seen \o r.shown) <= Len(r.all)
         /\ \A k \in 1..Len(seen \o r.shown) : (seen \o r.shown)[k] = r.all[k]
         /\ r.more \/ r.counted \cap ToSet(r.all) \subseteq ToSet(seen \o r.shown)
<1> DEFINE s == r.all
           o == Len(seen)
           w == Window(s, o, PageSize)
           t == seen \o w
           n == Len(s)
<1>1. o \in Nat /\ n \in Nat /\ PageSize \in Nat \ {0} /\ o <= n
  BY LenProperties, TerminalAssumption
<1>2. /\ w \in Seq(Nat)
      /\ Len(w) = IF o + PageSize <= n THEN PageSize ELSE IF o <= n THEN n - o ELSE 0
      /\ \A i \in 1..Len(w) : o + i \in 1..n /\ w[i] = s[o + i]
  BY <1>1, WindowProperties
<1>3. /\ r.shown = w /\ r.more = HasMore(Cardinality(r.counted), o, PageSize)
      /\ r.counted \in SUBSET Nat /\ IsFiniteSet(r.counted)
      /\ \A i \in ToSet(s), j \in r.counted : i < j => i \in r.counted
  BY DEF IsPage
<1>4. DOMAIN s = 1..n
  BY LenProperties
<1> HIDE DEF w
<1>5. t \in Seq(Nat) /\ Len(t) = o + Len(w) /\ \A i \in 1..(o + Len(w)) : t[i] = IF i <= o THEN seen[i] ELSE w[i - o]
  <2>1. seen \in Seq(Nat) /\ w \in Seq(Nat)
    BY <1>2
  <2>2. /\ seen \o w \in Seq(Nat) /\ Len(seen \o w) = Len(seen) + Len(w)
        /\ \A i \in 1..(Len(seen) + Len(w)) : (seen \o w)[i] = IF i <= Len(seen) THEN seen[i] ELSE w[i - Len(seen)]
    BY <2>1, ConcatProperties
  <2> QED BY <2>2
<1>6. DOMAIN t = 1..Len(t)
  BY <1>5, LenProperties
<1>7. Cardinality(r.counted) \in Nat
  BY <1>3, FS_CardinalityType
<1>8. \A m \in 1..n : s[m] \in r.counted => m <= Cardinality(r.counted)
  BY <1>3, CountedPlace
<1>9. \A k \in 1..o : seen[k] = s[k]
  OBVIOUS
<1> HIDE DEF o, n, t, s
<1>10. Len(w) \in Nat /\ Len(t) \in Nat
  BY <1>1, <1>2, <1>5
<1>11. Len(t) <= n /\ (Len(t) = n \/ Len(t) = o + PageSize)
  BY <1>1, <1>2, <1>5
<1>12. ASSUME NEW k \in 1..Len(t) PROVE t[k] = s[k]
  <2>1. k \in 1..(o + Len(w))
    BY <1>5
  <2>2. CASE k <= o
    <3>1. k \in 1..o
      BY <1>1, <2>2
    <3> QED BY <1>5, <1>9, <2>1, <2>2, <3>1
  <2>3. CASE ~(k <= o)
    <3>1. k - o \in 1..Len(w) /\ o + (k - o) = k
      BY <1>1, <1>10, <2>1, <2>3
    <3>2. w[k - o] = s[o + (k - o)]
      BY <1>2, <3>1
    <3> QED BY <1>5, <2>1, <2>3, <3>1, <3>2
  <2> QED BY <2>2, <2>3
<1>13. ASSUME ~r.more, NEW x \in r.counted \cap ToSet(s) PROVE x \in ToSet(t)
  <2>1. ~(o + PageSize < Cardinality(r.counted))
    BY <1>3, <1>13 DEF HasMore
  <2>2. PICK m \in 1..n : x = s[m]
    BY <1>4, <1>13 DEF ToSet
  <2>3. m <= Cardinality(r.counted)
    BY <1>8, <1>13, <2>2
  <2>4. m \in 1..Len(t)
    BY <1>1, <1>7, <1>10, <1>11, <2>1, <2>3
  <2> QED BY <1>6, <1>12, <2>2, <2>4 DEF ToSet
<1>14. r.more \/ r.counted \cap ToSet(s) \subseteq ToSet(t)
  BY <1>13
<1> QED BY <1>3, <1>11, <1>12, <1>14 DEF o, t, n, s

\* What was seen of a page is the beginning of a later one that has it all.
LEMMA SeenAgain ==
  ASSUME NEW seen \in Seq(Nat), NEW a \in Seq(Nat), NEW b \in Seq(Nat), Increasing(a), Increasing(b),
         Len(seen) <= Len(a), \A k \in 1..Len(seen) : seen[k] = a[k], ToSet(seen) \subseteq ToSet(b),
         \A i \in ToSet(b) : i \in ToSet(a) \/ \A j \in ToSet(a) : j < i
  PROVE  Len(seen) <= Len(b) /\ \A k \in 1..Len(seen) : seen[k] = b[k]
<1>1. /\ Len(seen) \in Nat /\ DOMAIN seen = 1..Len(seen) /\ Len(a) \in Nat /\ DOMAIN a = 1..Len(a)
      /\ \A i \in 1..Len(a) : a[i] \in Nat
  BY LenProperties, ElementOfSeq
<1>2. \A k \in 1..Len(seen) : k \in 1..Len(a)
  BY <1>1
<1>3. Increasing(seen)
  BY <1>1, <1>2 DEF Increasing
<1>4. ASSUME NEW x \in ToSet(b) PROVE x \in ToSet(seen) \/ \A y \in ToSet(seen) : y < x
  <2>1. \A y \in ToSet(seen) : \E k \in 1..Len(seen) : y = a[k]
    BY <1>1 DEF ToSet
  <2>2. ToSet(seen) \subseteq ToSet(a)
    BY <1>1, <1>2, <2>1 DEF ToSet
  <2>3. CASE \A j \in ToSet(a) : j < x
    BY <2>2, <2>3
  <2>4. CASE x \in ToSet(a)
    <3>1. PICK m \in 1..Len(a) : x = a[m]
      BY <1>1, <2>4 DEF ToSet
    <3>2. CASE m <= Len(seen)
      <4>1. m \in 1..Len(seen)
        BY <1>1, <3>2
      <4> QED BY <1>1, <3>1, <4>1 DEF ToSet
    <3>3. CASE ~(m <= Len(seen))
      <4>1. \A k \in 1..Len(seen) : k < m
        BY <1>1, <3>3
      <4>2. \A k \in 1..Len(seen) : a[k] < a[m]
        BY <1>1, <1>2, <4>1 DEF Increasing
      <4> QED BY <2>1, <3>1, <4>2
    <3> QED BY <3>2, <3>3
  <2> QED BY <2>3, <2>4
<1> QED BY <1>3, <1>4, Prefix

LEMMA WalkReadPage ==
  ASSUME TypeInv, TypeInv', PagesInv, WalkInv, ReadPage
  PROVE  WalkInv'
<1> DEFINE r == responses[1]
           first == [next |-> PageSize, seen |-> r.shown, gap |-> FALSE]
           more == [next |-> walk.next + PageSize, seen |-> walk.seen \o r.shown,
                    gap |-> walk.gap \/ Len(walk.seen) # walk.next
                              \/ ~(ToSet(walk.seen) \subseteq ToSet(r.all))]
           broken == [walk EXCEPT !.gap = TRUE]
           continues == r.offset = walk.next /\ page.more /\ r.chat = page.chat /\ r.range = page.range
<1>1. responses \in Seq(Responses) /\ walk \in [next : Nat, seen : Seq(Nat), gap : BOOLEAN]
  BY DEF TypeInv, TerminalTypeOK
<1>2. Read("page") /\ page' = r
  BY DEF ReadPage
<1>3. /\ Len(responses) \in Nat \ {0} /\ r \in HistoryResponse /\ r.kind = "page" /\ r.offset \in Nat
      /\ r.shown \in Seq(Nat) /\ r.all \in Seq(Nat)
  BY <1>1, <1>2, ReadEntries, ReadTypes, ResponseKinds
<1>4. /\ page.kind = "page" /\ page.all \in Seq(Nat)
  <2>1. NoPage.kind = "page" /\ NoPage.all = <<>>
    BY DEF NoPage
  <2>2. page \in HistoryResponse \cup {NoPage}
    BY DEF TypeInv, TerminalTypeOK
  <2>3. <<>> \in Seq(Nat)
    BY EmptySeq
  <2> QED BY <2>1, <2>2, <2>3 DEF HistoryResponse
<1>5. 0 \in 0..Len(responses) /\ 1 \in 0..Len(responses) /\ Arriving[0] = page /\ Arriving[1] = r
  BY <1>3, ArrivingIs
<1>6. page \in Pages /\ r \in Pages
  BY <1>3, <1>4, <1>5 DEF Pages
<1>7. Increasing(page.all) /\ Increasing(r.all) /\ IsPage(r)
  BY <1>6 DEF PagesInv, OfRows
<1>8. walk' = CASE r.offset = 0 -> first [] r.offset > 0 /\ continues -> more [] OTHER -> broken
  BY DEF ReadPage
<1>9. CASE r.offset = 0
  <2>1. walk' = first
    BY <1>8, <1>9
  <2>2. first.seen = r.shown /\ first.next = PageSize
    OBVIOUS
  <2>3. <<>> \in Seq(Nat) /\ Len(<<>>) = 0 /\ <<>> \o r.shown = r.shown
    BY <1>3, EmptySeq, ConcatEmptySeq
  <2>4. Len(<<>>) <= Len(r.all) /\ r.offset = Len(<<>>) /\ \A k \in 1..Len(<<>>) : <<>>[k] = r.all[k]
    BY <1>3, <1>9, <2>3, LenProperties
  <2> HIDE DEF r
  <2>5. /\ Len(<<>> \o r.shown) <= Len(r.all)
        /\ \A k \in 1..Len(<<>> \o r.shown) : (<<>> \o r.shown)[k] = r.all[k]
        /\ r.more \/ r.counted \cap ToSet(r.all) \subseteq ToSet(<<>> \o r.shown)
    BY <1>3, <1>7, <2>3, <2>4, NextPage
  <2> HIDE DEF first
  <2>6. WalkGoes(first, r)
    BY <2>2, <2>3, <2>5 DEF WalkGoes
  <2> QED BY <1>2, <2>1, <2>6 DEF WalkInv, WalkGoes
<1>10. CASE r.offset # 0 /\ continues
  <2>1. walk' = more
    BY <1>3, <1>8, <1>10
  <2>2. more.seen = walk.seen \o r.shown /\ more.next = walk.next + PageSize
        /\ (~more.gap => ~walk.gap /\ Len(walk.seen) = walk.next /\ ToSet(walk.seen) \subseteq ToSet(r.all))
    OBVIOUS
  <2> SUFFICES ASSUME ~more.gap PROVE WalkGoes(more, r)
    <3> HIDE DEF more, r
    <3> QED BY <1>2, <2>1 DEF WalkInv, WalkGoes
  <2>3. ~walk.gap /\ Len(walk.seen) = walk.next /\ ToSet(walk.seen) \subseteq ToSet(r.all)
    BY <2>2
  <2>4. /\ Len(walk.seen) <= Len(page.all)
        /\ \A k \in 1..Len(walk.seen) : walk.seen[k] = page.all[k]
    BY <2>3 DEF WalkInv, WalkGoes
  <2>5. After(page, ToSet(r.all))
    <3>1. InTurn(Arriving, Len(responses)) /\ 0 < 1
      BY DEF PagesInv
    <3> QED BY <1>3, <1>4, <1>5, <1>10, <3>1 DEF InTurn
  <2>6. Len(walk.seen) <= Len(r.all) /\ \A k \in 1..Len(walk.seen) : walk.seen[k] = r.all[k]
    BY <1>1, <1>3, <1>4, <1>7, <2>3, <2>4, <2>5, SeenAgain DEF After
  <2>7. r.offset = Len(walk.seen) /\ walk.seen \in Seq(Nat)
    BY <1>1, <1>10, <2>3
  <2> HIDE DEF r
  <2>8. /\ Len(walk.seen \o r.shown) <= Len(r.all)
        /\ \A k \in 1..Len(walk.seen \o r.shown) : (walk.seen \o r.shown)[k] = r.all[k]
        /\ r.more \/ r.counted \cap ToSet(r.all) \subseteq ToSet(walk.seen \o r.shown)
    BY <1>3, <1>7, <2>6, <2>7, NextPage
  <2> HIDE DEF more
  <2> QED BY <2>2, <2>8 DEF WalkGoes
<1>11. CASE r.offset # 0 /\ ~continues
  <2>1. walk' = broken
    BY <1>8, <1>11
  <2>2. broken.gap = TRUE
    BY <1>1
  <2> HIDE DEF broken
  <2> QED BY <2>1, <2>2 DEF WalkInv, WalkGoes
<1> QED BY <1>9, <1>10, <1>11

LEMMA WalkInvStep == TypeInv /\ TypeInv' /\ PagesInv /\ WalkInv /\ [Next]_vars => WalkInv'
<1> SUFFICES ASSUME TypeInv, TypeInv', PagesInv, WalkInv, [Next]_vars PROVE WalkInv'
  OBVIOUS
<1>1. CASE UNCHANGED display
  BY <1>1 DEF WalkInv, WalkGoes, display
<1>2. CASE Keyboard
  BY <1>1, <1>2 DEF Keyboard, TypeTo, TypeToGroup, TypeLeaveGroup, TypeHistory, TypeLogout, TypeOther,
       TypeRecall, BeginText, FinishText, BeginPage, FinishPage, Type, Finish
<1>3. CASE Reader
  BY <1>1, <1>3, WalkReadPage DEF Reader, BeginAck, ReadAck, ReadSwitch, ReadNobody, ReadGroup
<1>4. CASE Server
  BY <1>1, <1>4 DEF Server, Refuse, RefuseMember, CountHistory, LosePage, ServeCheckUser, ServeGroupInfo, ServeText,
       ServeHistory, ServeLeaveGroup, ServeRecall, Serve
<1>5. CASE Others
  BY <1>1, <1>5 DEF Others, Arrive, PeerRecalls, Clean, LeaveElsewhere, AckRefused, Event
<1>6. CASE UNCHANGED vars
  BY <1>1, <1>6 DEF vars
<1> QED BY <1>2, <1>3, <1>4, <1>5, <1>6 DEF Next

LEMMA WalkInvInit == Init => WalkInv
<1> SUFFICES ASSUME Init PROVE WalkInv
  OBVIOUS
<1>1. page.all = <<>> /\ page.counted = {} /\ walk.seen = <<>>
  BY DEF Init, NoPage
<1>2. Len(<<>>) = 0
  OBVIOUS
<1> QED BY <1>1, <1>2 DEF WalkInv, WalkGoes

LEMMA WalkInvHolds == Spec => []WalkInv
BY TypeInvHolds, PagesInvHolds, WalkInvInit, WalkInvStep, PTL DEF Spec

LEMMA WalkInvImplies == TypeInv /\ WalkInv => WalkComplete
<1> SUFFICES ASSUME TypeInv, WalkInv, ~walk.gap
             PROVE  /\ IsPrefix(walk.seen, page.all)
                    /\ page.more \/ page.counted \cap ToSet(page.all) \subseteq ToSet(walk.seen)
  BY DEF WalkComplete
<1> DEFINE s == walk.seen
           t == page.all
           n == Len(s)
<1>1. s \in Seq(Nat) /\ t \in Seq(Nat)
  <2>1. NoPage.all = <<>> /\ <<>> \in Seq(Nat)
    BY EmptySeq DEF NoPage
  <2> QED BY <2>1 DEF TypeInv, TerminalTypeOK, HistoryResponse
<1>2. n <= Len(t) /\ (\A k \in 1..n : s[k] = t[k]) /\ (page.more \/ page.counted \cap ToSet(t) \subseteq ToSet(s))
  BY DEF WalkInv, WalkGoes
<1> HIDE DEF s, t
<1>3. n \in Nat /\ Len(t) \in Nat
  BY <1>1, LenProperties
<1>4. \A k \in 1..n : s[k] \in Nat /\ t[k] \in Nat
  BY <1>1, <1>2, <1>3, ElementOfSeq
<1>5. /\ SubSeq(s, 1, n) \in Seq(Nat) /\ Len(SubSeq(s, 1, n)) = IF 1 <= n THEN n - 1 + 1 ELSE 0
      /\ \A i \in 1..(n - 1 + 1) : SubSeq(s, 1, n)[i] = s[1 + i - 1]
  BY <1>3, <1>4, SubSeqProperties
<1>6. /\ SubSeq(t, 1, n) \in Seq(Nat) /\ Len(SubSeq(t, 1, n)) = IF 1 <= n THEN n - 1 + 1 ELSE 0
      /\ \A i \in 1..(n - 1 + 1) : SubSeq(t, 1, n)[i] = t[1 + i - 1]
  BY <1>3, <1>4, SubSeqProperties
<1> HIDE DEF n
<1>7. \A i \in 1..n : SubSeq(s, 1, n)[i] = SubSeq(t, 1, n)[i]
  <2> SUFFICES ASSUME NEW i \in 1..n PROVE SubSeq(s, 1, n)[i] = SubSeq(t, 1, n)[i]
    OBVIOUS
  <2>1. n - 1 + 1 = n /\ 1 + i - 1 = i
    BY <1>3
  <2> QED BY <1>2, <1>5, <1>6, <2>1
<1>8. Len(SubSeq(s, 1, n)) = n
  BY <1>3, <1>5
<1>9. SubSeq(s, 1, n) = SubSeq(t, 1, n)
  BY <1>5, <1>6, <1>7, <1>8, SeqEqual
<1> QED BY <1>2, <1>9 DEF IsPrefix, s, t, n

\* Who begins with the first page and types /prev as long as there is said to be
\* more has seen the rows of the chat in their order and without a gap, and at the
\* end all that were counted and are there yet.
THEOREM WalkCompleteHolds == Spec => []WalkComplete
BY TypeInvHolds, WalkInvHolds, WalkInvImplies, PTL
=============================================================================
