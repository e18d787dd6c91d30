---------------------------- MODULE DeliveryProofs --------------------------
(***************************************************************************)
(* Delivery.tla implements the mailbox of Mailbox.tla, for every number of  *)
(* messages, connections and faults.                                       *)
(***************************************************************************)
EXTENDS Delivery, SequenceTheorems, TLAPS

Shown == {m \in Messages : shown[m] > 0}
Handled == delivered \cup unmarked
AckOf(S) == [kind : {"delivered", "read"}, id : S]

\* The acknowledgement at place i of s, if it is a read receipt, comes after
\* the delivery acknowledgement of the same message, or that one was handled:
\* D are the messages for which it was.
Covered(s, i, D) ==
  s[i].kind = "read" =>
    \/ s[i].id \in D
    \/ \E j \in 1..(i-1) : s[j] = [kind |-> "delivered", id |-> s[i].id]

FlowInv ==
  /\ rows = {m \in Messages : sender[m] # "unsent"}
  /\ down \in [Conns -> Seq(rows)]
  /\ todo \in [Conns -> SUBSET rows]
  /\ up \in [Conns -> Seq(AckOf(Shown))]
  /\ \A c \in Conns : \A i \in 1..Len(up[c]) : Covered(up[c], i, Handled)
  /\ Shown \subseteq rows
  /\ delivered \subseteq Shown
  /\ read \subseteq Shown
  /\ read \subseteq Handled

Inv == TypeOK /\ FlowInv

-----------------------------------------------------------------------------
(* Sequences.                                                              *)

LEMMA SeqMonotone ==
  ASSUME NEW S, NEW T, S \subseteq T
  PROVE  Seq(S) \subseteq Seq(T)
OBVIOUS

LEMMA AckMonotone ==
  ASSUME NEW S, NEW T, S \subseteq T
  PROVE  Seq(AckOf(S)) \subseteq Seq(AckOf(T))
<1>1. AckOf(S) \subseteq AckOf(T)
  BY DEF AckOf
<1> QED BY <1>1, SeqMonotone

LEMMA SentType ==
  ASSUME NEW S, down \in [Conns -> Seq(S)], NEW c, NEW m \in S
  PROVE  Sent(c, m) \in [Conns -> Seq(S)]
<1>1. CASE c \in Conns
  <2>1. Append(down[c], m) \in Seq(S)
    BY <1>1, AppendProperties
  <2> QED BY <2>1 DEF Sent
<1>2. CASE c \notin Conns
  BY <1>2 DEF Sent
<1> QED BY <1>1, <1>2

\* The head of a covered queue needs nothing before it, and what needs it has
\* it in the database once it was handled.
LEMMA TailCovered ==
  ASSUME NEW S, NEW D, NEW E, NEW s \in Seq(AckOf(S)), s # <<>>,
         \A i \in 1..Len(s) : Covered(s, i, D),
         D \subseteq E,
         Head(s).kind = "delivered" => Head(s).id \in E
  PROVE  /\ Tail(s) \in Seq(AckOf(S))
         /\ Head(s) \in AckOf(S)
         /\ Head(s).kind = "read" => Head(s).id \in D
         /\ \A i \in 1..Len(Tail(s)) : Covered(Tail(s), i, E)
<1>1. /\ Head(s) \in AckOf(S) /\ Tail(s) \in Seq(AckOf(S))
      /\ Len(s) \in Nat /\ Len(s) > 0 /\ Len(Tail(s)) = Len(s) - 1 /\ Head(s) = s[1]
      /\ \A i \in 1..Len(Tail(s)) : Tail(s)[i] = s[i+1]
  BY HeadTailProperties, LenProperties, EmptySeq
<1>2. 1 \in 1..Len(s) /\ 1..(1-1) = {}
  BY <1>1
<1>3. Head(s).kind = "read" => Head(s).id \in D
  BY <1>1, <1>2 DEF Covered
<1> DEFINE InTail(i) ==
      \/ Tail(s)[i].id \in E
      \/ \E j \in 1..(i-1) : Tail(s)[j] = [kind |-> "delivered", id |-> Tail(s)[i].id]
<1>4. ASSUME NEW i \in 1..Len(Tail(s)), Tail(s)[i].kind = "read"
      PROVE  InTail(i)
  <2>1. i \in Nat /\ i + 1 \in 1..Len(s) /\ Tail(s)[i] = s[i+1]
    BY <1>1
  <2>2. CASE s[i+1].id \in D
    BY <2>1, <2>2
  <2>3. ASSUME NEW j \in 1..((i+1)-1), s[j] = [kind |-> "delivered", id |-> s[i+1].id]
        PROVE  InTail(i)
    <3>1. CASE j = 1
      BY <1>1, <2>1, <2>3, <3>1
    <3>2. CASE j # 1
      <4>1. j - 1 \in 1..(i-1) /\ j - 1 \in 1..Len(Tail(s)) /\ (j-1)+1 = j
        BY <1>1, <2>1, <3>2
      <4>2. Tail(s)[j-1] = s[j]
        BY <1>1, <4>1
      <4> QED BY <2>1, <2>3, <4>1, <4>2
    <3> QED BY <3>1, <3>2
  <2> QED BY <1>4, <2>1, <2>2, <2>3 DEF Covered
<1> QED BY <1>1, <1>3, <1>4 DEF Covered

LEMMA AcksCovered ==
  ASSUME NEW S, NEW D, NEW s \in Seq(AckOf(S)), NEW m \in S,
         \A i \in 1..Len(s) : Covered(s, i, D)
  PROVE  /\ s \o Acks(m) \in Seq(AckOf(S))
         /\ \A i \in 1..Len(s \o Acks(m)) : Covered(s \o Acks(m), i, D)
<1> DEFINE t == s \o Acks(m)  n == Len(s)
           d == [kind |-> "delivered", id |-> m]  r == [kind |-> "read", id |-> m]
<1>1. d \in AckOf(S) /\ r \in AckOf(S) /\ Acks(m) = <<d, r>>
  BY DEF AckOf, Acks
<1>2. <<d, r>> \in Seq(AckOf(S)) /\ Len(<<d, r>>) = 2 /\ <<d, r>>[1] = d /\ <<d, r>>[2] = r
  BY <1>1
<1>3. /\ t \in Seq(AckOf(S)) /\ n \in Nat /\ Len(t) = n + 2
      /\ \A i \in 1..n : t[i] = s[i]
      /\ t[n+1] = d /\ t[n+2] = r
  <2> HIDE DEF d, r
  <2>1. /\ t \in Seq(AckOf(S)) /\ n \in Nat /\ Len(t) = n + 2
        /\ \A i \in 1..n+2 : t[i] = IF i <= n THEN s[i] ELSE <<d, r>>[i - n]
    BY <1>1, <1>2, ConcatProperties, LenProperties
  <2>2. (n+1) - n = 1 /\ (n+2) - n = 2 /\ n+1 \in 1..n+2 /\ n+2 \in 1..n+2 /\ ~(n+1 <= n) /\ ~(n+2 <= n)
    BY <2>1
  <2> QED BY <1>2, <2>1, <2>2
<1> HIDE DEF t, n
<1>4. ASSUME NEW i \in 1..Len(t) PROVE Covered(t, i, D)
  <2>1. i \in 1..n \/ i = n+1 \/ i = n+2
    BY <1>3
  <2>2. CASE i \in 1..n
    <3>1. Covered(s, i, D) /\ t[i] = s[i] /\ \A j \in 1..(i-1) : t[j] = s[j]
      BY <1>3, <2>2 DEF n
    <3> QED BY <3>1 DEF Covered
  <2>3. CASE i = n+1
    BY <1>3, <2>3 DEF Covered
  <2>4. CASE i = n+2
    <3>1. n+1 \in 1..(i-1)
      BY <1>3, <2>4
    <3> QED BY <1>3, <2>4, <3>1 DEF Covered
  <2> QED BY <2>1, <2>2, <2>3, <2>4
<1> QED BY <1>3, <1>4 DEF t

-----------------------------------------------------------------------------
(* The invariant.                                                          *)

LEMMA InvInit == Init => Inv
<1> SUFFICES ASSUME Init PROVE Inv
  OBVIOUS
<1>1. <<>> \in Seq(Messages) /\ <<>> \in Seq(Ack) /\ <<>> \in Seq(rows)
      /\ <<>> \in Seq(AckOf(Shown)) /\ Len(<<>>) = 0
  OBVIOUS
<1>2. TypeOK
  BY <1>1, DeliveryAssumption DEF Init, TypeOK, SenderState, LinkState, PushState
<1>3. Shown = {}
  BY DEF Init, Shown
<1>4. FlowInv
  BY <1>1, <1>3 DEF Init, FlowInv
<1> QED BY <1>2, <1>4 DEF Inv

\* Steps that leave the rows, the queues and the marks as they are.
LEMMA FlowKept ==
  ASSUME FlowInv, UNCHANGED <<rows, delivered, read, up, shown, unmarked>>,
         rows' = {m \in Messages : sender'[m] # "unsent"},
         down' \in [Conns -> Seq(rows)],
         todo' \in [Conns -> SUBSET rows]
  PROVE  FlowInv'
<1>1. Shown' = Shown
  BY DEF Shown
<1> QED BY <1>1 DEF Handled, FlowInv, Covered

LEMMA StoreInv ==
  ASSUME Inv, NEW m \in Messages, Store(m)
  PROVE  Inv'
<1> USE DEF Store, db, wires, senders, pushes, faulty
<1>1. TypeOK'
  BY DEF Inv, TypeOK, SenderState
<1>2. rows' = {n \in Messages : sender'[n] # "unsent"} /\ rows \subseteq rows'
  BY DEF Inv, FlowInv, TypeOK
<1>3. Seq(rows) \subseteq Seq(rows')
  BY <1>2, SeqMonotone
<1>4. down' \in [Conns -> Seq(rows')] /\ todo' \in [Conns -> SUBSET rows']
  BY <1>2, <1>3 DEF Inv, FlowInv
<1>5. Shown' = Shown
  BY DEF Shown
<1>6. \A c \in Conns : \A i \in 1..Len(up[c]) : Covered(up[c], i, Handled)'
  BY DEF Handled, Inv, FlowInv, Covered
<1>7. FlowInv'
  BY <1>2, <1>4, <1>5, <1>6 DEF Handled, Inv, FlowInv
<1> QED BY <1>1, <1>7 DEF Inv

LEMMA SendingInv ==
  ASSUME Inv, NEW m \in Messages, SenderStops(m) \/ Sending(m)
  PROVE  Inv'
<1> USE DEF db, wires, senders, pushes, faulty
<1>1. CASE SenderStops(m)
  <2>1. TypeOK'
    BY <1>1 DEF Inv, TypeOK, SenderState, SenderStops
  <2>2. FlowInv'
    BY <1>1, FlowKept DEF Inv, FlowInv, TypeOK, SenderStops
  <2> QED BY <2>1, <2>2 DEF Inv
<1>2. CASE LookUp(m)
  <2>1. TypeOK'
    BY <1>2 DEF Inv, TypeOK, SenderState, LookUp
  <2>2. FlowInv'
    BY <1>2, FlowKept DEF Inv, FlowInv, TypeOK, LookUp
  <2> QED BY <2>1, <2>2 DEF Inv
<1>3. CASE Send(m)
  <2>1. m \in rows
    BY <1>3 DEF Inv, FlowInv, Send
  <2>2. down' \in [Conns -> Seq(rows)] /\ down' \in [Conns -> Seq(Messages)]
    BY <1>3, <2>1, SentType DEF Inv, FlowInv, TypeOK, Send
  <2>3. TypeOK'
    BY <1>3, <2>2 DEF Inv, TypeOK, SenderState, Send
  <2>4. FlowInv'
    BY <1>3, <2>2, FlowKept DEF Inv, FlowInv, TypeOK, Send
  <2> QED BY <2>3, <2>4 DEF Inv
<1> QED BY <1>1, <1>2, <1>3 DEF Sending

LEMMA ConnectionInv ==
  ASSUME Inv, NEW c \in Conns, Login(c) \/ Leave(c) \/ RemoveUser(c)
  PROVE  Inv'
<1> USE DEF db, wires, senders, pushes, faulty
<1>1. ClosedEntry \in SUBSET Conns
  BY DEF Inv, TypeOK, ClosedEntry
<1>2. CASE Login(c)
  <2>1. TypeOK'
    BY <1>1, <1>2 DEF Inv, TypeOK, LinkState, PushState, Login
  <2>2. FlowInv'
    BY <1>2, FlowKept DEF Inv, FlowInv, Login
  <2> QED BY <2>1, <2>2 DEF Inv
<1>3. CASE Leave(c)
  <2>1. <<>> \in Seq(Messages) /\ <<>> \in Seq(Ack) /\ <<>> \in Seq(rows)
        /\ <<>> \in Seq(AckOf(Shown)) /\ Len(<<>>) = 0
    OBVIOUS
  <2>2. TypeOK'
    BY <1>3, <2>1 DEF Inv, TypeOK, LinkState, Leave
  <2>3. Shown' = Shown
    BY <1>3 DEF Shown, Leave
  <2>4. down' \in [Conns -> Seq(rows)] /\ up' \in [Conns -> Seq(AckOf(Shown))]
    BY <1>3, <2>1 DEF Inv, FlowInv, Leave
  <2>5. ASSUME NEW d \in Conns, NEW i \in 1..Len(up'[d])
        PROVE  Covered(up[d], i, Handled)'
    <3>1. up'[d] = up[d]
      BY <1>3, <2>1, <2>5 DEF Inv, TypeOK, Leave
    <3>2. Covered(up[d], i, Handled)
      BY <2>5, <3>1 DEF Inv, FlowInv
    <3> QED BY <1>3, <3>1, <3>2 DEF Handled, Covered, Leave
  <2>6. FlowInv'
    BY <1>3, <2>3, <2>4, <2>5 DEF Handled, Inv, FlowInv, Leave
  <2> QED BY <2>2, <2>6 DEF Inv
<1>4. CASE RemoveUser(c)
  <2>1. TypeOK'
    BY <1>1, <1>4 DEF Inv, TypeOK, LinkState, RemoveUser
  <2>2. FlowInv'
    BY <1>4, FlowKept DEF Inv, FlowInv, RemoveUser
  <2> QED BY <2>1, <2>2 DEF Inv
<1> QED BY <1>2, <1>3, <1>4

LEMMA ClientInv ==
  ASSUME Inv, NEW c \in Conns, Show(c)
  PROVE  Inv'
<1> USE DEF db, senders, pushes, faulty
<1> DEFINE m == Head(down[c])
<1>1. down[c] \in Seq(rows) /\ down[c] # <<>> /\ down[c] \in Seq(Messages)
  BY DEF Show, Inv, FlowInv, TypeOK
<1>2. /\ m \in rows /\ m \in Messages
      /\ Tail(down[c]) \in Seq(rows) /\ Tail(down[c]) \in Seq(Messages)
  BY <1>1, HeadTailProperties
<1> HIDE DEF m
<1>3. Shown' = Shown \cup {m} /\ Shown' \subseteq rows /\ shown' \in [Messages -> Nat]
  <2>1. /\ shown' = [shown EXCEPT ![m] = @ + 1]
        /\ shown \in [Messages -> Nat] /\ Shown \subseteq rows
    BY DEF Show, Inv, TypeOK, FlowInv, m
  <2> QED BY <1>2, <2>1 DEF Shown
<1>4. /\ up' = [up EXCEPT ![c] = @ \o Acks(m)]
      /\ down' = [down EXCEPT ![c] = Tail(@)]
  BY DEF Show, m
<1>5. up \in [Conns -> Seq(AckOf(Shown'))]
  BY <1>3, AckMonotone DEF Inv, FlowInv
<1>6. \A i \in 1..Len(up[c]) : Covered(up[c], i, Handled)
  BY DEF Inv, FlowInv
<1>7. /\ up[c] \o Acks(m) \in Seq(AckOf(Shown'))
      /\ \A i \in 1..Len(up[c] \o Acks(m)) : Covered(up[c] \o Acks(m), i, Handled)
  BY <1>3, <1>5, <1>6, AcksCovered
<1>8. up' \in [Conns -> Seq(AckOf(Shown'))]
  BY <1>4, <1>5, <1>7
<1>9. AckOf(Shown') \subseteq Ack
  BY DEF AckOf, Ack, Shown
<1>10. TypeOK'
  <2>1. up' \in [Conns -> Seq(Ack)]
    BY <1>8, <1>9, SeqMonotone
  <2>2. down' \in [Conns -> Seq(Messages)]
    BY <1>2, <1>4 DEF Inv, TypeOK
  <2> QED BY <1>3, <2>1, <2>2 DEF Inv, TypeOK, Show
<1>11. ASSUME NEW d \in Conns, NEW i \in 1..Len(up'[d])
       PROVE  Covered(up[d], i, Handled)'
  <2>1. Covered(up'[d], i, Handled)
    <3>1. CASE d = c
      BY <1>4, <1>5, <1>7, <1>11, <3>1
    <3>2. CASE d # c
      <4>1. up'[d] = up[d]
        BY <1>4, <1>5, <3>2
      <4> QED BY <1>11, <4>1 DEF Inv, FlowInv
    <3> QED BY <3>1, <3>2
  <2>2. Handled' = Handled
    BY DEF Show, Handled
  <2> QED BY <2>1, <2>2 DEF Covered
<1>12. FlowInv'
  <2>1. down' \in [Conns -> Seq(rows)]
    BY <1>2, <1>4 DEF Inv, FlowInv
  <2> QED BY <1>3, <1>8, <1>11, <2>1 DEF Handled, Inv, FlowInv, Show
<1> QED BY <1>10, <1>12 DEF Inv

LEMMA AckInv ==
  ASSUME Inv, NEW c \in Conns, HandleAck(c) \/ AckFails(c)
  PROVE  /\ Inv'
         /\ Head(up[c]) \in AckOf(Shown)
         /\ Head(up[c]).kind = "read" => Head(up[c]).id \in Handled
<1> USE DEF db, senders, pushes, faulty
<1> DEFINE ack == Head(up[c])
<1>1. /\ up[c] \in Seq(AckOf(Shown)) /\ up[c] # <<>>
      /\ \A i \in 1..Len(up[c]) : Covered(up[c], i, Handled)
  BY DEF HandleAck, AckFails, Inv, FlowInv
<1>2. /\ Handled \subseteq Handled' /\ Handled' \subseteq Handled \cup {ack.id}
      /\ ack.kind = "delivered" => ack.id \in Handled'
  BY DEF HandleAck, AckFails, Handled
<1>3. /\ Tail(up[c]) \in Seq(AckOf(Shown))
      /\ ack \in AckOf(Shown)
      /\ ack.kind = "read" => ack.id \in Handled
      /\ \A i \in 1..Len(Tail(up[c])) : Covered(Tail(up[c]), i, Handled')
  BY <1>1, <1>2, TailCovered
<1>4. /\ up' = [up EXCEPT ![c] = Tail(up[c])]
      /\ UNCHANGED <<rows, senders, entry, link, sealed, down, pushes, shown>>
      /\ delivered' \subseteq delivered \cup {ack.id}
      /\ unmarked' \subseteq unmarked \cup {ack.id}
      /\ read' = read \/ (ack.kind = "read" /\ read' = read \cup {ack.id})
      /\ faults' \in 0..MaxFaults
  <2>1. /\ faults \in 0..MaxFaults /\ MaxFaults \in Nat
    BY DeliveryAssumption DEF Inv, TypeOK
  <2>2. CASE HandleAck(c)
    <3>1. ack.kind \in {"delivered", "read"}
      BY <1>3 DEF AckOf
    <3> QED BY <2>1, <2>2, <3>1 DEF HandleAck
  <2>3. CASE AckFails(c)
    BY <2>1, <2>3 DEF AckFails, FaultHappens
  <2> QED BY <2>2, <2>3
<1> HIDE DEF ack
<1>5. Shown' = Shown
  BY <1>4 DEF Shown
<1>6. up' \in [Conns -> Seq(AckOf(Shown'))]
  BY <1>3, <1>4, <1>5 DEF Inv, FlowInv
<1>7. AckOf(Shown') \subseteq Ack
  BY DEF AckOf, Ack, Shown
<1>8. ack.id \in Shown /\ Shown \subseteq Messages
  BY <1>3 DEF AckOf, Shown
<1>9. /\ delivered' \subseteq Shown /\ unmarked' \subseteq Messages
      /\ read' \subseteq Shown /\ read' \subseteq Handled'
  BY <1>2, <1>3, <1>4, <1>8 DEF Inv, FlowInv, TypeOK
<1>10. TypeOK'
  <2>1. up' \in [Conns -> Seq(Ack)]
    BY <1>6, <1>7, SeqMonotone
  <2> QED BY <1>4, <1>8, <1>9, <2>1 DEF Inv, TypeOK
<1>11. ASSUME NEW d \in Conns, NEW i \in 1..Len(up'[d])
       PROVE  Covered(up[d], i, Handled)'
  <2>1. CASE d = c
    <3>1. up'[d] = Tail(up[c])
      BY <1>4, <2>1 DEF Inv, TypeOK
    <3> QED BY <1>3, <1>11, <3>1 DEF Covered
  <2>2. CASE d # c
    <3>1. up'[d] = up[d]
      BY <1>4, <2>2 DEF Inv, TypeOK
    <3>2. Covered(up[d], i, Handled)
      BY <1>11, <3>1 DEF Inv, FlowInv
    <3> QED BY <1>2, <3>1, <3>2 DEF Covered
  <2> QED BY <2>1, <2>2
<1>12. FlowInv'
  BY <1>4, <1>5, <1>6, <1>9, <1>11 DEF Inv, FlowInv
<1> QED BY <1>3, <1>10, <1>12 DEF Inv, ack

LEMMA RestartInv ==
  ASSUME Inv, Restart, faults' \in 0..MaxFaults
  PROVE  Inv'
<1> USE DEF db, wires, senders, pushes, faulty
<1>1. <<>> \in Seq(Messages) /\ <<>> \in Seq(Ack) /\ <<>> \in Seq(rows)
      /\ <<>> \in Seq(AckOf(Shown)) /\ Len(<<>>) = 0
  OBVIOUS
<1>2. sender' \in [Messages -> SenderState] /\ link' \in [Conns -> LinkState]
  BY DEF Inv, TypeOK, Restart, SenderState, LinkState
<1>3. TypeOK'
  BY <1>1, <1>2 DEF Inv, TypeOK, Restart, PushState
<1>4. rows' = {m \in Messages : sender'[m] # "unsent"}
  BY DEF Inv, FlowInv, TypeOK, Restart
<1>5. Shown' = Shown
  BY DEF Restart, Shown
<1>6. \A c \in Conns : Len(up'[c]) = 0
  BY <1>1 DEF Restart
<1>7. \A c \in Conns : \A i \in 1..Len(up[c])' : Covered(up[c], i, Handled)'
  BY <1>6
<1>8. FlowInv'
  BY <1>1, <1>4, <1>5, <1>7 DEF Handled, Inv, FlowInv, Restart
<1> QED BY <1>3, <1>8 DEF Inv

PushesOK ==
  /\ todo \in [Conns -> SUBSET rows]
  /\ push \in [Conns -> PushState]
  /\ pushTo \in [Conns -> Conns \cup {NoConn}]
  /\ \A c \in Conns : push[c] = "send" => pushTo[c] # NoConn

LEMMA PushEndsOK ==
  ASSUME PushesOK, NEW c \in Conns, PushEnds(c), rows' = rows
  PROVE  PushesOK'
BY DEF PushesOK, PushEnds, PushState

LEMMA ContinueOK ==
  ASSUME PushesOK, NEW c \in Conns, NEW m, Continue(c, m), rows' = rows
  PROVE  PushesOK'
<1>1. CASE todo[c] = {m}
  BY <1>1, PushEndsOK DEF Continue
<1>2. CASE todo[c] # {m}
  <2>1. /\ todo' = [todo EXCEPT ![c] = todo[c] \ {m}]
        /\ push' = [push EXCEPT ![c] = "look"] /\ pushTo' = pushTo
    BY <1>2 DEF Continue
  <2>2. todo[c] \ {m} \in SUBSET rows /\ "look" \in PushState
    BY DEF PushesOK, PushState
  <2>3. push' \in [Conns -> PushState] /\ todo' \in [Conns -> SUBSET rows]
    BY <2>1, <2>2 DEF PushesOK
  <2>4. \A d \in Conns : push'[d] = "send" => push[d] = "send"
    BY <2>1 DEF PushesOK
  <2> QED BY <2>1, <2>3, <2>4 DEF PushesOK
<1> QED BY <1>1, <1>2

\* A step of the push that keeps its own variables right.
LEMMA PushKept ==
  ASSUME Inv, PushesOK', UNCHANGED <<db, senders, entry, link, sealed, up, shown, faulty>>,
         down' \in [Conns -> Seq(rows)]
  PROVE  Inv'
<1>1. rows \subseteq Messages /\ rows' = rows
  BY DEF Inv, TypeOK, db
<1>2. down' \in [Conns -> Seq(Messages)] /\ todo' \in [Conns -> SUBSET Messages]
  <2>1. Seq(rows) \subseteq Seq(Messages)
    BY <1>1, SeqMonotone
  <2> QED BY <1>1, <2>1 DEF PushesOK
<1>3. TypeOK'
  BY <1>2 DEF Inv, TypeOK, PushesOK, db, senders, faulty
<1>4. FlowInv'
  BY <1>1, FlowKept DEF Inv, FlowInv, PushesOK, db, senders, faulty
<1> QED BY <1>3, <1>4 DEF Inv

LEMMA PushingInv ==
  ASSUME Inv, NEW c \in Conns, Pushing(c)
  PROVE  Inv'
<1> USE DEF db, wires, faulty
<1>1. PushesOK /\ down \in [Conns -> Seq(rows)]
  BY DEF Inv, TypeOK, FlowInv, PushesOK
<1>2. CASE Query(c)
  <2>1. rows' = rows /\ Offline \in SUBSET rows
    BY <1>2 DEF Query, Offline
  <2>2. CASE Offline = {}
    BY <1>1, <1>2, <2>1, <2>2, PushEndsOK, PushKept DEF Query
  <2>3. CASE Offline # {}
    <3>1. /\ todo' = [todo EXCEPT ![c] = Offline]
          /\ push' = [push EXCEPT ![c] = "look"] /\ pushTo' = pushTo
      BY <1>2, <2>3 DEF Query
    <3>2. todo' \in [Conns -> SUBSET rows]
      BY <1>1, <2>1, <3>1 DEF PushesOK
    <3>3. push' \in [Conns -> PushState] /\ \A d \in Conns : push'[d] = "send" => push[d] = "send"
      BY <1>1, <3>1 DEF PushesOK, PushState
    <3>4. PushesOK'
      BY <1>1, <2>1, <3>1, <3>2, <3>3 DEF PushesOK
    <3> QED BY <1>1, <1>2, <3>4, PushKept DEF Query
  <2> QED BY <2>2, <2>3
<1>3. CASE PushLookUp(c)
  <2>1. CASE entry = NoConn
    BY <1>1, <1>3, <2>1, PushEndsOK, PushKept DEF PushLookUp
  <2>2. CASE entry # NoConn
    <3>1. entry \in Conns \cup {NoConn}
      BY DEF Inv, TypeOK
    <3>2. /\ pushTo' = [pushTo EXCEPT ![c] = entry]
          /\ push' = [push EXCEPT ![c] = "send"] /\ todo' = todo /\ rows' = rows
      BY <1>3, <2>2 DEF PushLookUp
    <3>3. push' \in [Conns -> PushState] /\ pushTo' \in [Conns -> Conns \cup {NoConn}]
      BY <1>1, <3>1, <3>2 DEF PushesOK, PushState
    <3>4. \A d \in Conns : push'[d] = "send" => pushTo'[d] # NoConn
      BY <1>1, <2>2, <3>2 DEF PushesOK
    <3>5. PushesOK'
      BY <1>1, <3>2, <3>3, <3>4 DEF PushesOK
    <3> QED BY <1>1, <1>3, <3>5, PushKept DEF PushLookUp
  <2> QED BY <2>1, <2>2
<1>4. ASSUME NEW m \in Messages, PushSend(c, m)
      PROVE  Inv'
  <2>1. m \in rows
    BY <1>1, <1>4 DEF PushesOK, PushSend, Pushes
  <2>2. down' \in [Conns -> Seq(rows)]
    BY <1>1, <1>4, <2>1, SentType DEF PushSend
  <2> QED BY <1>1, <1>4, <2>2, ContinueOK, PushKept DEF PushSend
<1>5. ASSUME NEW m \in Messages, PushAborts(c, m)
      PROVE  Inv'
  BY <1>1, <1>5, PushEndsOK, PushKept DEF PushAborts
<1>6. ASSUME NEW m \in Messages, PushPanics(c, m)
      PROVE  Inv'
  BY <1>6, RestartInv DEF Inv, TypeOK, PushPanics
<1> QED BY <1>2, <1>3, <1>4, <1>5, <1>6 DEF Pushing

LEMMA QueryFailsInv ==
  ASSUME Inv, NEW c \in Conns, QueryFails(c)
  PROVE  Inv'
<1>1. push' = [push EXCEPT ![c] = "failed"] /\ faults' \in 0..MaxFaults
  BY DeliveryAssumption DEF QueryFails, FaultHappens, Inv, TypeOK
<1>2. /\ push' \in [Conns -> PushState]
      /\ \A d \in Conns : push'[d] = "send" => push[d] = "send"
  BY <1>1 DEF Inv, TypeOK, PushState
<1>3. TypeOK'
  BY <1>1, <1>2 DEF QueryFails, Inv, TypeOK, db, wires, senders
<1>4. FlowInv'
  BY FlowKept DEF QueryFails, Inv, FlowInv, db, wires, senders
<1> QED BY <1>3, <1>4 DEF Inv

LEMMA InvStep == Inv /\ [Next]_vars => Inv'
<1> SUFFICES ASSUME Inv, [Next]_vars PROVE Inv'
  OBVIOUS
<1>1. ASSUME NEW m \in Messages, Store(m) \/ SenderStops(m) \/ Sending(m)
      PROVE  Inv'
  BY <1>1, StoreInv, SendingInv
<1>2. ASSUME NEW c \in Conns, \/ Login(c) \/ Leave(c) \/ RemoveUser(c)
                             \/ Show(c) \/ HandleAck(c) \/ Pushing(c)
                             \/ AckFails(c) \/ QueryFails(c)
      PROVE  Inv'
  BY <1>2, ConnectionInv, ClientInv, AckInv, PushingInv, QueryFailsInv
<1>3. CASE Crash
  <2>1. faults' \in 0..MaxFaults
    BY <1>3, DeliveryAssumption DEF Inv, TypeOK, Crash, FaultHappens
  <2> QED BY <1>3, <2>1, RestartInv DEF Crash
<1>4. CASE UNCHANGED vars
  <2> USE <1>4 DEF vars, db, wires, senders, pushes, faulty
  <2>1. TypeOK'
    BY DEF Inv, TypeOK
  <2>2. FlowInv'
    BY FlowKept DEF Inv, FlowInv
  <2> QED BY <2>1, <2>2 DEF Inv
<1> QED BY <1>1, <1>2, <1>3, <1>4 DEF Next

\* Every variable keeps its type.
THEOREM DeliveryTypeCorrect == Spec => []TypeOK
<1>1. Inv => TypeOK
  BY DEF Inv
<1> QED BY <1>1, InvInit, InvStep, PTL DEF Spec

-----------------------------------------------------------------------------
(* The refinement.                                                         *)

LEMMA StoreSimulates ==
  ASSUME Inv, NEW m \in Messages, Store(m)
  PROVE  AbstractMailbox!Deposit(m)
<1>1. m \notin rows
  BY DEF Inv, FlowInv, Store
<1> QED BY <1>1 DEF faulty, Store, AbstractMailbox!Deposit

LEMMA ShowSimulates ==
  ASSUME Inv, NEW c \in Conns, Show(c)
  PROVE  \E m \in Messages : AbstractMailbox!Show(m)
<1>1. PICK i \in Messages : i \in rows /\ i = Head(down[c])
  <2>1. down[c] \in Seq(rows) /\ down[c] # <<>>
    BY DEF Show, Inv, FlowInv
  <2>2. rows \subseteq Messages
    BY DEF Inv, TypeOK
  <2> QED BY <2>1, <2>2, HeadTailProperties
<1>2. shown' = [shown EXCEPT ![i] = @ + 1] /\ shown \in [Messages -> Nat]
  BY <1>1 DEF Show, Inv, TypeOK
<1>3. {n \in Messages : shown'[n] > 0} = {n \in Messages : shown[n] > 0} \cup {i}
  BY <1>1, <1>2
<1>4. AbstractMailbox!Show(i)
  BY <1>1, <1>3 DEF faulty, Show, db, AbstractMailbox!Show
<1> QED BY <1>4

LEMMA HandleAckSimulates ==
  ASSUME Inv, NEW c \in Conns, HandleAck(c)
  PROVE  \/ \E m \in Messages : AbstractMailbox!Confirm(m) \/ AbstractMailbox!Receipt(m)
         \/ UNCHANGED AbstractMailbox!vars
<1> DEFINE ack == Head(up[c])
<1>1. /\ ack \in AckOf(Shown)
      /\ ack.kind = "read" => ack.id \in Handled
  BY AckInv
<1>2. ack.kind \in {"delivered", "read"} /\ ack.id \in Shown /\ ack.id \in Messages
  BY <1>1 DEF AckOf, Shown
<1>3. shown' = shown /\ rows' = rows /\ unmarked' = unmarked
  BY DEF HandleAck, faulty
<1>4. CASE ack.kind = "delivered"
  <2>1. delivered' = delivered \cup {ack.id} /\ read' = read
    BY <1>4 DEF HandleAck
  <2> QED BY <1>2, <1>3, <2>1 DEF Shown, AbstractMailbox!Confirm
<1>5. CASE ack.kind = "read"
  <2>1. delivered' = delivered /\ read' = read \cup {ack.id}
    BY <1>5 DEF HandleAck
  <2>2. CASE ack.id \in unmarked
    <3>1. read' \ unmarked' = read \ unmarked
      BY <1>3, <2>1, <2>2
    <3> QED BY <1>3, <2>1, <3>1 DEF AbstractMailbox!vars
  <2>3. CASE ack.id \notin unmarked
    <3>1. read' \ unmarked' = (read \ unmarked) \cup {ack.id} /\ ack.id \in delivered
      BY <1>1, <1>3, <1>5, <2>1, <2>3 DEF Handled
    <3> QED BY <1>2, <1>3, <2>1, <3>1 DEF AbstractMailbox!Receipt
  <2> QED BY <2>2, <2>3
<1> QED BY <1>2, <1>4, <1>5

\* A row whose marking as delivered fails was not marked as read before.
LEMMA AckFailsStutters ==
  ASSUME Inv, NEW c \in Conns, AckFails(c)
  PROVE  UNCHANGED AbstractMailbox!vars
<1>1. /\ UNCHANGED <<rows, delivered, read, shown>>
      /\ unmarked \subseteq unmarked' /\ unmarked' \cap delivered \subseteq unmarked
  BY DEF AckFails, db
<1>2. read \ unmarked' = read \ unmarked
  BY <1>1 DEF Inv, FlowInv, Handled
<1> QED BY <1>1, <1>2 DEF AbstractMailbox!vars

\* Every other step leaves the mailbox as it is.
LEMMA RestStutters ==
  ASSUME [Next]_vars,
         \A m \in Messages : ~Store(m),
         \A c \in Conns : ~Show(c) /\ ~HandleAck(c) /\ ~AckFails(c)
  PROVE  UNCHANGED AbstractMailbox!vars
<1> DEFINE Marks == <<rows, delivered, read, shown, unmarked>>
<1> USE DEF db, faulty
<1>1. ASSUME NEW m \in Messages, SenderStops(m) \/ Sending(m)
      PROVE  UNCHANGED Marks
  BY <1>1 DEF SenderStops, Sending, LookUp, Send
<1>2. ASSUME NEW c \in Conns, Login(c) \/ Leave(c) \/ RemoveUser(c) \/ QueryFails(c)
      PROVE  UNCHANGED Marks
  BY <1>2 DEF Login, Leave, RemoveUser, QueryFails
<1>3. ASSUME NEW c \in Conns, Pushing(c)
      PROVE  UNCHANGED Marks
  BY <1>3 DEF Pushing, Query, PushLookUp, PushSend, PushAborts, PushPanics, Restart
<1>4. Crash => UNCHANGED Marks
  BY DEF Crash, Restart
<1>5. UNCHANGED vars => UNCHANGED Marks
  BY DEF vars
<1>6. UNCHANGED Marks
  BY <1>1, <1>2, <1>3, <1>4, <1>5 DEF Next
<1> QED BY <1>6 DEF AbstractMailbox!vars

\* A message is marked only after its recipient's client has shown it, and as
\* read only after it was marked as delivered, whatever is lost or restarted.
THEOREM DeliveryImplementsMailbox == Spec => ImplementsMailbox
<1>1. Init => AbstractMailbox!Init
  BY DEF Init, AbstractMailbox!Init
<1>2. Inv /\ [Next]_vars => [AbstractMailbox!Next]_(AbstractMailbox!vars)
  <2> SUFFICES ASSUME Inv, [Next]_vars
               PROVE  [AbstractMailbox!Next]_(AbstractMailbox!vars)
    OBVIOUS
  <2> QED BY StoreSimulates, ShowSimulates, HandleAckSimulates, AckFailsStutters, RestStutters
          DEF AbstractMailbox!Next
<1> QED BY <1>1, <1>2, InvInit, InvStep, PTL
        DEF Spec, ImplementsMailbox, AbstractMailbox!Spec
=============================================================================
