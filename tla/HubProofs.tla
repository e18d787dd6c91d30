------------------------------ MODULE HubProofs -----------------------------
(***************************************************************************)
(* Theorems about the connections of Conn.tla, for arbitrary callers, about *)
(* the streams they implement (ConnStream.tla) and about the hub that uses  *)
(* them (Hub.tla), for every set of connections, users, goroutines and      *)
(* messages, every capacity and every bound.                               *)
(***************************************************************************)
EXTENDS Hub, ConnStream, SequenceTheorems, TLAPS

-----------------------------------------------------------------------------
(***************************************************************************)
(* Conn.tla: the type invariant, and the lemmas about the operations that the*)
(* other proofs use.                                                        *)
(***************************************************************************)

LEMMA PanicType ==
  ASSUME TypeOK, NEW g, Panic(g)
  PROVE  /\ reader' \in [Conns -> ReaderState]
         /\ process' \in {"running", "crashed", "exited"}
BY DEF TypeOK, Panic, ReaderState

\* What a call does to c.Send.
LEMMA EnqueueType ==
  ASSUME TypeOK, NEW c \in Conns, NEW m \in Msgs, Enqueue(c, m)
  PROVE  /\ send' \in [Conns -> Seq(Msgs)]
         /\ \A d \in Conns : Len(send'[d]) <= SendCap
<1>1. send' = [send EXCEPT ![c] = Append(send[c], m)] /\ Len(send[c]) < SendCap
  BY DEF Enqueue, HasRoom
<1>2. send[c] \in Seq(Msgs) /\ SendCap \in Nat
  BY ConnAssumption DEF TypeOK
<1>3. Append(send[c], m) \in Seq(Msgs) /\ Len(Append(send[c], m)) <= SendCap
  BY <1>1, <1>2, AppendProperties
<1> QED BY <1>1, <1>3 DEF TypeOK

LEMMA DequeueType ==
  ASSUME TypeOK, NEW c \in Conns, send[c] # <<>>,
         send' = [send EXCEPT ![c] = Tail(@)]
  PROVE  /\ send' \in [Conns -> Seq(Msgs)]
         /\ \A d \in Conns : Len(send'[d]) <= SendCap
<1>1. send[c] \in Seq(Msgs) /\ Len(send[c]) <= SendCap /\ SendCap \in Nat
  BY ConnAssumption DEF TypeOK
<1>2. Tail(send[c]) \in Seq(Msgs) /\ Len(Tail(send[c])) <= SendCap
  BY <1>1, HeadTailProperties
<1> QED BY <1>2 DEF TypeOK

LEMMA WriteProtoType ==
  ASSUME TypeOK, NEW g, NEW c \in Conns, NEW m \in Msgs, WriteProto(g, c, m)
  PROVE  TypeOK'
<1>1. CASE Enqueue(c, m)
  BY <1>1, EnqueueType DEF TypeOK, WriteProto, Enqueue
<1>2. CASE Overflow(c)
  <2>1. closers[c] + 1 \in Nat
    BY DEF TypeOK
  <2>2. closers' \in [Conns -> Nat]
    BY <1>2, <2>1 DEF TypeOK, Overflow
  <2> QED BY <1>2, <2>2 DEF TypeOK, WriteProto, Overflow
<1>3. CASE Discard(c)
  BY <1>3 DEF TypeOK, WriteProto, Discard
<1>4. CASE SendPanics(g, c)
  BY <1>4, PanicType DEF TypeOK, WriteProto, SendPanics
<1> QED BY <1>1, <1>2, <1>3, <1>4 DEF WriteProto

LEMMA CloseType ==
  ASSUME TypeOK, NEW g, NEW c, Close(g, c), closers' \in [Conns -> Nat]
  PROVE  TypeOK'
<1>1. CASE ClosePanics(c)
  BY <1>1, PanicType DEF TypeOK, Close
<1>2. CASE ~ClosePanics(c)
  BY <1>2 DEF TypeOK, Close, ClosedBy
<1> QED BY <1>1, <1>2

LEMMA SpawnedCloseType ==
  ASSUME TypeOK, NEW c \in Conns, SpawnedClose(c)
  PROVE  TypeOK'
<1>1. closers[c] > 0 /\ closers' = [closers EXCEPT ![c] = closers[c] - 1]
  BY DEF SpawnedClose
<1>2. closers[c] - 1 \in Nat
  BY <1>1 DEF TypeOK
<1>3. closers' \in [Conns -> Nat]
  BY <1>1, <1>2 DEF TypeOK
<1> QED BY <1>3, CloseType DEF SpawnedClose

LEMMA ReaderType ==
  ASSUME TypeOK, NEW c \in Conns,
         Start(c) \/ ReadMessage(c) \/ HandlerReturns(c) \/ ReadFails(c)
  PROVE  TypeOK'
BY DEF TypeOK, Start, ReadMessage, HandlerReturns, ReadFails, ReaderState, WriterState

LEMMA WriterType ==
  ASSUME TypeOK, NEW c \in Conns,
         WriteLoop(c) \/ WriteMessageFails(c) \/ PingFails(c)
  PROVE  TypeOK'
<1>1. /\ UNCHANGED <<sendClosed, done, reader, closers, process>>
      /\ writer' \in [Conns -> WriterState]
  BY DEF TypeOK, WriteLoop, WriteMessage, WriteCloseFrame, WriterSeesDone,
         WriteMessageFails, PingFails, WriterExits, WriterState
<1>2. \/ UNCHANGED send
      \/ send[c] # <<>> /\ send' = [send EXCEPT ![c] = Tail(@)]
  BY DEF WriteLoop, WriteMessage, WriteCloseFrame, WriterSeesDone,
         WriteMessageFails, PingFails
<1>3. CASE UNCHANGED send
  BY <1>1, <1>3 DEF TypeOK
<1>4. CASE send[c] # <<>> /\ send' = [send EXCEPT ![c] = Tail(@)]
  BY <1>1, <1>4, DequeueType DEF TypeOK
<1> QED BY <1>2, <1>3, <1>4

LEMMA ConnStepType ==
  ASSUME TypeOK, NEW c \in Conns, ConnStep(c)
  PROVE  TypeOK'
BY ReaderType, WriterType, SpawnedCloseType DEF ConnStep

\* The variables of the connections keep their types, and no channel ever
\* holds more than it can, whoever calls WriteProto and Close when.
THEOREM ConnTypeCorrect == Spec => []TypeOK
<1>1. Init => TypeOK
  BY ConnAssumption DEF Init, TypeOK, ReaderState, WriterState
<1>2. TypeOK /\ [Next]_connVars => TypeOK'
  <2> SUFFICES ASSUME TypeOK, [Next]_connVars PROVE TypeOK'
    OBVIOUS
  <2>1. CASE \E c \in Conns : ConnStep(c)
    BY <2>1, ConnStepType
  <2>2. ASSUME NEW g \in Goroutines, NEW c \in Conns, NEW m \in Msgs, CallWriteProto(g, c, m)
        PROVE  TypeOK'
    BY <2>2, WriteProtoType DEF CallWriteProto
  <2>3. ASSUME NEW g \in Goroutines, NEW c \in Conns, CallClose(g, c)
        PROVE  TypeOK'
    <3>1. closers' \in [Conns -> Nat]
      BY <2>3 DEF CallClose, TypeOK
    <3> QED BY <2>3, <3>1, CloseType DEF CallClose
  <2>4. CASE ProcessEnds
    BY <2>4 DEF ProcessEnds, TypeOK
  <2>5. CASE UNCHANGED connVars
    BY <2>5 DEF connVars, TypeOK
  <2> QED BY <2>1, <2>2, <2>3, <2>4, <2>5 DEF Next
<1> QED BY <1>1, <1>2, PTL DEF Spec

-----------------------------------------------------------------------------
(***************************************************************************)
(* ConnStream.tla: a connection implements a stream.                        *)
(***************************************************************************)

Inv == StreamTypeOK /\ StreamInv

-----------------------------------------------------------------------------
(* Appending to and taking from a queue.                                   *)

LEMMA AppendToQueue ==
  ASSUME NEW S, NEW s \in Seq(S), NEW t \in Seq(S), NEW m \in S
  PROVE  s \o Append(t, m) = Append(s \o t, m)
<1>1. Append(t, m) = t \o <<m>> /\ Append(s \o t, m) = (s \o t) \o <<m>>
  BY AppendIsConcat, ConcatProperties
<1>2. <<m>> \in Seq(S)
  OBVIOUS
<1> QED BY <1>1, <1>2, ConcatAssociative

LEMMA MoveHead ==
  ASSUME NEW S, NEW s \in Seq(S), NEW t \in Seq(S), t # <<>>
  PROVE  /\ Append(s, Head(t)) \o Tail(t) = s \o t
         /\ Len(s) < Len(s \o t)
         /\ (s \o t)[Len(s) + 1] = Head(t)
<1>1. Head(t) \in S /\ Tail(t) \in Seq(S) /\ Len(t) > 0
  BY HeadTailProperties, EmptySeq
<1>2. Append(s, Head(t)) = s \o <<Head(t)>> /\ <<Head(t)>> \in Seq(S)
  BY <1>1, AppendIsConcat
<1>3. <<Head(t)>> \o Tail(t) = t
  BY <1>1
<1>4. Append(s, Head(t)) \o Tail(t) = s \o t
  BY <1>1, <1>2, <1>3, ConcatAssociative
<1>5. Len(s \o t) = Len(s) + Len(t) /\ (s \o t)[Len(s) + 1] = t[1]
  BY <1>1, ConcatProperties
<1> QED BY <1>1, <1>4, <1>5

-----------------------------------------------------------------------------
(* The invariant.                                                          *)

LEMMA QuietKeeps ==
  ASSUME Inv, NEW c \in Conns, Quiet(c), UNCHANGED history
  PROVE  Inv'
<1> USE DEF Inv, StreamTypeOK, StreamInv, history
<1>1. TypeOK'
  <2>1. ASSUME NEW g \in Goroutines, CallClose(g, c) PROVE TypeOK'
    <3>1. closers' \in [Conns -> Nat]
      BY <2>1 DEF CallClose, TypeOK
    <3> QED BY <2>1, <3>1, CloseType DEF CallClose
  <2> QED BY <2>1, ReaderType, WriterType, SpawnedCloseType DEF Quiet, WriteLoop
<1>2. ASSUME NEW d \in Conns
      PROVE  /\ writer'[d] # "exited" => writer[d] # "exited" /\ send'[d] = send[d]
             /\ writer'[d] = "idle" <=> reader'[d] = "idle"
  <2> USE ConnAssumption DEF TypeOK
  <2>1. CASE Start(c)
    BY <2>1 DEF Start
  <2>2. CASE ReadMessage(c) \/ HandlerReturns(c) \/ ReadFails(c)
    BY <2>2 DEF ReadMessage, HandlerReturns, ReadFails
  <2>3. CASE WriterSeesDone(c) \/ WriteMessageFails(c) \/ PingFails(c)
    BY <2>3 DEF WriterSeesDone, WriteMessageFails, PingFails, WriterExits
  <2>4. CASE SpawnedClose(c) \/ \E g \in Goroutines : CallClose(g, c)
    BY <2>4 DEF SpawnedClose, CallClose, Close, Panic, MayCall
  <2> QED BY <2>1, <2>2, <2>3, <2>4 DEF Quiet
<1> QED BY <1>1, <1>2

LEMMA OfferKeeps ==
  ASSUME Inv, NEW g \in Goroutines, NEW c \in Conns, Offer(g, c)
  PROVE  Inv'
<1> DEFINE m == offered[c] + 1
<1> USE DEF Inv, StreamTypeOK
<1>1. m \in Msgs /\ m \in 0..MaxOffers
  BY StreamAssumption DEF Offer
<1>2. WriteProto(g, c, m) /\ reader[c] # "idle"
  BY DEF Offer, CallWriteProto
<1> HIDE DEF m
<1>3. TypeOK'
  BY <1>1, <1>2, WriteProtoType
<1>4. /\ UNCHANGED <<writer, wire, flushed>>
      /\ offered' = [offered EXCEPT ![c] = m]
  BY <1>2 DEF Offer, WriteProto, m
<1>5. \A d \in Conns : reader'[d] = "idle" <=> writer'[d] = "idle"
  BY <1>2, <1>4 DEF WriteProto, Enqueue, Overflow, Discard, SendPanics, Panic, StreamInv, TypeOK,
              Offer, CallWriteProto, MayCall
<1>6. CASE UNCHANGED send
  BY <1>1, <1>3, <1>4, <1>5, <1>6 DEF StreamInv, Offer
<1>7. CASE send' # send
  <2>1. send' = [send EXCEPT ![c] = Append(send[c], m)]
    BY <1>2, <1>7 DEF WriteProto, Enqueue, Overflow, Discard, SendPanics
  <2>2. accepted' = [accepted EXCEPT ![c] = Append(accepted[c], m)]
    BY <1>7 DEF Offer, m
  <2>3. accepted' \in [Conns -> Seq(Msgs)]
    BY <1>1, <2>2
  <2>4. ASSUME NEW d \in Conns, writer[d] # "exited"
        PROVE  wire[d] \o send'[d] = accepted'[d]
    <3>1. CASE d = c
      <4>1. send'[c] = Append(send[c], m) /\ accepted'[c] = Append(accepted[c], m)
        BY <2>1, <2>2 DEF TypeOK
      <4>2. wire[c] \in Seq(Msgs) /\ send[c] \in Seq(Msgs)
        BY DEF TypeOK
      <4>3. wire[c] \o send[c] = accepted[c]
        BY <2>4, <3>1 DEF StreamInv
      <4>4. m \in Msgs
        BY <1>1
      <4>5. \A s, t \in Seq(Msgs), k \in Msgs : s \o Append(t, k) = Append(s \o t, k)
        BY AppendToQueue
      <4>6. wire[c] \o Append(send[c], m) = Append(wire[c] \o send[c], m)
        BY <4>2, <4>4, <4>5, Zenon
      <4> QED BY <3>1, <4>1, <4>3, <4>6
    <3>2. CASE d # c
      <4>1. send'[d] = send[d] /\ accepted'[d] = accepted[d]
        BY <2>1, <2>2, <3>2 DEF TypeOK
      <4> QED BY <2>4, <4>1 DEF StreamInv
    <3> QED BY <3>1, <3>2
  <2> QED BY <1>1, <1>3, <1>4, <1>5, <2>3, <2>4 DEF StreamInv
<1> QED BY <1>6, <1>7

LEMMA WrittenKeeps ==
  ASSUME Inv, NEW c \in Conns, Written(c)
  PROVE  Inv'
<1> USE DEF Inv, StreamTypeOK
<1>1. TypeOK'
  BY WriterType DEF Written, WriteLoop
<1>2. /\ send[c] # <<>> /\ send' = [send EXCEPT ![c] = Tail(send[c])]
      /\ wire' = [wire EXCEPT ![c] = Append(wire[c], Head(send[c]))]
      /\ UNCHANGED <<reader, writer, offered, accepted, flushed>>
  BY DEF Written, WriteMessage
<1>3. send[c] \in Seq(Msgs) /\ wire[c] \in Seq(Msgs)
  BY DEF TypeOK
<1>4. Append(wire[c], Head(send[c])) \in Seq(Msgs)
  BY <1>2, <1>3, HeadTailProperties
<1>5. Append(wire[c], Head(send[c])) \o Tail(send[c]) = wire[c] \o send[c]
  BY <1>2, <1>3, MoveHead
<1> QED BY <1>1, <1>2, <1>4, <1>5 DEF StreamInv, TypeOK

LEMMA FlushedKeeps ==
  ASSUME Inv, NEW c \in Conns, Flushed(c)
  PROVE  Inv'
<1>1. TypeOK'
  BY WriterType DEF Flushed, WriteLoop, Inv, StreamTypeOK
<1> QED BY <1>1 DEF Inv, StreamTypeOK, StreamInv, TypeOK, Flushed, WriteCloseFrame, WriterExits

LEMMA InvStep == Inv /\ [StreamNext]_streamVars => Inv'
<1> SUFFICES ASSUME Inv, [StreamNext]_streamVars PROVE Inv'
  OBVIOUS
<1>1. CASE ProcessEnds /\ UNCHANGED history
  BY <1>1 DEF ProcessEnds, history, Inv, StreamTypeOK, StreamInv, TypeOK
<1>2. CASE UNCHANGED streamVars
  BY <1>2 DEF streamVars, connVars, history, Inv, StreamTypeOK, StreamInv, TypeOK
<1> QED BY <1>1, <1>2, OfferKeeps, WrittenKeeps, FlushedKeeps, QuietKeeps DEF StreamNext

LEMMA InvInit == StreamInit => Inv
<1> SUFFICES ASSUME StreamInit PROVE Inv
  OBVIOUS
<1>1. StreamTypeOK
  BY ConnAssumption, StreamAssumption
     DEF StreamInit, Init, StreamTypeOK, TypeOK, ReaderState, WriterState
<1>2. <<>> \o <<>> = <<>>
  OBVIOUS
<1> QED BY <1>1, <1>2 DEF StreamInit, Init, Inv, StreamInv

\* The queue and the wire hold, in order, exactly what was accepted as long as
\* the write goroutine runs.
THEOREM StreamCorrect == StreamSpec => [](StreamTypeOK /\ StreamInv)
<1>1. Inv => StreamTypeOK /\ StreamInv
  BY DEF Inv
<1> QED BY <1>1, InvInit, InvStep, PTL DEF StreamSpec

-----------------------------------------------------------------------------
(* The refinement.                                                         *)

EndMap == [c \in Conns |-> EndOf(c)]

\* What the step of a goroutine can do to the abstract stream.
LEMMA EndKept ==
  ASSUME UNCHANGED <<writer, flushed>>
  PROVE  EndMap' = EndMap
BY DEF EndMap, EndOf

LEMMA OfferSimulates ==
  ASSUME Inv, NEW g \in Goroutines, NEW c \in Conns, Offer(g, c)
  PROVE  [AbstractStream!Next]_(AbstractStream!vars)
<1> DEFINE m == offered[c] + 1
<1>1. m \in Msgs
  BY StreamAssumption DEF Offer, Inv, StreamTypeOK
<1>2. WriteProto(g, c, m)
  BY DEF Offer, CallWriteProto
<1>3. UNCHANGED <<wire, sendClosed, writer, flushed>>
  BY <1>2 DEF Offer, WriteProto
<1>4. EndMap' = EndMap
  BY <1>3, EndKept
<1>5. CASE send' = send
  <2>1. accepted' = accepted
    BY <1>5 DEF Offer
  <2> QED BY <1>3, <1>4, <2>1 DEF AbstractStream!vars, EndMap
<1>6. CASE send' # send
  <2>1. ~sendClosed[c]
    BY <1>2, <1>6 DEF WriteProto, Enqueue, Overflow, Discard, SendPanics
  <2>2. accepted' = [accepted EXCEPT ![c] = Append(@, m)]
    BY <1>6 DEF Offer
  <2>3. AbstractStream!Accept(c, m)
    BY <1>3, <1>4, <2>1, <2>2 DEF AbstractStream!Accept, EndMap
  <2> QED BY <1>1, <2>3 DEF AbstractStream!Next, AbstractStream!Step
<1> QED BY <1>5, <1>6

LEMMA WrittenSimulates ==
  ASSUME Inv, NEW c \in Conns, Written(c)
  PROVE  [AbstractStream!Next]_(AbstractStream!vars)
<1> USE DEF Inv, StreamTypeOK, TypeOK
<1>1. /\ writer[c] = "running" /\ send[c] # <<>>
      /\ wire' = [wire EXCEPT ![c] = Append(@, Head(send[c]))]
      /\ UNCHANGED <<accepted, sendClosed, writer, flushed>>
  BY DEF Written, WriteMessage
<1>2. wire[c] \in Seq(Msgs) /\ send[c] \in Seq(Msgs) /\ wire[c] \o send[c] = accepted[c]
  BY <1>1 DEF StreamInv
<1>3. Len(wire[c]) < Len(accepted[c]) /\ accepted[c][Len(wire[c]) + 1] = Head(send[c])
  BY <1>1, <1>2, MoveHead
<1>4. EndMap' = EndMap /\ EndMap[c] = "up"
  BY <1>1, EndKept DEF EndMap, EndOf
<1>5. AbstractStream!Write(c)
  BY <1>1, <1>3, <1>4 DEF AbstractStream!Write, EndMap
<1> QED BY <1>5 DEF AbstractStream!Next, AbstractStream!Step

LEMMA FlushedSimulates ==
  ASSUME Inv, NEW c \in Conns, Flushed(c)
  PROVE  [AbstractStream!Next]_(AbstractStream!vars)
<1> USE DEF Inv, StreamTypeOK, TypeOK
<1>1. /\ writer[c] = "running" /\ sendClosed[c] /\ send[c] = <<>>
      /\ writer' = [writer EXCEPT ![c] = "exited"]
      /\ flushed' = [flushed EXCEPT ![c] = TRUE]
      /\ UNCHANGED <<accepted, wire, sendClosed>>
  BY DEF Flushed, WriteCloseFrame, SendDrained, WriterExits
<1>2. wire[c] = accepted[c]
  BY <1>1, ConcatEmptySeq DEF StreamInv
<1>3. EndMap[c] = "up" /\ EndMap' = [EndMap EXCEPT ![c] = "flushed"]
  BY <1>1 DEF EndMap, EndOf
<1>4. AbstractStream!Flush(c)
  BY <1>1, <1>2, <1>3 DEF AbstractStream!Flush, EndMap
<1> QED BY <1>4 DEF AbstractStream!Next, AbstractStream!Step

LEMMA QuietSimulates ==
  ASSUME Inv, NEW c \in Conns, Quiet(c), UNCHANGED history
  PROVE  [AbstractStream!Next]_(AbstractStream!vars)
<1> USE DEF Inv, StreamTypeOK, TypeOK, history
<1>1. CASE Start(c) \/ ReadMessage(c) \/ HandlerReturns(c) \/ ReadFails(c)
  <2>1. UNCHANGED <<accepted, wire, sendClosed, flushed>>
    BY <1>1 DEF Start, ReadMessage, HandlerReturns, ReadFails
  <2>2. \A d \in Conns : writer'[d] # "exited" <=> writer[d] # "exited"
    BY <1>1 DEF Start, ReadMessage, HandlerReturns, ReadFails, StreamInv
  <2>3. EndMap' = EndMap
    BY <2>1, <2>2 DEF EndMap, EndOf
  <2> QED BY <2>1, <2>3 DEF AbstractStream!vars, EndMap
<1>2. CASE WriterSeesDone(c) \/ WriteMessageFails(c) \/ PingFails(c)
  <2>1. /\ writer[c] = "running" /\ writer' = [writer EXCEPT ![c] = "exited"]
        /\ UNCHANGED <<accepted, wire, sendClosed, flushed>>
    BY <1>2 DEF WriterSeesDone, WriteMessageFails, PingFails, WriterExits
  <2>2. EndMap[c] = "up" /\ EndMap' = [EndMap EXCEPT ![c] = "cut"]
    BY <2>1 DEF EndMap, EndOf, StreamInv
  <2>3. AbstractStream!Cut(c)
    BY <2>1, <2>2 DEF AbstractStream!Cut, EndMap
  <2> QED BY <2>3 DEF AbstractStream!Next, AbstractStream!Step
<1>3. CASE SpawnedClose(c) \/ \E g \in Goroutines : CallClose(g, c)
  <2>1. \E g : Close(g, c)
    BY <1>3 DEF SpawnedClose, CallClose
  <2>2. /\ UNCHANGED <<accepted, wire, writer, flushed>>
        /\ UNCHANGED sendClosed \/ sendClosed' = [sendClosed EXCEPT ![c] = TRUE]
    BY <2>1 DEF Close, ClosedBy
  <2>3. EndMap' = EndMap
    BY <2>2, EndKept
  <2>4. AbstractStream!Seal(c) \/ UNCHANGED AbstractStream!vars
    BY <2>2, <2>3 DEF AbstractStream!Seal, AbstractStream!vars, EndMap
  <2> QED BY <2>4 DEF AbstractStream!Next, AbstractStream!Step
<1> QED BY <1>1, <1>2, <1>3 DEF Quiet

\* Whoever sends on and closes the connections: the peer receives a prefix of
\* what was accepted, nothing is accepted after Close, and a peer that got the
\* close frame has got every message.
THEOREM ConnImplementsStream == StreamSpec => ImplementsStream
<1>1. StreamInit => AbstractStream!Init
  BY DEF StreamInit, Init, AbstractStream!Init, EndOf
<1>2. Inv /\ [StreamNext]_streamVars => [AbstractStream!Next]_(AbstractStream!vars)
  <2> SUFFICES ASSUME Inv, [StreamNext]_streamVars
               PROVE  [AbstractStream!Next]_(AbstractStream!vars)
    OBVIOUS
  <2>1. CASE ProcessEnds /\ UNCHANGED history
    BY <2>1, EndKept DEF ProcessEnds, history, AbstractStream!vars, EndMap
  <2>2. CASE UNCHANGED streamVars
    BY <2>2, EndKept DEF streamVars, connVars, history, AbstractStream!vars, EndMap
  <2> QED BY <2>1, <2>2, OfferSimulates, WrittenSimulates, FlushedSimulates, QuietSimulates
          DEF StreamNext
<1> QED BY <1>1, <1>2, InvInit, InvStep, PTL
        DEF StreamSpec, ImplementsStream, AbstractStream!Spec

-----------------------------------------------------------------------------
(***************************************************************************)
(* Hub.tla.                                                                 *)
(***************************************************************************)

(* The types.                                                              *)

\* What a goroutine is about to do determines what it has at hand.
PcInv ==
  /\ \A c \in Conns : pc[c] \in {"register", "login", "greet", "spawn"} => who[c] \in QQs
  /\ \A p \in Background : pc[p] \in {"query", "look", "push"} => who[p] \in QQs
  /\ \A p \in Background : pc[p] \in {"look", "push"} => left[p] # 0
  /\ \A g \in Goroutines : pc[g] \in {"send", "push"} => found[g] \in Conns

TypeInv == ServerTypeOK /\ PcInv

LEMMA ServeType ==
  ASSUME TypeInv, NEW c \in Conns, Admit(c) \/ Upgrade(c) \/ UpgradeFails(c)
  PROVE  TypeInv'
<1> USE DEF TypeInv, ServerTypeOK, PcInv, shared, Goto, Goroutines, ConnPC
<1>1. CASE Admit(c)
  BY <1>1 DEF Admit, connVars, TypeOK
<1>2. CASE Upgrade(c)
  BY <1>2, ReaderType DEF Upgrade
<1>3. CASE UpgradeFails(c)
  BY <1>3 DEF UpgradeFails, connVars, TypeOK
<1> QED BY <1>1, <1>2, <1>3

LEMMA ReceiveTypeInv ==
  ASSUME TypeInv, NEW c \in Conns, Receive(c)
  PROVE  TypeInv'
<1> USE ReaderType DEF TypeInv, ServerTypeOK, PcInv, shared, Goto, Goroutines, ConnPC
<1>1. ASSUME NEW q \in QQs, ReceiveLogin(c, q) PROVE TypeInv'
  BY <1>1 DEF ReceiveLogin
<1>2. ASSUME NEW q \in QQs, ReceiveRegister(c, q) PROVE TypeInv'
  BY <1>2 DEF ReceiveRegister
<1>3. ASSUME NEW S \in SUBSET QQs, ReceiveRequest(c, S) PROVE TypeInv'
  BY <1>3 DEF ReceiveRequest
<1>4. CASE ReceiveSilent(c)
  BY <1>4 DEF ReceiveSilent
<1> QED BY <1>1, <1>2, <1>3, <1>4 DEF Receive

LEMMA HandlerTypeInv ==
  ASSUME TypeInv, NEW c \in Conns, Handler(c)
  PROVE  TypeInv'
<1> USE WriteProtoType DEF TypeInv, ServerTypeOK, PcInv, shared, Goto, Goroutines, ConnPC
<1>1. CASE Reply(c)
  BY <1>1 DEF Reply
<1>2. ASSUME NEW q \in QQs, LookUp(c, q) PROVE TypeInv'
  BY <1>2 DEF LookUp, connVars, TypeOK
<1>3. CASE SendFound(c)
  BY <1>3 DEF SendFound
<1>4. CASE Return(c)
  BY <1>4, ReaderType DEF Return
<1>5. CASE RegisterReply(c)
  BY <1>5 DEF RegisterReply
<1>6. CASE EnterHub(c)
  <2>1. CASE mu' = "leaked" /\ Panic(c) /\ UNCHANGED <<sendClosed, conns, qq, pc>>
    BY <1>6, <2>1, PanicType DEF EnterHub, TypeOK
  <2>2. CASE /\ sendClosed' = Evict(who[c])
             /\ qq' = [qq EXCEPT ![c] = who[c]]
             /\ conns' = Entered(c, who[c])
             /\ pc' = [pc EXCEPT ![c] = "greet"]
             /\ UNCHANGED <<mu, reader, process>>
    <3>1. TypeOK'
      BY <1>6, <2>2 DEF EnterHub, Evict, ClosedBy, TypeOK
    <3>2. who[c] \in QQs
      BY <1>6 DEF EnterHub
    <3>3. UNCHANGED <<stopped, accounts, who, rcpts, found, left>>
      BY <1>6 DEF EnterHub
    <3>4. pc' \in [Goroutines -> ConnPC \cup PushPC]
      BY <2>2
    <3>5. PcInv'
      BY <2>2, <3>2, <3>3
    <3> QED BY <2>2, <3>1, <3>2, <3>3, <3>4, <3>5 DEF Entered
  <2> QED BY <1>6, <2>1, <2>2 DEF EnterHub
<1>7. CASE Greet(c)
  BY <1>7 DEF Greet
<1>8. ASSUME NEW p \in Background, SpawnPush(c, p) PROVE TypeInv'
  BY <1>8, ConnAssumption DEF SpawnPush, connVars, TypeOK, PushPC
<1> QED BY <1>1, <1>2, <1>3, <1>4, <1>5, <1>6, <1>7, <1>8 DEF Handler

LEMMA CleanUpTypeInv ==
  ASSUME TypeInv, NEW c \in Conns, CleanUp(c)
  PROVE  TypeInv'
<1> USE DEF TypeInv, ServerTypeOK, PcInv, shared, Goto, Goroutines, ConnPC
<1>1. CASE Leave(c)
  BY <1>1 DEF Leave, connVars, TypeOK
<1>2. CASE RemoveUser(c)
  <2>1. CASE Panic(c) /\ UNCHANGED <<sendClosed, conns, pc>>
    BY <1>2, <2>1, PanicType DEF RemoveUser, TypeOK
  <2>2. CASE /\ sendClosed' = ClosedBy({conns[qq[c]]})
             /\ conns' = Deregister(c, qq[c])
             /\ pc' = [pc EXCEPT ![c] = "gone"]
             /\ UNCHANGED <<reader, process>>
    <3>1. TypeOK'
      BY <1>2, <2>2 DEF RemoveUser, ClosedBy, TypeOK
    <3>2. conns' \in [QQs -> Conns \cup {NoConn}]
      BY <2>2 DEF Deregister
    <3>3. UNCHANGED <<qq, mu, stopped, accounts, who, rcpts, found, left>>
      BY <1>2 DEF RemoveUser
    <3>4. pc' \in [Goroutines -> ConnPC \cup PushPC]
      BY <2>2
    <3>5. PcInv'
      BY <2>2, <3>3
    <3> QED BY <3>1, <3>2, <3>3, <3>4, <3>5
  <2> QED BY <1>2, <2>1, <2>2 DEF RemoveUser
<1> QED BY <1>1, <1>2 DEF CleanUp

LEMMA PushTypeInv ==
  ASSUME TypeInv, NEW p \in Background, Push(p)
  PROVE  TypeInv'
<1> USE DEF TypeInv, ServerTypeOK, PcInv, shared, Goroutines
<1>1. /\ TypeOK'
      /\ UNCHANGED <<shared, rcpts>>
  <2>1. ASSUME NEW n \in 0..MaxOffline, QueryOffline(p, n) PROVE TypeOK'
    BY <2>1 DEF QueryOffline, connVars, TypeOK
  <2>2. CASE PushLookUp(p) \/ PushAborts(p)
    BY <2>2 DEF PushLookUp, PushAborts, connVars, TypeOK
  <2>3. CASE PushOne(p)
    <3>1. found[p] \in Conns
      BY <2>3 DEF PushOne
    <3> QED BY <2>3, <3>1, WriteProtoType DEF PushOne
  <2>4. UNCHANGED <<shared, rcpts>>
    BY DEF Push, QueryOffline, PushLookUp, PushOne, PushAborts
  <2> QED BY <2>1, <2>2, <2>3, <2>4 DEF Push
\* Each step ends the push or leaves it with a user and what is left for him.
<1> DEFINE ToLook == /\ pc' = [pc EXCEPT ![p] = "look"]
                     /\ \E n \in Nat \ {0} : left' = [left EXCEPT ![p] = n]
                     /\ who[p] \in QQs /\ UNCHANGED who
                     /\ UNCHANGED found \/ found' = [found EXCEPT ![p] = NoConn]
           ToPush == /\ pc' = [pc EXCEPT ![p] = "push"]
                     /\ conns[who[p]] \in Conns
                     /\ found' = [found EXCEPT ![p] = conns[who[p]]]
                     /\ who[p] \in QQs /\ left[p] # 0
                     /\ UNCHANGED <<who, left>>
<1>2. PushEnds(p) \/ ToLook \/ ToPush
  <2>1. ASSUME NEW n \in 0..MaxOffline, QueryOffline(p, n), ~PushEnds(p) PROVE ToLook
    <3>1. n \in Nat
      BY HubAssumption
    <3> QED BY <2>1, <3>1 DEF QueryOffline, Goto
  <2>2. CASE PushLookUp(p)
    <3>1. who[p] \in QQs /\ conns[who[p]] \in Conns \cup {NoConn}
      BY <2>2 DEF PushLookUp
    <3> QED BY <2>2, <3>1 DEF PushLookUp, Goto
  <2>3. CASE PushOne(p) /\ ~PushEnds(p)
    <3>1. left[p] - 1 \in Nat \ {0} /\ left' = [left EXCEPT ![p] = left[p] - 1]
      BY <2>3 DEF PushOne
    <3> QED BY <2>3, <3>1 DEF PushOne, Goto
  <2>4. CASE PushAborts(p)
    BY <2>4 DEF PushAborts
  <2> QED BY <2>1, <2>2, <2>3, <2>4 DEF Push
<1>3. /\ pc' \in [Goroutines -> ConnPC \cup PushPC]
      /\ who' \in [Goroutines -> QQs \cup {NoQQ}]
      /\ found' \in [Goroutines -> Conns \cup {NoConn}]
      /\ left' \in [Background -> Nat]
  BY <1>2 DEF PushEnds, Goto, PushPC
<1>4. PcInv'
  <2> USE ConnAssumption
  <2>1. CASE PushEnds(p)
    BY <2>1 DEF PushEnds, Goto
  <2>2. CASE pc' = [pc EXCEPT ![p] = "look"]
    BY <1>2, <2>2 DEF PushEnds, Goto
  <2>3. CASE pc' = [pc EXCEPT ![p] = "push"]
    BY <1>2, <2>3 DEF PushEnds, Goto
  <2> QED BY <1>2, <2>1, <2>2, <2>3
<1> QED BY <1>1, <1>3, <1>4

LEMMA OtherTypeInv ==
  ASSUME TypeInv, Shutdown \/ (\E c \in Conns : Transport(c)) \/ UNCHANGED vars
  PROVE  TypeInv'
<1> USE DEF TypeInv, ServerTypeOK, PcInv, shared, Goroutines
<1>1. CASE ShutdownBegins
  BY <1>1 DEF ShutdownBegins, connVars, TypeOK
<1>2. ASSUME NEW q \in QQs, ShutdownCloses(q) PROVE TypeInv'
  <2>1. closers' \in [Conns -> Nat]
    BY <1>2 DEF ShutdownCloses, TypeOK
  <2> QED BY <1>2, <2>1, CloseType DEF ShutdownCloses
<1>3. CASE ShutdownEnds
  BY <1>3 DEF ShutdownEnds, connVars, TypeOK
<1>4. CASE Exit
  BY <1>4 DEF Exit, hubVars, TypeOK
<1>5. ASSUME NEW c \in Conns, Transport(c) PROVE TypeInv'
  <2>1. TypeOK'
    BY <1>5, ReaderType, WriterType, SpawnedCloseType DEF Transport
  <2> QED BY <1>5, <2>1 DEF Transport, hubVars
<1>6. CASE UNCHANGED vars
  BY <1>6 DEF vars, hubVars, connVars, TypeOK
<1> QED BY <1>1, <1>2, <1>3, <1>4, <1>5, <1>6 DEF Shutdown

LEMMA TypeInvStep == TypeInv /\ [HubNext]_vars => TypeInv'
BY ServeType, ReceiveTypeInv, HandlerTypeInv, CleanUpTypeInv, PushTypeInv, OtherTypeInv
   DEF HubNext

LEMMA TypeInvInit == HubInit => TypeInv
<1> SUFFICES ASSUME HubInit PROVE TypeInv
  OBVIOUS
<1>1. TypeOK
  BY ConnAssumption DEF HubInit, Init, TypeOK, ReaderState, WriterState
<1>2. PcInv
  BY DEF HubInit, PcInv, Goroutines
<1> QED BY <1>1, <1>2 DEF HubInit, TypeInv, ServerTypeOK, Goroutines, ConnPC, PushPC

\* Every variable of the server keeps its type; in particular a goroutine that
\* sends has a connection, and one that pushes or logs in has a user.
THEOREM HubTypeCorrect == HubSpec => []HubTypeOK
<1> DEFINE ObservedOK == again \subseteq Conns /\ dropped \subseteq Conns
<1>1. HubInit => ObservedOK
  BY DEF HubInit
<1>2. ObservedOK /\ [HubNext]_vars => ObservedOK'
  BY DEF HubNext, Observe, vars, observed
<1>3. TypeInv /\ ObservedOK => HubTypeOK
  BY DEF TypeInv, HubTypeOK
<1> QED BY <1>1, <1>2, <1>3, TypeInvInit, TypeInvStep, PTL DEF HubSpec

-----------------------------------------------------------------------------
(* A connection that is logged in and open is the registered one.          *)

\* Closing is for good, and three actions alone change who is registered.
Monotone ==
  \A c \in Conns : (sendClosed[c] => sendClosed'[c]) /\ (done[c] => done'[c])

Registers ==
  \/ \E c \in Conns : EnterHub(c) \/ RemoveUser(c)
  \/ \E q \in QQs : ShutdownCloses(q)

LEMMA MethodsMonotone ==
  ASSUME TypeOK, NEW g, NEW c
  PROVE  /\ \A m : WriteProto(g, c, m) => Monotone
         /\ Close(g, c) => Monotone
BY DEF TypeOK, WriteProto, Close, ClosedBy, Monotone

LEMMA RegistrationsKept ==
  ASSUME TypeInv, [HubNext]_vars, ~Registers
  PROVE  UNCHANGED <<conns, qq>> /\ Monotone
<1> USE MethodsMonotone DEF TypeInv, ServerTypeOK, TypeOK, shared
<1>1. ASSUME NEW c \in Conns, Admit(c) \/ Upgrade(c) \/ UpgradeFails(c)
      PROVE  UNCHANGED <<conns, qq>> /\ Monotone
  BY <1>1 DEF Admit, Upgrade, UpgradeFails, Start, connVars, Monotone
<1>2. ASSUME NEW c \in Conns, Receive(c)
      PROVE  UNCHANGED <<conns, qq>> /\ Monotone
  BY <1>2 DEF Receive, ReceiveLogin, ReceiveRegister, ReceiveRequest, ReceiveSilent,
              ReadMessage, Monotone
<1>3. ASSUME NEW c \in Conns, Handler(c)
      PROVE  UNCHANGED <<conns, qq>> /\ Monotone
  <2>1. CASE Reply(c) \/ SendFound(c) \/ RegisterReply(c) \/ Greet(c)
    BY <2>1 DEF Reply, SendFound, RegisterReply, Greet
  <2>2. CASE Return(c) \/ (\E q \in QQs : LookUp(c, q)) \/ \E p \in Background : SpawnPush(c, p)
    BY <2>2 DEF Return, LookUp, SpawnPush, HandlerReturns, connVars, Monotone
  <2> QED BY <1>3, <2>1, <2>2 DEF Handler, Registers
<1>4. ASSUME NEW c \in Conns, CleanUp(c)
      PROVE  UNCHANGED <<conns, qq>> /\ Monotone
  BY <1>4 DEF CleanUp, Leave, Registers, connVars, Monotone
<1>5. ASSUME NEW c \in Conns, Transport(c)
      PROVE  UNCHANGED <<conns, qq>> /\ Monotone
  <2>1. CASE SpawnedClose(c)
    BY <1>5, <2>1 DEF Transport, hubVars, SpawnedClose
  <2>2. CASE ReadFails(c) \/ WriteLoop(c) \/ WriteMessageFails(c) \/ PingFails(c)
    BY <1>5, <2>2 DEF Transport, hubVars, ReadFails, WriteLoop, WriteMessage,
       WriteCloseFrame, WriterSeesDone, WriteMessageFails, PingFails, WriterExits, Monotone
  <2> QED BY <1>5, <2>1, <2>2 DEF Transport
<1>6. ASSUME NEW p \in Background, Push(p)
      PROVE  UNCHANGED <<conns, qq>> /\ Monotone
  <2>1. CASE PushOne(p)
    BY <2>1 DEF PushOne
  <2>2. CASE PushLookUp(p) \/ PushAborts(p) \/ \E n \in 0..MaxOffline : QueryOffline(p, n)
    BY <2>2 DEF PushLookUp, PushAborts, QueryOffline, connVars, Monotone
  <2> QED BY <1>6, <2>1, <2>2 DEF Push
<1>7. CASE Shutdown
  BY <1>7 DEF Shutdown, ShutdownBegins, ShutdownEnds, Exit, hubVars, connVars, Registers, Monotone
<1>8. CASE UNCHANGED vars
  BY <1>8 DEF vars, hubVars, connVars, Monotone
<1> QED BY <1>1, <1>2, <1>3, <1>4, <1>5, <1>6, <1>7, <1>8 DEF HubNext

LEMMA LiveStep ==
  ASSUME TypeInv, LiveIsRegistered, [HubNext]_vars
  PROVE  LiveIsRegistered'
<1> USE DEF TypeInv, ServerTypeOK, TypeOK, LiveIsRegistered, Live
<1>1. ASSUME NEW c \in Conns, EnterHub(c)
      PROVE  LiveIsRegistered'
  <2>1. who[c] \in QQs
    BY <1>1 DEF EnterHub, PcInv
  <2>2. CASE UNCHANGED <<sendClosed, done, conns, qq>>
    BY <2>2
  \* A live connection of this user was the registered one, and was closed.
  <2>3. CASE /\ sendClosed' = ClosedBy({conns[who[c]]})
             /\ qq' = [qq EXCEPT ![c] = who[c]]
             /\ conns' = [conns EXCEPT ![who[c]] = c]
             /\ UNCHANGED done
    BY <2>1, <2>3, HubAssumption DEF ClosedBy
  <2> QED BY <1>1, <2>2, <2>3 DEF EnterHub, Evict, Entered
<1>2. ASSUME NEW c \in Conns, RemoveUser(c)
      PROVE  LiveIsRegistered'
  <2>1. CASE UNCHANGED <<sendClosed, done, conns, qq>>
    BY <2>1
  <2>2. CASE /\ sendClosed' = ClosedBy({conns[qq[c]]})
             /\ conns' = [conns EXCEPT ![qq[c]] = NoConn]
             /\ UNCHANGED <<done, qq>>
    BY <2>2 DEF ClosedBy
  <2> QED BY <1>2, <2>1, <2>2 DEF RemoveUser, Deregister
<1>3. ASSUME NEW q \in QQs, ShutdownCloses(q)
      PROVE  LiveIsRegistered'
  <2>1. /\ conns' = [conns EXCEPT ![q] = NoConn]
        /\ UNCHANGED <<done, qq>>
        /\ sendClosed' = ClosedBy({conns[q]}) \/ (ClosePanics(conns[q]) /\ UNCHANGED sendClosed)
    BY <1>3 DEF ShutdownCloses, Close
  <2> QED BY <2>1 DEF ClosedBy, ClosePanics
<1>4. CASE ~Registers
  BY <1>4, RegistrationsKept DEF Monotone
<1> QED BY <1>1, <1>2, <1>3, <1>4 DEF Registers

\* Of all the connections of a user, only the one in h.conns is open: whatever
\* logins, disconnects, overflows and Shutdown do, a user who is kicked out
\* keeps no second live connection.
THEOREM OneLiveConnection == HubSpec => []LiveIsRegistered
<1>1. HubInit => LiveIsRegistered
  BY DEF HubInit, LiveIsRegistered, Live
<1>2. TypeInv /\ LiveIsRegistered /\ [HubNext]_vars => LiveIsRegistered'
  BY LiveStep
<1> QED BY <1>1, <1>2, TypeInvInit, TypeInvStep, PTL DEF HubSpec

-----------------------------------------------------------------------------
(* What is in h.conns, and how a login comes to leave h.mu locked.          *)

\* The properties are not inductive: that the connection which logs in is open
\* follows from the first two parts, as only registered connections are closed
\* while nothing was dropped for them, and the third part tells a second login
\* on a connection from the first.
EntryInv ==
  /\ \A c \in Conns : closers[c] > 0 => c \in dropped
  /\ \A c \in Conns : sendClosed[c] /\ qq[c] = NoQQ => c \in dropped
  /\ \A q \in QQs : conns[q] # NoConn => qq[conns[q]] # NoQQ
  /\ RoutesToOwner
  /\ RegisteredIsOpen
  /\ LockLeaksByClosed

LEMMA ObservedGrow ==
  ASSUME [HubNext]_vars
  PROVE  /\ again \subseteq again' /\ dropped \subseteq dropped'
         /\ \A c \in Conns : qq[c] # NoQQ /\ pc[c] = "login" /\ pc'[c] = "greet" => c \in again'
<1>1. CASE HubNext
  BY <1>1 DEF HubNext, Observe
<1>2. CASE UNCHANGED vars
  BY <1>2 DEF vars, hubVars, observed
<1> QED BY <1>1, <1>2

\* A pending go c.Close() was left by a dropped message.
LEMMA ClosersObserved ==
  ASSUME TypeInv, \A c \in Conns : closers[c] > 0 => c \in dropped, [HubNext]_vars
  PROVE  \A c \in Conns : closers'[c] > 0 => c \in dropped'
<1>1. CASE HubNext
  <2> SUFFICES ASSUME NEW c \in Conns, closers'[c] > 0 PROVE c \in dropped'
    OBVIOUS
  <2>1. closers[c] \in Nat /\ closers'[c] \in Nat
    BY TypeInvStep DEF TypeInv, ServerTypeOK, TypeOK
  <2>2. CASE closers'[c] > closers[c]
    BY <1>1, <2>2 DEF HubNext, Observe
  <2>3. CASE ~(closers'[c] > closers[c])
    BY <2>1, <2>3, ObservedGrow
  <2> QED BY <2>2, <2>3
<1>2. CASE UNCHANGED vars
  BY <1>2 DEF vars, connVars, observed
<1> QED BY <1>1, <1>2

\* A step that changes no entry closes a connection only where a message was
\* dropped, takes no lock for ever, and ends no connection that is logged in.
LEMMA OthersKeep ==
  ASSUME TypeInv, [HubNext]_vars, ~Registers
  PROVE  /\ \A c \in Conns : sendClosed'[c] # sendClosed[c] => closers[c] > 0
         /\ \A c \in Conns : pc'[c] = "gone" => pc[c] = "gone" \/ qq[c] = NoQQ
         /\ mu' = "leaked" => mu = "leaked"
<1> DEFINE Kept ==
      /\ \A c \in Conns : sendClosed'[c] # sendClosed[c] => closers[c] > 0
      /\ \A c \in Conns : pc'[c] = "gone" => pc[c] = "gone" \/ qq[c] = NoQQ
      /\ mu' = "leaked" => mu = "leaked"
<1> SUFFICES Kept
  OBVIOUS
<1> USE DEF TypeInv, ServerTypeOK, TypeOK, Goroutines, shared, Goto
<1>1. \A g, c, m : WriteProto(g, c, m) => UNCHANGED sendClosed
  BY DEF WriteProto
<1>2. ASSUME NEW c \in Conns, Admit(c) \/ Upgrade(c) \/ UpgradeFails(c)
      PROVE  Kept
  BY <1>2 DEF Admit, Upgrade, UpgradeFails, Start, connVars
<1>3. ASSUME NEW c \in Conns, Receive(c)
      PROVE  Kept
  BY <1>3 DEF Receive, ReceiveLogin, ReceiveRegister, ReceiveRequest, ReceiveSilent,
              ReadMessage
<1>4. ASSUME NEW c \in Conns, Handler(c)
      PROVE  Kept
  <2>1. CASE Reply(c) \/ SendFound(c) \/ Greet(c) \/ RegisterReply(c)
    BY <1>1, <2>1 DEF Reply, SendFound, Greet, RegisterReply
  <2>2. CASE Return(c) \/ (\E q \in QQs : LookUp(c, q))
    BY <2>2 DEF Return, LookUp, HandlerReturns, connVars
  <2>3. ASSUME NEW p \in Background, SpawnPush(c, p) PROVE Kept
    BY <2>3, ConnAssumption DEF SpawnPush, connVars
  <2> QED BY <1>4, <2>1, <2>2, <2>3 DEF Handler, Registers
<1>5. ASSUME NEW c \in Conns, CleanUp(c)
      PROVE  Kept
  BY <1>5 DEF CleanUp, Leave, Registers, connVars
<1>6. ASSUME NEW c \in Conns, Transport(c)
      PROVE  Kept
  <2>1. CASE SpawnedClose(c)
    <3>1. closers[c] > 0 /\ \A d \in Conns : sendClosed'[d] # sendClosed[d] => d = c
      BY <2>1 DEF SpawnedClose, Close, ClosedBy
    <3> QED BY <1>6, <3>1 DEF Transport, hubVars
  <2>2. CASE ~SpawnedClose(c)
    BY <1>6, <2>2 DEF Transport, hubVars, ReadFails, WriteLoop, WriteMessage,
       WriteCloseFrame, WriterSeesDone, WriteMessageFails, PingFails, WriterExits
  <2> QED BY <2>1, <2>2
<1>7. ASSUME NEW p \in Background, Push(p)
      PROVE  Kept
  <2>1. p \notin Conns
    BY ConnAssumption
  <2>2. \A l : pc' = [pc EXCEPT ![p] = l] => \A c \in Conns : pc'[c] = pc[c]
    BY <2>1
  <2>3. \A c \in Conns : pc'[c] = pc[c]
    BY <1>7, <2>2 DEF Push, PushOne, PushLookUp, PushAborts, QueryOffline, PushEnds
  <2>4. UNCHANGED <<sendClosed, mu>>
    BY <1>1, <1>7 DEF Push, PushOne, PushLookUp, PushAborts, QueryOffline, connVars
  <2> QED BY <2>3, <2>4
<1>8. CASE Shutdown
  BY <1>8 DEF Shutdown, ShutdownBegins, ShutdownEnds, Exit, hubVars, connVars, Registers
<1>9. CASE UNCHANGED vars
  BY <1>9 DEF vars, hubVars, connVars
<1> QED BY <1>2, <1>3, <1>4, <1>5, <1>6, <1>7, <1>8, <1>9 DEF HubNext

LEMMA EntryOthers ==
  ASSUME TypeInv, EntryInv, [HubNext]_vars, ~Registers
  PROVE  EntryInv'
<1> USE HubAssumption DEF TypeInv, ServerTypeOK, TypeOK, EntryInv
<1>1. /\ UNCHANGED <<conns, qq>> /\ Monotone
      /\ again \subseteq again' /\ dropped \subseteq dropped'
  BY RegistrationsKept, ObservedGrow
<1>2. /\ \A c \in Conns : sendClosed'[c] # sendClosed[c] => c \in dropped'
      /\ \A c \in Conns : pc'[c] = "gone" => pc[c] = "gone" \/ qq[c] = NoQQ
      /\ mu' = "leaked" => mu = "leaked"
  BY <1>1, OthersKeep
<1>3. \A c \in Conns : closers'[c] > 0 => c \in dropped'
  BY ClosersObserved
<1>4. \A c \in Conns : sendClosed'[c] /\ qq'[c] = NoQQ => c \in dropped'
  BY <1>1, <1>2
<1>5. RoutesToOwner'
  <2> SUFFICES ASSUME NEW q \in QQs, conns[q] # NoConn, conns[q] \notin again'
               PROVE  qq[conns[q]] = q /\ pc'[conns[q]] # "gone"
    BY <1>1 DEF RoutesToOwner
  <2>1. conns[q] \in Conns /\ qq[conns[q]] = q /\ pc[conns[q]] # "gone"
    BY <1>1 DEF RoutesToOwner
  <2> QED BY <1>2, <2>1
<1>6. RegisteredIsOpen'
  BY <1>1, <1>2 DEF RegisteredIsOpen, Monotone
<1>7. LockLeaksByClosed'
  BY <1>1, <1>2 DEF LockLeaksByClosed, Monotone
<1> QED BY <1>1, <1>3, <1>4, <1>5, <1>6, <1>7

LEMMA EntryEnters ==
  ASSUME TypeInv, EntryInv, [HubNext]_vars, NEW c \in Conns, EnterHub(c)
  PROVE  EntryInv'
<1> USE HubAssumption DEF TypeInv, ServerTypeOK, TypeOK, Goroutines
<1> DEFINE q == who[c]
<1>1. q \in QQs /\ pc[c] = "login" /\ mu = "free"
  BY DEF EnterHub, PcInv
<1>2. again \subseteq again' /\ dropped \subseteq dropped'
  BY ObservedGrow
<1>3. \A d \in Conns : closers'[d] > 0 => d \in dropped'
  BY ClosersObserved DEF EntryInv
<1>4. /\ \A d \in Conns : sendClosed[d] /\ qq[d] = NoQQ => d \in dropped
      /\ \A r \in QQs : conns[r] # NoConn => qq[conns[r]] # NoQQ
      /\ \A r \in QQs : conns[r] # NoConn /\ conns[r] \notin again =>
           qq[conns[r]] = r /\ pc[conns[r]] # "gone"
      /\ \A r \in QQs : conns[r] # NoConn /\ sendClosed[conns[r]] =>
           done[conns[r]] \/ conns[r] \in again \cup dropped
  BY DEF EntryInv, RoutesToOwner, RegisteredIsOpen
\* Closing the old connection panics: the lock is kept, and this is its cause.
<1>5. CASE conns[q] # NoConn /\ ClosePanics(conns[q])
  <2>1. UNCHANGED <<sendClosed, done, conns, qq, pc>>
    BY <1>5 DEF EnterHub
  <2>2. sendClosed[conns[q]] /\ conns[q] \in again \cup dropped
    BY <1>1, <1>4, <1>5 DEF ClosePanics
  <2>3. LockLeaksByClosed'
    BY <1>1, <1>2, <1>5, <2>1, <2>2 DEF LockLeaksByClosed
  <2>4. RoutesToOwner' /\ RegisteredIsOpen'
    BY <1>2, <1>4, <2>1 DEF RoutesToOwner, RegisteredIsOpen
  <2> QED BY <1>2, <1>3, <1>4, <2>1, <2>3, <2>4 DEF EntryInv
<1>6. CASE ~(conns[q] # NoConn /\ ClosePanics(conns[q]))
  <2>1. /\ sendClosed' = [d \in Conns |-> sendClosed[d] \/ (d = conns[q] /\ ~done[d])]
        /\ qq' = [qq EXCEPT ![c] = q]
        /\ conns' = [conns EXCEPT ![q] = c]
        /\ pc' = [pc EXCEPT ![c] = "greet"]
        /\ UNCHANGED <<mu, done>>
    BY <1>6 DEF EnterHub, Evict, Entered, ClosedBy, Goto
  \* A connection that was logged in has now logged in again.
  <2>2. qq[c] # NoQQ => c \in again'
    <3>1. pc'[c] = "greet"
      BY <2>1
    <3> QED BY <1>1, <3>1, ObservedGrow
  <2> HIDE DEF q
  <2>3. \A r \in QQs : conns[r] = c => c \in again'
    BY <1>4, <2>2
  <2>4. RoutesToOwner'
    <3> SUFFICES ASSUME NEW r \in QQs, conns'[r] # NoConn, conns'[r] \notin again'
                 PROVE  qq'[conns'[r]] = r /\ pc'[conns'[r]] # "gone"
      BY DEF RoutesToOwner
    <3>1. CASE r = q
      BY <1>1, <2>1, <3>1
    <3>2. CASE r # q
      <4>1. conns'[r] = conns[r] /\ conns[r] \in Conns /\ conns[r] # c
        BY <1>1, <2>1, <2>3, <3>2
      <4> QED BY <1>2, <1>4, <2>1, <4>1
    <3> QED BY <3>1, <3>2
  <2>5. RegisteredIsOpen'
    <3> SUFFICES ASSUME NEW r \in QQs, conns'[r] # NoConn, sendClosed'[conns'[r]],
                        conns'[r] \notin again', conns'[r] \notin dropped'
                 PROVE  done'[conns'[r]]
      BY DEF RegisteredIsOpen
    <3>1. CASE r = q
      <4>1. conns'[r] = c /\ qq[c] = NoQQ
        BY <1>1, <2>1, <2>2, <3>1
      <4>2. c # conns[q] /\ sendClosed[c]
        BY <1>1, <2>1, <2>3, <3>1, <4>1
      <4> QED BY <1>2, <1>4, <4>1, <4>2
    <3>2. CASE r # q
      <4>1. conns'[r] = conns[r] /\ conns[r] \in Conns
        BY <1>1, <2>1, <3>2
      <4>2. qq[conns[r]] = r
        BY <1>2, <1>4, <4>1
      <4>3. conns[r] # conns[q]
        BY <1>1, <1>2, <1>4, <3>2, <4>1, <4>2
      <4> QED BY <1>2, <1>4, <2>1, <4>1, <4>3
    <3> QED BY <3>1, <3>2
  <2>6. ASSUME NEW d \in Conns, sendClosed'[d], qq'[d] = NoQQ PROVE d \in dropped'
    <3>1. d # c /\ qq[d] = NoQQ
      BY <1>1, <2>1, <2>6
    <3>2. d # conns[q]
      BY <1>1, <1>4, <3>1
    <3> QED BY <1>2, <1>4, <2>1, <2>6, <3>1, <3>2
  <2>7. \A r \in QQs : conns'[r] # NoConn => qq'[conns'[r]] # NoQQ
    BY <1>1, <1>4, <2>1
  <2>8. LockLeaksByClosed'
    BY <1>1, <2>1 DEF LockLeaksByClosed
  <2> QED BY <1>3, <2>4, <2>5, <2>6, <2>7, <2>8 DEF EntryInv
<1> QED BY <1>5, <1>6

\* Deregistering a user closes his connection or panics.
LEMMA EntryLeaves ==
  ASSUME TypeInv, EntryInv, [HubNext]_vars,
         (\E c \in Conns : RemoveUser(c)) \/ (\E q \in QQs : ShutdownCloses(q))
  PROVE  EntryInv'
<1> USE HubAssumption DEF TypeInv, ServerTypeOK, TypeOK, Goroutines
<1>1. again \subseteq again' /\ dropped \subseteq dropped'
  BY ObservedGrow
<1>2. \A d \in Conns : closers'[d] > 0 => d \in dropped'
  BY ClosersObserved DEF EntryInv
<1>3. /\ \A d \in Conns : sendClosed[d] /\ qq[d] = NoQQ => d \in dropped
      /\ \A r \in QQs : conns[r] # NoConn => qq[conns[r]] # NoQQ
      /\ \A r \in QQs : conns[r] # NoConn /\ conns[r] \notin again =>
           qq[conns[r]] = r /\ pc[conns[r]] # "gone"
      /\ \A r \in QQs : conns[r] # NoConn /\ sendClosed[conns[r]] =>
           done[conns[r]] \/ conns[r] \in again \cup dropped
  BY DEF EntryInv, RoutesToOwner, RegisteredIsOpen
<1>4. mu' # "leaked"
  BY DEF RemoveUser, ShutdownCloses
<1>5. CASE UNCHANGED <<sendClosed, done, conns, qq, pc>>
  <2>1. RoutesToOwner' /\ RegisteredIsOpen'
    BY <1>1, <1>3, <1>5 DEF RoutesToOwner, RegisteredIsOpen
  <2> QED BY <1>1, <1>2, <1>3, <1>4, <1>5, <2>1 DEF EntryInv, LockLeaksByClosed
<1>6. ASSUME NEW q \in QQs,
             /\ \A d \in Conns : sendClosed'[d] => sendClosed[d] \/ d = conns[q]
             /\ conns' = [conns EXCEPT ![q] = NoConn]
             /\ UNCHANGED <<qq, done>>
             /\ \/ UNCHANGED pc
                \/ \E c \in Conns : qq[c] = q /\ pc' = [pc EXCEPT ![c] = "gone"]
      PROVE  EntryInv'
  <2>1. ASSUME NEW r \in QQs, conns'[r] # NoConn, conns'[r] \notin again'
        PROVE  /\ r # q /\ conns'[r] = conns[r] /\ conns[r] \in Conns
               /\ qq[conns[r]] = r /\ pc[conns[r]] # "gone" /\ conns[r] # conns[q]
    <3>1. r # q /\ conns'[r] = conns[r] /\ conns[r] \in Conns
      BY <1>6, <2>1
    <3>2. qq[conns[r]] = r /\ pc[conns[r]] # "gone"
      BY <1>1, <1>3, <2>1, <3>1
    <3>3. conns[r] # conns[q]
      BY <1>1, <1>3, <2>1, <3>1, <3>2
    <3> QED BY <3>1, <3>2, <3>3
  <2>2. RoutesToOwner'
    <3> SUFFICES ASSUME NEW r \in QQs, conns'[r] # NoConn, conns'[r] \notin again'
                 PROVE  qq'[conns'[r]] = r /\ pc'[conns'[r]] # "gone"
      BY DEF RoutesToOwner
    <3> QED BY <1>6, <2>1
  <2>3. RegisteredIsOpen'
    <3> SUFFICES ASSUME NEW r \in QQs, conns'[r] # NoConn, sendClosed'[conns'[r]],
                        conns'[r] \notin again', conns'[r] \notin dropped'
                 PROVE  done'[conns'[r]]
      BY DEF RegisteredIsOpen
    <3> QED BY <1>1, <1>3, <1>6, <2>1
  <2>4. ASSUME NEW d \in Conns, sendClosed'[d], qq'[d] = NoQQ PROVE d \in dropped'
    <3>1. d # conns[q] /\ qq[d] = NoQQ
      BY <1>3, <1>6, <2>4
    <3> QED BY <1>1, <1>3, <1>6, <2>4, <3>1
  <2>5. \A r \in QQs : conns'[r] # NoConn => qq'[conns'[r]] # NoQQ
    BY <1>3, <1>6
  <2> QED BY <1>2, <1>4, <2>2, <2>3, <2>4, <2>5 DEF EntryInv, LockLeaksByClosed
<1>7. ASSUME NEW c \in Conns, RemoveUser(c)
      PROVE  EntryInv'
  <2>1. CASE UNCHANGED <<sendClosed, done, conns, qq, pc>>
    BY <1>5, <2>1
  <2>2. CASE ~UNCHANGED <<sendClosed, done, conns, qq, pc>>
    <3>1. /\ qq[c] \in QQs
          /\ sendClosed' = ClosedBy({conns[qq[c]]})
          /\ conns' = [conns EXCEPT ![qq[c]] = NoConn]
          /\ pc' = [pc EXCEPT ![c] = "gone"]
          /\ UNCHANGED <<qq, done>>
      BY <1>7, <2>2 DEF RemoveUser, Deregister, Goto
    <3> QED BY <1>6, <3>1 DEF ClosedBy
  <2> QED BY <2>1, <2>2
<1>8. ASSUME NEW q \in QQs, ShutdownCloses(q)
      PROVE  EntryInv'
  <2>1. PICK g \in Background : Close(g, conns[q])
    BY <1>8 DEF ShutdownCloses
  <2>2. UNCHANGED done /\ \A d \in Conns : sendClosed'[d] => sendClosed[d] \/ d = conns[q]
    BY <2>1 DEF Close, ClosedBy
  <2>3. conns' = [conns EXCEPT ![q] = NoConn] /\ UNCHANGED <<qq, pc>>
    BY <1>8 DEF ShutdownCloses
  <2> QED BY <1>6, <2>2, <2>3
<1> QED BY <1>7, <1>8

LEMMA EntryHolds == HubSpec => []EntryInv
<1>1. HubInit => EntryInv
  BY DEF HubInit, Init, EntryInv, RoutesToOwner, RegisteredIsOpen, LockLeaksByClosed
<1>2. TypeInv /\ EntryInv /\ [HubNext]_vars => EntryInv'
  BY EntryOthers, EntryEnters, EntryLeaves DEF Registers
<1> QED BY <1>1, <1>2, TypeInvInit, TypeInvStep, PTL DEF HubSpec

\* Whoever sends to a user reaches a connection that is logged in as that user
\* and will still be cleaned up, unless it has logged in as two users.
THEOREM SendsReachOwner == HubSpec => []RoutesToOwner
<1>1. EntryInv => RoutesToOwner
  BY DEF EntryInv
<1> QED BY <1>1, EntryHolds, PTL

\* Logins, clean-ups and Shutdown, in whatever order, leave no closed connection
\* in the hub: dropped messages and second logins on a connection do.
THEOREM ClosedEntryHasCause == HubSpec => []RegisteredIsOpen
<1>1. EntryInv => RegisteredIsOpen
  BY DEF EntryInv
<1> QED BY <1>1, EntryHolds, PTL

\* h.mu stays locked for ever only after one of these two.
THEOREM LeakHasCause == HubSpec => []LockLeaksByClosed
<1>1. EntryInv => LockLeaksByClosed
  BY DEF EntryInv
<1> QED BY <1>1, EntryHolds, PTL

-----------------------------------------------------------------------------
(* The hub uses its connections as Conn.tla allows.                        *)

\* What the hub knows of was started.
StartedInv ==
  /\ \A q \in QQs : conns[q] # NoConn => reader[conns[q]] # "idle"
  /\ \A g \in Goroutines : found[g] # NoConn => reader[found[g]] # "idle"

LEMMA CallsAllowed ==
  ASSUME TypeInv, StartedInv, HubNext
  PROVE  [Next]_connVars
<1> USE DEF TypeInv, ServerTypeOK, TypeOK, Goroutines
<1>1. process = "running"
  BY DEF HubNext
<1>2. ASSUME NEW c \in Conns, ConnStep(c) PROVE Next
  BY <1>1, <1>2 DEF Next
<1>3. ASSUME NEW g \in Goroutines, NEW c \in Conns, NEW m \in Msgs,
             MayCall(g), reader[c] # "idle", WriteProto(g, c, m)
      PROVE  Next
  BY <1>1, <1>3 DEF Next, CallWriteProto
<1>4. ASSUME NEW g \in Goroutines, NEW c \in Conns,
             MayCall(g), reader[c] # "idle", Close(g, c), UNCHANGED closers
      PROVE  Next
  BY <1>1, <1>4 DEF Next, CallClose
<1>5. ASSUME NEW c \in Conns, Admit(c) \/ Upgrade(c) \/ UpgradeFails(c) \/ Receive(c)
                               \/ Transport(c) \/ Leave(c) \/ Return(c)
                               \/ (\E q \in QQs : LookUp(c, q))
                               \/ (\E p \in Background : SpawnPush(c, p))
      PROVE  [Next]_connVars
  BY <1>2, <1>5 DEF Admit, Upgrade, UpgradeFails, Receive, ReceiveLogin, ReceiveRegister,
     ReceiveRequest, ReceiveSilent, Transport, Leave, Return, LookUp, SpawnPush, ConnStep
<1>6. ASSUME NEW c \in Conns, Reply(c) \/ RegisterReply(c) \/ Greet(c)
      PROVE  Next
  <2>1. MayCall(c) /\ reader[c] # "idle" /\ \E m \in Msgs : WriteProto(c, c, m)
    BY <1>6 DEF Reply, RegisterReply, Greet, MayCall
  <2> QED BY <1>3, <2>1
<1>7. ASSUME NEW c \in Conns, SendFound(c)
      PROVE  Next
  <2>1. found[c] \in Conns /\ reader[found[c]] # "idle"
    BY <1>7, HubAssumption DEF SendFound, PcInv, StartedInv
  <2>2. MayCall(c) /\ \E m \in Msgs : WriteProto(c, found[c], m)
    BY <1>7 DEF SendFound, MayCall
  <2> QED BY <1>3, <2>1, <2>2
\* Closing the entry of a user, or nothing where there is none.
<1>8. ASSUME NEW c \in Conns, NEW q \in QQs, reader[c] \in {"handling", "left"},
             IF conns[q] # NoConn /\ ClosePanics(conns[q])
             THEN Panic(c) /\ UNCHANGED sendClosed
             ELSE sendClosed' = ClosedBy({conns[q]}) /\ UNCHANGED <<reader, process>>,
             UNCHANGED <<send, done, writer, closers>>
      PROVE  [Next]_connVars
  <2>1. CASE conns[q] = NoConn
    <3>1. ClosedBy({conns[q]}) = sendClosed
      BY <2>1, HubAssumption DEF ClosedBy
    <3> QED BY <1>8, <2>1, <3>1 DEF connVars
  <2>2. CASE conns[q] # NoConn
    <3>1. conns[q] \in Conns /\ reader[conns[q]] # "idle" /\ MayCall(c)
      BY <1>8, <2>2 DEF StartedInv, MayCall
    <3>2. Close(c, conns[q])
      BY <1>8, <2>2 DEF Close
    <3> QED BY <1>4, <1>8, <3>1, <3>2
  <2> QED BY <2>1, <2>2
<1>9. ASSUME NEW c \in Conns, EnterHub(c)
      PROVE  [Next]_connVars
  <2>1. who[c] \in QQs
    BY <1>9 DEF EnterHub, PcInv
  <2> QED BY <1>8, <1>9, <2>1 DEF EnterHub, Evict
<1>10. ASSUME NEW c \in Conns, RemoveUser(c)
       PROVE  [Next]_connVars
  <2>1. qq[c] \in QQs
    BY <1>10 DEF RemoveUser
  <2> QED BY <1>8, <1>10, <2>1 DEF RemoveUser
<1>11. ASSUME NEW p \in Background, Push(p)
       PROVE  [Next]_connVars
  <2>1. CASE PushOne(p)
    <3>1. /\ found[p] \in Conns /\ reader[found[p]] # "idle"
          /\ MayCall(p) /\ \E m \in Msgs : WriteProto(p, found[p], m)
      BY <2>1, HubAssumption, ConnAssumption DEF PushOne, PcInv, StartedInv, MayCall
    <3> QED BY <1>3, <3>1
  <2>2. CASE PushLookUp(p) \/ PushAborts(p) \/ \E n \in 0..MaxOffline : QueryOffline(p, n)
    BY <2>2 DEF PushLookUp, PushAborts, QueryOffline
  <2> QED BY <1>11, <2>1, <2>2 DEF Push
<1>12. ASSUME NEW q \in QQs, ShutdownCloses(q)
       PROVE  Next
  <2>1. conns[q] \in Conns /\ reader[conns[q]] # "idle"
    BY <1>12 DEF ShutdownCloses, Registered, StartedInv
  <2>2. PICK g \in Background : Close(g, conns[q])
    BY <1>12 DEF ShutdownCloses
  <2>3. MayCall(g)
    BY ConnAssumption DEF MayCall
  <2> QED BY <1>4, <1>12, <2>1, <2>2, <2>3 DEF ShutdownCloses
<1>13. CASE Exit
  BY <1>1, <1>13 DEF Exit, Next, ProcessEnds
<1>14. CASE ShutdownBegins \/ ShutdownEnds
  BY <1>14 DEF ShutdownBegins, ShutdownEnds
<1> QED BY <1>5, <1>6, <1>7, <1>9, <1>10, <1>11, <1>12, <1>13, <1>14
        DEF HubNext, Handler, CleanUp, Shutdown

LEMMA StartedStep ==
  ASSUME TypeInv, StartedInv, [HubNext]_vars
  PROVE  StartedInv'
<1> USE DEF TypeInv, ServerTypeOK, TypeOK, Goroutines
<1> DEFINE ReadersStart == \A c \in Conns : reader[c] # "idle" => reader'[c] # "idle"
           FromConns == \A g \in Goroutines : \/ found'[g] \in {found[g], NoConn}
                                              \/ \E q \in QQs : found'[g] = conns[q]
\* No step makes a reader idle again.
<1>1. ReadersStart
  <2>1. CASE UNCHANGED connVars
    BY <2>1 DEF connVars
  <2>2. CASE Next
    <3>1. \A g : Panic(g) => ReadersStart
      BY DEF Panic
    <3>2. \A g, c, m : WriteProto(g, c, m) => ReadersStart
      BY <3>1 DEF WriteProto, Enqueue, Overflow, Discard, SendPanics
    <3>3. \A g, c : Close(g, c) => ReadersStart
      BY <3>1 DEF Close
    <3>4. ASSUME NEW c \in Conns, ConnStep(c) PROVE ReadersStart
      BY <3>3, <3>4 DEF ConnStep, Start, ReadMessage, HandlerReturns, ReadFails, WriteLoop,
         WriteMessage, WriteCloseFrame, WriterSeesDone, WriteMessageFails, PingFails,
         WriterExits, SpawnedClose
    <3> QED BY <2>2, <3>2, <3>3, <3>4 DEF Next, CallWriteProto, CallClose, ProcessEnds
  <2> QED BY <2>1, <2>2, CallsAllowed DEF vars
\* A connection enters h.conns while its reader runs handleLogin ...
<1>2. \A q \in QQs : \/ conns'[q] \in {conns[q], NoConn}
                     \/ conns'[q] \in Conns /\ reader[conns'[q]] # "idle"
  <2>1. CASE Registers
    BY <2>1 DEF Registers, EnterHub, RemoveUser, ShutdownCloses, Entered, Deregister
  <2>2. CASE ~Registers
    BY <2>2, RegistrationsKept
  <2> QED BY <2>1, <2>2
\* ... and is found only there.
<1>3. FromConns
  <2>1. ASSUME NEW c \in Conns, HubNext, \/ Admit(c) \/ Upgrade(c) \/ UpgradeFails(c)
                                          \/ Receive(c) \/ CleanUp(c) \/ Transport(c)
        PROVE  UNCHANGED found
    BY <2>1 DEF Admit, Upgrade, UpgradeFails, Receive, ReceiveLogin, ReceiveRegister,
       ReceiveRequest, ReceiveSilent, CleanUp, Leave, RemoveUser, Transport, hubVars
  <2>2. ASSUME NEW c \in Conns, Handler(c) PROVE FromConns
    BY <2>2 DEF Handler, Reply, LookUp, SendFound, Return, RegisterReply, EnterHub, Greet, SpawnPush
  <2>3. ASSUME NEW p \in Background, Push(p) PROVE FromConns
    BY <2>3 DEF Push, PushOne, PushLookUp, PushAborts, QueryOffline, PushEnds, PcInv
  <2>4. CASE Shutdown \/ UNCHANGED vars
    BY <2>4 DEF Shutdown, ShutdownBegins, ShutdownCloses, ShutdownEnds, Exit, vars, hubVars
  <2> QED BY <2>1, <2>2, <2>3, <2>4 DEF HubNext
<1>4. ASSUME NEW q \in QQs, conns'[q] # NoConn PROVE reader'[conns'[q]] # "idle"
  <2>1. reader[conns'[q]] # "idle" /\ conns'[q] \in Conns
    BY <1>2, <1>4 DEF StartedInv
  <2> QED BY <1>1, <2>1
<1>5. ASSUME NEW g \in Goroutines, found'[g] # NoConn PROVE reader'[found'[g]] # "idle"
  <2>1. reader[found'[g]] # "idle" /\ found'[g] \in Conns
    BY <1>3, <1>5 DEF StartedInv
  <2> QED BY <1>1, <2>1
<1> QED BY <1>4, <1>5 DEF StartedInv

\* Every step of the hub is, for its connections, a step that Conn.tla allows:
\* a call of WriteProto or Close, on a connection that was started, by a
\* goroutine that runs a handler, a clean-up or in the background.  What is
\* proved about Conn for arbitrary callers therefore holds in the hub.
THEOREM HubUsesConns == HubSpec => ConnContract
<1>1. HubInit => Init /\ StartedInv
  BY DEF HubInit, StartedInv, Goroutines
<1>2. TypeInv /\ StartedInv /\ [HubNext]_vars => StartedInv'
  BY StartedStep
<1>3. TypeInv /\ StartedInv /\ [HubNext]_vars => [Next]_connVars
  BY CallsAllowed DEF vars, connVars
<1> QED BY <1>1, <1>2, <1>3, TypeInvInit, TypeInvStep, PTL DEF HubSpec, ConnContract, Spec
=============================================================================
