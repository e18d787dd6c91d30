------------------------------ MODULE ConnStream ----------------------------
(***************************************************************************)
(* The connections of Conn.tla under arbitrary callers, with a history of   *)
(* what was sent on each of them.  The n-th call of WriteProto on a         *)
(* connection sends the number n, so that a message that was dropped shows  *)
(* as a gap.  The history variables only observe: StreamSpec allows the     *)
(* behaviours of Conn's Spec with at most MaxOffers calls per connection.   *)
(***************************************************************************)
EXTENDS Conn

CONSTANT MaxOffers   \* bound on the calls of WriteProto per connection

ASSUME StreamAssumption == MaxOffers \in Nat /\ 1..MaxOffers \subseteq Msgs

VARIABLES
  offered,      \* calls of WriteProto that took place
  accepted,     \* the messages put into c.Send
  wire,         \* the messages written to the peer
  flushed       \* the close frame was written

history == <<offered, accepted, wire, flushed>>
streamVars == <<connVars, history>>

StreamTypeOK ==
  /\ TypeOK
  /\ offered \in [Conns -> 0..MaxOffers]
  /\ accepted \in [Conns -> Seq(Msgs)]
  /\ wire \in [Conns -> Seq(Msgs)]
  /\ flushed \in [Conns -> BOOLEAN]

StreamInit ==
  /\ Init
  /\ offered = [c \in Conns |-> 0]
  /\ accepted = [c \in Conns |-> <<>>]
  /\ wire = [c \in Conns |-> <<>>]
  /\ flushed = [c \in Conns |-> FALSE]

Offer(g, c) ==
  /\ offered[c] < MaxOffers
  /\ CallWriteProto(g, c, offered[c] + 1)
  /\ offered' = [offered EXCEPT ![c] = @ + 1]
  /\ accepted' = IF send' = send THEN accepted
                 ELSE [accepted EXCEPT ![c] = Append(@, offered[c] + 1)]
  /\ UNCHANGED <<wire, flushed>>

Written(c) ==
  /\ WriteMessage(c)
  /\ wire' = [wire EXCEPT ![c] = Append(@, Head(send[c]))]
  /\ UNCHANGED <<offered, accepted, flushed>>

Flushed(c) ==
  /\ WriteCloseFrame(c)
  /\ flushed' = [flushed EXCEPT ![c] = TRUE]
  /\ UNCHANGED <<offered, accepted, wire>>

\* The steps that neither accept a message nor write one.
Quiet(c) ==
  \/ Start(c) \/ ReadMessage(c) \/ HandlerReturns(c) \/ ReadFails(c)
  \/ WriterSeesDone(c) \/ WriteMessageFails(c) \/ PingFails(c)
  \/ SpawnedClose(c) \/ \E g \in Goroutines : CallClose(g, c)

StreamNext ==
  /\ process = "running"
  /\ \/ \E c \in Conns : \/ \E g \in Goroutines : Offer(g, c)
                         \/ Written(c) \/ Flushed(c)
                         \/ Quiet(c) /\ UNCHANGED history
     \/ ProcessEnds /\ UNCHANGED history

StreamSpec == StreamInit /\ [][StreamNext]_streamVars

\* The goroutines of a connection are scheduled, a handler returns, and a
\* select whose done branch stays ready takes it in the end.  No failure of
\* the network is assumed, except that reads fail after WriteLoop closed c.WS.
StreamFairness ==
  \A c \in Conns :
    /\ WF_streamVars(process = "running" /\ (Written(c) \/ Flushed(c)))
    /\ SF_streamVars(process = "running" /\ WriterSeesDone(c) /\ UNCHANGED history)
    /\ WF_streamVars(process = "running" /\ SpawnedClose(c) /\ UNCHANGED history)
    /\ WF_streamVars(process = "running" /\ HandlerReturns(c) /\ UNCHANGED history)
    /\ SF_streamVars(process = "running" /\ writer[c] = "exited" /\ ReadFails(c)
                                         /\ UNCHANGED history)

StreamFairSpec == StreamSpec /\ StreamFairness

-----------------------------------------------------------------------------
(* How the connections implement the abstract stream.                      *)

EndOf(c) ==
  IF writer[c] # "exited" THEN "up" ELSE IF flushed[c] THEN "flushed" ELSE "cut"

AbstractStream == INSTANCE Stream WITH
  Streams <- Conns, Payloads <- Msgs,
  sealed <- sendClosed, end <- [c \in Conns |-> EndOf(c)]

\* While WriteLoop runs, what was written and what is queued is what was
\* accepted; and the close frame was written by a WriteLoop that has ended.
\* No panic or late call starts a connection a second time.
StreamInv ==
  \A c \in Conns :
    /\ writer[c] # "exited" => wire[c] \o send[c] = accepted[c] /\ ~flushed[c]
    /\ writer[c] = "idle" <=> reader[c] = "idle"

\* Concurrent senders, "go c.Close()" and Close calls from anywhere, and a
\* select that picks any ready branch: still the peer receives a prefix of
\* what was accepted, in order, nothing is accepted after Close, and the
\* close frame comes after every message (WriteLoop, WriteProto, Close).
ImplementsStream == AbstractStream!Spec

\* A message that WriteProto dropped is not lost silently: the connection on
\* which it was to be sent ends, so that its client has to log in again
\* ("default: go c.Close()" in WriteProto).
DropEndsConnection ==
  \A c \in Conns :
    Len(accepted[c]) < offered[c]
      ~> \/ writer[c] = "exited" /\ reader[c] \in {"left", "panicked"}
         \/ process # "running"
=============================================================================
