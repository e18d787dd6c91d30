-------------------------------- MODULE Conn --------------------------------
(***************************************************************************)
(* pkg/websocket/conn.go: the life of the Conn objects of one server       *)
(* process.  A Conn is shared by its read goroutine (ReadLoop, which runs   *)
(* the message handlers), its write goroutine (WriteLoop), the goroutines   *)
(* started by "go c.Close()", and every other goroutine that calls          *)
(* WriteProto or Close on it.  The module describes each of these steps     *)
(* and, in Next, lets arbitrary callers take them; Hub.tla replaces the     *)
(* arbitrary callers by the handlers of internal/handler/ws.go.             *)
(*                                                                         *)
(* A Go panic is part of the behaviour: sending on or closing a closed      *)
(* channel panics.  net/http recovers the panic of a connection's own       *)
(* goroutine (the connection is then never cleaned up); a panic anywhere    *)
(* else ends the process.                                                  *)
(***************************************************************************)
EXTENDS Naturals, Sequences

CONSTANTS
  Conns,        \* the Conn objects that may be created
  Msgs,         \* what may be sent on a connection
  SendCap,      \* capacity of c.Send (256 in the code)
  SlowPeers,    \* may a peer read so slowly that c.Send fills up?
  MaxClosers,   \* bound on the pending "go c.Close()" of one connection
  Background    \* the goroutines that are not a connection's read goroutine

ASSUME ConnAssumption ==
  /\ SendCap \in Nat \ {0}
  /\ MaxClosers \in Nat \ {0}
  /\ SlowPeers \in BOOLEAN
  /\ Background # {}
  /\ Background \cap Conns = {}

VARIABLES
  send,         \* contents of c.Send
  sendClosed,   \* close(c.Send) was executed
  done,         \* close(c.done) was executed
  reader,       \* the read goroutine, from the upgrade to its end
  writer,       \* the write goroutine
  closers,      \* number of "go c.Close()" that have not run yet
  process       \* the server process

connVars == <<send, sendClosed, done, reader, writer, closers, process>>

ReaderState == {"idle", "reading", "handling", "left", "panicked"}
WriterState == {"idle", "running", "exited"}
Goroutines == Conns \cup Background

TypeOK ==
  /\ send \in [Conns -> Seq(Msgs)]
  /\ \A c \in Conns : Len(send[c]) <= SendCap
  /\ sendClosed \in [Conns -> BOOLEAN]
  /\ done \in [Conns -> BOOLEAN]
  /\ reader \in [Conns -> ReaderState]
  /\ writer \in [Conns -> WriterState]
  /\ closers \in [Conns -> Nat]
  /\ process \in {"running", "crashed", "exited"}

Init ==
  /\ send = [c \in Conns |-> <<>>]
  /\ sendClosed = [c \in Conns |-> FALSE]
  /\ done = [c \in Conns |-> FALSE]
  /\ reader = [c \in Conns |-> "idle"]
  /\ writer = [c \in Conns |-> "idle"]
  /\ closers = [c \in Conns |-> 0]
  /\ process = "running"

-----------------------------------------------------------------------------
(* Panics.                                                                 *)

Panic(g) ==
  IF g \in Conns
  THEN /\ reader' = [reader EXCEPT ![g] = "panicked"]
       /\ UNCHANGED process
  ELSE /\ process' = "crashed"
       /\ UNCHANGED reader

-----------------------------------------------------------------------------
(* The methods, called by goroutine g.                                     *)

\* Mutant of HasRoom: the buffer takes one message more than it holds.
HasRoomOffByOne(c) == Len(send[c]) <= SendCap
HasRoom(c) == Len(send[c]) < SendCap

\* The message fits into the buffer.
Enqueue(c, m) ==
  /\ ~sendClosed[c]
  /\ HasRoom(c)
  /\ writer[c] = "running" \/ SlowPeers
  /\ send' = [send EXCEPT ![c] = Append(@, m)]
  /\ UNCHANGED <<closers, reader, process>>

\* Mutant of Overflow: the message is dropped and nothing is started.
OverflowSilently(c) ==
  /\ ~sendClosed[c]
  /\ ~HasRoom(c)
  /\ SlowPeers
  /\ UNCHANGED <<send, closers, reader, process>>
\* The buffer is full: the message is dropped and the caller, which is told
\* nothing, leaves a goroutine behind that will close the connection.
Overflow(c) ==
  /\ ~sendClosed[c]
  /\ ~HasRoom(c)
  /\ SlowPeers
  /\ closers[c] < MaxClosers
  /\ closers' = [closers EXCEPT ![c] = @ + 1]
  /\ UNCHANGED <<send, reader, process>>

\* Peers that are not slow leave room in c.Send until the read goroutine has
\* noticed that nobody writes any more; what is queued then is never read.
Discard(c) ==
  /\ ~sendClosed[c]
  /\ ~SlowPeers
  /\ writer[c] = "exited"
  /\ UNCHANGED <<send, closers, reader, process>>

\* A closed channel panics even inside a select that has a default.
SendPanics(g, c) ==
  /\ sendClosed[c]
  /\ Panic(g)
  /\ UNCHANGED <<send, closers>>

WriteProto(g, c, m) ==
  /\ Enqueue(c, m) \/ Overflow(c) \/ Discard(c) \/ SendPanics(g, c)
  /\ UNCHANGED <<sendClosed, done, writer>>

\* Close returns at once when done is closed.  Otherwise it closes c.Send,
\* which panics when that has happened before.
ClosePanics(c) == ~done[c] /\ sendClosed[c]
ClosedBy(S) == [c \in Conns |-> sendClosed[c] \/ (c \in S /\ ~done[c])]

Close(g, c) ==
  /\ IF ClosePanics(c)
     THEN Panic(g) /\ UNCHANGED sendClosed
     ELSE sendClosed' = ClosedBy({c}) /\ UNCHANGED <<reader, process>>
  /\ UNCHANGED <<send, done, writer>>

SpawnedClose(c) ==
  /\ closers[c] > 0
  /\ closers' = [closers EXCEPT ![c] = @ - 1]
  /\ \E g \in Background : Close(g, c)

-----------------------------------------------------------------------------
(* The read goroutine.                                                     *)

\* NewConn, "go c.WriteLoop()" and the call of ReadLoop.
Start(c) ==
  /\ reader[c] = "idle"
  /\ reader' = [reader EXCEPT ![c] = "reading"]
  /\ writer' = [writer EXCEPT ![c] = "running"]
  /\ UNCHANGED <<send, sendClosed, done, closers, process>>

\* Frames that were received before c.WS is closed can still be read after.
ReadMessage(c) ==
  /\ reader[c] = "reading"
  /\ reader' = [reader EXCEPT ![c] = "handling"]
  /\ UNCHANGED <<send, sendClosed, done, writer, closers, process>>

HandlerReturns(c) ==
  /\ reader[c] = "handling"
  /\ reader' = [reader EXCEPT ![c] = "reading"]
  /\ UNCHANGED <<send, sendClosed, done, writer, closers, process>>

\* The peer went away, the pong deadline passed, or WriteLoop closed c.WS.
ReadFails(c) ==
  /\ reader[c] = "reading"
  /\ reader' = [reader EXCEPT ![c] = "left"]
  /\ done' = [done EXCEPT ![c] = TRUE]
  /\ UNCHANGED <<send, sendClosed, writer, closers, process>>

-----------------------------------------------------------------------------
(* The write goroutine.  select picks any branch that is ready; every      *)
(* return closes c.WS, so c.WS is open exactly while it runs.               *)

\* Mutant of WriteMessage: the message stays in the buffer.
WriteAgain(c) ==
  /\ writer[c] = "running"
  /\ send[c] # <<>>
  /\ UNCHANGED <<send, sendClosed, done, reader, writer, closers, process>>
WriteMessage(c) ==
  /\ writer[c] = "running"
  /\ send[c] # <<>>
  /\ send' = [send EXCEPT ![c] = Tail(@)]
  /\ UNCHANGED <<sendClosed, done, reader, writer, closers, process>>

WriterExits(c) ==
  /\ writer[c] = "running"
  /\ writer' = [writer EXCEPT ![c] = "exited"]
  /\ UNCHANGED <<sendClosed, done, reader, closers, process>>

\* A message was taken from c.Send and could not be written in writeWait.
WriteMessageFails(c) ==
  /\ send[c] # <<>>
  /\ send' = [send EXCEPT ![c] = Tail(@)]
  /\ WriterExits(c)

PingFails(c) == WriterExits(c) /\ UNCHANGED send

\* A closed channel is drained before the receive reports that it is closed.
\* Mutants of SendDrained: the end of the channel is not noticed, or it is
\* noticed before the messages that are still buffered.
NeverDrained(c) == FALSE
DrainedTooSoon(c) == sendClosed[c]
SendDrained(c) == sendClosed[c] /\ send[c] = <<>>

WriteCloseFrame(c) ==
  /\ SendDrained(c)
  /\ WriterExits(c)
  /\ UNCHANGED send

WriterSeesDone(c) ==
  /\ done[c]
  /\ WriterExits(c)
  /\ UNCHANGED send

WriteLoop(c) == WriteMessage(c) \/ WriteCloseFrame(c) \/ WriterSeesDone(c)

-----------------------------------------------------------------------------
(* Arbitrary callers: any background goroutine, and any connection's own    *)
(* goroutine while it runs a handler or cleans up.                         *)

MayCall(g) == g \in Conns => reader[g] \in {"handling", "left"}

CallWriteProto(g, c, m) ==
  /\ MayCall(g)
  /\ reader[c] # "idle"
  /\ WriteProto(g, c, m)

CallClose(g, c) ==
  /\ MayCall(g)
  /\ reader[c] # "idle"
  /\ Close(g, c)
  /\ UNCHANGED closers

\* Any other panic of a background goroutine, or the end of main.
ProcessEnds ==
  /\ process' \in {"crashed", "exited"}
  /\ UNCHANGED <<send, sendClosed, done, reader, writer, closers>>

ConnStep(c) ==
  \/ Start(c) \/ ReadMessage(c) \/ HandlerReturns(c) \/ ReadFails(c)
  \/ WriteLoop(c) \/ WriteMessageFails(c) \/ PingFails(c)
  \/ SpawnedClose(c)

Next ==
  /\ process = "running"
  /\ \/ \E c \in Conns : ConnStep(c)
     \/ \E g \in Goroutines, c \in Conns, m \in Msgs : CallWriteProto(g, c, m)
     \/ \E g \in Goroutines, c \in Conns : CallClose(g, c)
     \/ ProcessEnds

Spec == Init /\ [][Next]_connVars
=============================================================================
