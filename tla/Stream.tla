-------------------------------- MODULE Stream ------------------------------
(***************************************************************************)
(* What a connection promises about the messages that are sent on it: those *)
(* that were accepted reach the peer in their order, each at most once.     *)
(* After the connection was closed nothing more is accepted, and a peer     *)
(* that receives the close frame has received every message.  A stream that *)
(* is cut (the network failed, or the peer left) may accept messages that   *)
(* nobody will receive.                                                     *)
(***************************************************************************)
EXTENDS Naturals, Sequences

CONSTANTS
  Streams,
  Payloads

VARIABLES
  accepted,     \* the messages accepted, in the order of the senders
  wire,         \* the messages written to the peer
  sealed,       \* closed for senders
  end           \* how the stream ended: "up", "flushed" or "cut"

vars == <<accepted, wire, sealed, end>>

Init ==
  /\ accepted = [s \in Streams |-> <<>>]
  /\ wire = [s \in Streams |-> <<>>]
  /\ sealed = [s \in Streams |-> FALSE]
  /\ end = [s \in Streams |-> "up"]

Accept(s, m) ==
  /\ ~sealed[s]
  /\ accepted' = [accepted EXCEPT ![s] = Append(@, m)]
  /\ UNCHANGED <<wire, sealed, end>>

Write(s) ==
  /\ end[s] = "up"
  /\ Len(wire[s]) < Len(accepted[s])
  /\ wire' = [wire EXCEPT ![s] = Append(@, accepted[s][Len(@) + 1])]
  /\ UNCHANGED <<accepted, sealed, end>>

Seal(s) ==
  /\ sealed' = [sealed EXCEPT ![s] = TRUE]
  /\ UNCHANGED <<accepted, wire, end>>

Flush(s) ==
  /\ end[s] = "up" /\ sealed[s]
  /\ wire[s] = accepted[s]
  /\ end' = [end EXCEPT ![s] = "flushed"]
  /\ UNCHANGED <<accepted, wire, sealed>>

Cut(s) ==
  /\ end[s] = "up"
  /\ end' = [end EXCEPT ![s] = "cut"]
  /\ UNCHANGED <<accepted, wire, sealed>>

Step(s) ==
  \/ \E m \in Payloads : Accept(s, m)
  \/ Write(s) \/ Seal(s) \/ Flush(s) \/ Cut(s)

Next == \E s \in Streams : Step(s)

Spec == Init /\ [][Next]_vars
=============================================================================
