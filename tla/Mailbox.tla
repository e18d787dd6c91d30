------------------------------- MODULE Mailbox ------------------------------
(***************************************************************************)
(* What the server promises about the messages to one user: a message is    *)
(* stored before the user can see it, may be shown more than once, and is   *)
(* marked as delivered, and later as read, only after it was shown.         *)
(***************************************************************************)
CONSTANT Items

VARIABLES stored, seen, confirmed, receipted

vars == <<stored, seen, confirmed, receipted>>

Init == stored = {} /\ seen = {} /\ confirmed = {} /\ receipted = {}

Deposit(m) ==
  /\ m \notin stored
  /\ stored' = stored \cup {m}
  /\ UNCHANGED <<seen, confirmed, receipted>>

Show(m) ==
  /\ m \in stored
  /\ seen' = seen \cup {m}
  /\ UNCHANGED <<stored, confirmed, receipted>>

Confirm(m) ==
  /\ m \in seen
  /\ confirmed' = confirmed \cup {m}
  /\ UNCHANGED <<stored, seen, receipted>>

Receipt(m) ==
  /\ m \in confirmed
  /\ receipted' = receipted \cup {m}
  /\ UNCHANGED <<stored, seen, confirmed>>

Next == \E m \in Items : Deposit(m) \/ Show(m) \/ Confirm(m) \/ Receipt(m)

Spec == Init /\ [][Next]_vars
=============================================================================
