------------------------------ MODULE Friendship -----------------------------
(***************************************************************************)
(* The two rows of a friendship.  A friendship is a row in each direction,  *)
(* and the handlers of Friends write them in two statements.  A history     *)
(* variable notes the pairs of users about whom two handlers have run at    *)
(* once, so that what remains is what one handler leaves behind.            *)
(***************************************************************************)
EXTENDS Friends

\* The friendships at the beginning are mutual, and of two users who are not
\* friends one has a row at most.
ASSUME MutualAssumption ==
  \A u, v \in Users :
    IF "accepted" \in {Stored[<<u, v>>], Stored[<<v, u>>]}
      THEN Stored[<<u, v>>] = Stored[<<v, u>>]
      ELSE "none" \in {Stored[<<u, v>>], Stored[<<v, u>>]}

VARIABLE overlapped

Between(u, v) == {<<u, v>>, <<v, u>>}
About(u, v, s) == pc[s] # "idle" /\ {Owner[s], peer[s]} = {u, v}
\* Handler s is about u and v and waits while another one changes their rows.
LooksAway(u, v, s) ==
  /\ About(u, v, s) /\ pc'[s] = pc[s] /\ peer'[s] = peer[s]
  /\ \E p \in Between(u, v) : friends'[p] # friends[p]

ObservedInit == Init /\ overlapped = {}
ObservedNext ==
  /\ Next
  /\ overlapped' = overlapped \cup {p \in Pairs : \E s \in Sessions : LooksAway(p[1], p[2], s)}
ObservedSpec == ObservedInit /\ [][ObservedNext]_<<vars, overlapped>>

\* Project.md:342-343: accepting and deleting deal with both directions of a
\* friendship, in two statements.  A friendship of one direction only is left by
\* a fault, or by two handlers about the same two users of which one has changed
\* a row while the other was under way: a second request (chat.go:203), or a
\* deletion between the two statements.
MutualFriends ==
  \A u, v \in Users :
    (friends[<<u, v>>] = "accepted" /\ friends[<<v, u>>] # "accepted") =>
      \/ faults > 0
      \/ <<u, v>> \in overlapped
      \/ \E s \in Sessions : About(u, v, s)

=============================================================================
