------------------------------- MODULE Friends -------------------------------
(***************************************************************************)
(* internal/service/chat.go: friendships, the blacklist and the admission   *)
(* of private messages, as rows of the database that the handlers of many   *)
(* connections read and write at once.  There are no transactions: every    *)
(* statement is one step, and between two statements of a handler any other *)
(* handler may run, a statement may fail, or the process may end.           *)
(*                                                                         *)
(* A session is a connection that is logged in.  It runs one handler after  *)
(* the other; a user has more than one session while handlers of a replaced *)
(* connection are still running.                                           *)
(***************************************************************************)
EXTENDS Naturals, FiniteSets

CONSTANTS
  Users,        \* accounts
  Sessions,     \* logged-in connections
  Owner,        \* the user of every session
  MaxFriends,   \* model.MaxFriends
  Known,        \* who may deal with whom
  Chats,        \* who may send messages to whom
  Stored,       \* the rows there are at the beginning
  MaxFaults     \* bound on failing statements and restarts

Pairs == Users \X Users
RowStatus == {"none", "pending", "accepted", "rejected"}
SessionsOf(u) == {s \in Sessions : Owner[s] = u}

ASSUME FriendsAssumption ==
  /\ IsFiniteSet(Users) /\ IsFiniteSet(Sessions)
  /\ Owner \in [Sessions -> Users]
  /\ MaxFriends \in Nat \ {0}
  /\ Known \subseteq Pairs
  /\ Chats \subseteq Known
  /\ Stored \in [Pairs -> RowStatus]
  /\ \A u \in Users :
       /\ Stored[<<u, u>>] = "none"
       /\ Cardinality({v \in Users : Stored[<<u, v>>] = "accepted"})
            < MaxFriends + Cardinality(SessionsOf(u))
  /\ MaxFaults \in Nat

MaxNonFriendMessages == 1

VARIABLES
  friends,      \* status of the row (qq, friend_qq), "none" if there is none
  msgCount,     \* count of the row (from_qq, to_qq), 0 if there is none
  blocked,      \* rows (qq, blocked_qq)
  pc,           \* the statement a session executes next
  peer,         \* the user its handler is about
  admitted,     \* history: messages to a stranger since the count was cleared
  faults        \* failing statements and restarts so far

vars == <<friends, msgCount, blocked, pc, peer, admitted, faults>>

Statement == {"idle", "existing", "create", "self", "target", "revert", "reverse",
              "clear", "clearBack", "delete", "isFriend", "count", "write"}

\* Nobody has a row with himself, or is on the way to one.
FriendsTypeOK ==
  /\ friends \in [Pairs -> RowStatus]
  /\ \A u \in Users : friends[<<u, u>>] = "none"
  /\ msgCount \in [Pairs -> 0..MaxNonFriendMessages]
  /\ blocked \subseteq Pairs
  /\ pc \in [Sessions -> Statement]
  /\ peer \in [Sessions -> Users]
  /\ \A s \in Sessions :
       pc[s] \in {"existing", "create", "self", "target", "revert", "reverse"}
         => peer[s] # Owner[s]
  /\ admitted \in [Pairs -> Nat]
  /\ faults \in 0..MaxFaults

Init ==
  /\ friends = Stored
  /\ msgCount = [p \in Pairs |-> 0]
  /\ blocked = {}
  /\ pc = [s \in Sessions |-> "idle"]
  /\ peer = Owner
  /\ admitted = [p \in Pairs |-> 0]
  /\ faults = 0

FriendsOf(u) == {v \in Users : friends[<<u, v>>] = "accepted"}

\* Session s goes on with statement l of a handler about u, or, idle, waits for
\* the next message.
Goto(s, u, l) ==
  /\ pc' = [pc EXCEPT ![s] = l]
  /\ peer' = [peer EXCEPT ![s] = IF l = "idle" THEN Owner[s] ELSE u]

\* A handler of session s that is about u begins, and goes on with l.
Begin(s, u, l) ==
  /\ pc[s] = "idle"
  /\ <<Owner[s], u>> \in Known
  /\ Goto(s, u, l)
  /\ UNCHANGED faults

\* Session s executes statement l and goes on with next.
Step(s, l, next) ==
  /\ pc[s] = l
  /\ Goto(s, peer[s], next)
  /\ UNCHANGED faults

-----------------------------------------------------------------------------
(* SendFriendRequest.  A request beyond the limit is refused at once.      *)

\* Mutant of MayAsk: "cannot add yourself" is not tested.
MayAskAnybody(u, v) == TRUE
MayAsk(u, v) == u # v

RequestFriend(s, v) ==
  /\ MayAsk(Owner[s], v)
  /\ Cardinality(FriendsOf(Owner[s])) < MaxFriends
  /\ Begin(s, v, "existing")
  /\ UNCHANGED <<friends, msgCount, blocked, admitted>>

\* Any row between the two users, in whatever status, refuses the request.
FindExisting(s) ==
  LET me == Owner[s] v == peer[s] IN
  /\ Step(s, "existing", IF friends[<<me, v>>] = "none" /\ friends[<<v, me>>] = "none" THEN "create" ELSE "idle")
  /\ UNCHANGED <<friends, msgCount, blocked, admitted>>

\* idx_qq_friend is unique: the insertion fails if the row is there.
Insert(p, status) ==
  friends' = IF friends[p] = "none" THEN [friends EXCEPT ![p] = status] ELSE friends

CreateRequest(s) ==
  /\ Step(s, "create", "idle")
  /\ Insert(<<Owner[s], peer[s]>>, "pending")
  /\ UNCHANGED <<msgCount, blocked, admitted>>

-----------------------------------------------------------------------------
(* AcceptFriend: the request is accepted first and the limits are looked at *)
(* afterwards, one after the other.                                        *)

AcceptFriend(s, u) ==
  LET row == <<u, Owner[s]>> IN
  /\ friends[row] = "pending"
  /\ Begin(s, u, "self")
  /\ friends' = [friends EXCEPT ![row] = "accepted"]
  /\ UNCHANGED <<msgCount, blocked, admitted>>

\* Mutant of BelowLimit: a friend more than the limit.
BelowLimitOffByOne(u) == Cardinality(FriendsOf(u)) <= MaxFriends
BelowLimit(u) == Cardinality(FriendsOf(u)) < MaxFriends

CountSelf(s) ==
  /\ Step(s, "self", IF BelowLimit(Owner[s]) THEN "target" ELSE "revert")
  /\ UNCHANGED <<friends, msgCount, blocked, admitted>>

CountTarget(s) ==
  /\ Step(s, "target", IF BelowLimit(peer[s]) THEN "reverse" ELSE "revert")
  /\ UNCHANGED <<friends, msgCount, blocked, admitted>>

\* The row is set back, whatever has become of it.
Revert(s) ==
  LET row == <<peer[s], Owner[s]>> IN
  /\ Step(s, "revert", "idle")
  /\ friends' = IF friends[row] = "none" THEN friends ELSE [friends EXCEPT ![row] = "pending"]
  /\ UNCHANGED <<msgCount, blocked, admitted>>

\* Mutant of CreateReverse: the row of the request is created once more.
CreateSameAgain(s) ==
  /\ Step(s, "reverse", "clear")
  /\ Insert(<<peer[s], Owner[s]>>, "accepted")
  /\ UNCHANGED <<msgCount, blocked, admitted>>
CreateReverse(s) ==
  /\ Step(s, "reverse", "clear")
  /\ Insert(<<Owner[s], peer[s]>>, "accepted")
  /\ UNCHANGED <<msgCount, blocked, admitted>>

\* ClearMessageCounts: one direction, then the other.
ClearRow(p) ==
  /\ msgCount' = [msgCount EXCEPT ![p] = 0]
  /\ admitted' = [admitted EXCEPT ![p] = 0]

ClearCount(s) ==
  /\ Step(s, "clear", "clearBack")
  /\ ClearRow(<<Owner[s], peer[s]>>)
  /\ UNCHANGED <<friends, blocked>>

ClearCountBack(s) ==
  /\ Step(s, "clearBack", "idle")
  /\ ClearRow(<<peer[s], Owner[s]>>)
  /\ UNCHANGED <<friends, blocked>>

-----------------------------------------------------------------------------
(* RejectFriend and DeleteFriend.                                          *)

RejectFriend(s, u) ==
  LET row == <<u, Owner[s]>> IN
  /\ friends[row] = "pending"
  /\ Begin(s, u, "idle")
  /\ friends' = [friends EXCEPT ![row] = "rejected"]
  /\ UNCHANGED <<msgCount, blocked, admitted>>

DeleteAccepted(p) ==
  friends' = IF friends[p] = "accepted" THEN [friends EXCEPT ![p] = "none"] ELSE friends

DeleteFriend(s, v) ==
  /\ Begin(s, v, "delete")
  /\ DeleteAccepted(<<Owner[s], v>>)
  /\ UNCHANGED <<msgCount, blocked, admitted>>

DeleteBack(s) ==
  /\ Step(s, "delete", "idle")
  /\ DeleteAccepted(<<peer[s], Owner[s]>>)
  /\ UNCHANGED <<msgCount, blocked, admitted>>

-----------------------------------------------------------------------------
(* Admission of a private message, by handleChatMessage and                 *)
(* handleFileMessage: IsBlocked, then CheckAndIncrementNonFriendMessage.    *)

SendMessage(s, v) ==
  /\ <<Owner[s], v>> \in Chats
  /\ <<v, Owner[s]>> \notin blocked
  /\ Begin(s, v, "isFriend")
  /\ UNCHANGED <<friends, msgCount, blocked, admitted>>

IsFriend(s) ==
  /\ Step(s, "isFriend", IF friends[<<Owner[s], peer[s]>>] = "accepted" THEN "idle" ELSE "count")
  /\ UNCHANGED <<friends, msgCount, blocked, admitted>>

\* Mutant of MayWrite: the count that was read is not looked at.
MayWriteAlways(p) == msgCount[p] >= 0
MayWrite(p) == msgCount[p] < MaxNonFriendMessages

\* The row, if there is one, has reached the limit, which is 1.
ReadCount(s) ==
  /\ Step(s, "count", IF MayWrite(<<Owner[s], peer[s]>>) THEN "write" ELSE "idle")
  /\ UNCHANGED <<friends, msgCount, blocked, admitted>>

\* idx_from_to is unique, and the error of Create is ignored: the message is
\* admitted whether or not the row is new.
WriteCount(s) ==
  LET row == <<Owner[s], peer[s]>> IN
  /\ Step(s, "write", "idle")
  /\ msgCount' = [msgCount EXCEPT ![row] = 1]
  /\ admitted' = [admitted EXCEPT ![row] = @ + 1]
  /\ UNCHANGED <<friends, blocked>>

\* BlockUser and UnblockUser; idx_qq_blocked is unique.
BlockUser(s, v) ==
  /\ <<v, Owner[s]>> \in Chats
  /\ v # Owner[s]
  /\ Begin(s, v, "idle")
  /\ blocked' = blocked \cup {<<Owner[s], v>>}
  /\ UNCHANGED <<friends, msgCount, admitted>>

UnblockUser(s, v) ==
  /\ <<v, Owner[s]>> \in Chats
  /\ Begin(s, v, "idle")
  /\ blocked' = blocked \ {<<Owner[s], v>>}
  /\ UNCHANGED <<friends, msgCount, admitted>>
-----------------------------------------------------------------------------
(* Faults.                                                                 *)

FaultHappens ==
  /\ faults < MaxFaults
  /\ faults' = faults + 1

\* Where a handler goes on after a statement that failed.  Most errors are
\* ignored: a count that fails is 0, a row that was not found does not exist,
\* a row that could not be written is taken to be written.
AfterFailure ==
  [idle |-> "idle", existing |-> "create", create |-> "idle", self |-> "target",
   target |-> "reverse", revert |-> "idle", reverse |-> "clear", clear |-> "clearBack",
   clearBack |-> "idle", delete |-> "idle", isFriend |-> "count", count |-> "idle",
   write |-> "idle"]

StatementFails(s) ==
  /\ FaultHappens
  /\ pc[s] # "idle"
  /\ Goto(s, peer[s], AfterFailure[pc[s]])
  /\ admitted' = IF pc[s] = "write" THEN [admitted EXCEPT ![<<Owner[s], peer[s]>>] = @ + 1]
                                    ELSE admitted
  /\ UNCHANGED <<friends, msgCount, blocked>>

\* So does a handler whose first statement failed, where that is a count or a
\* deletion.
FirstStatementFails(s, v) ==
  /\ FaultHappens
  /\ pc[s] = "idle"
  /\ <<Owner[s], v>> \in Known
  /\ \/ MayAsk(Owner[s], v) /\ Goto(s, v, "existing")
     \/ Goto(s, v, "delete")
     \/ <<Owner[s], v>> \in Chats /\ Goto(s, v, "isFriend")
  /\ UNCHANGED <<friends, msgCount, blocked, admitted>>

\* The process ends and is started again: the rows are all that is left.
Restart ==
  /\ FaultHappens
  /\ pc' = [s \in Sessions |-> "idle"]
  /\ peer' = Owner
  /\ UNCHANGED <<friends, msgCount, blocked, admitted>>

-----------------------------------------------------------------------------
Handle(s) ==
  \/ FindExisting(s) \/ CreateRequest(s)
  \/ CountSelf(s) \/ CountTarget(s) \/ Revert(s) \/ CreateReverse(s)
  \/ ClearCount(s) \/ ClearCountBack(s) \/ DeleteBack(s)
  \/ IsFriend(s) \/ ReadCount(s) \/ WriteCount(s)

Receive(s, v) ==
  \/ RequestFriend(s, v) \/ AcceptFriend(s, v) \/ RejectFriend(s, v) \/ DeleteFriend(s, v)
  \/ SendMessage(s, v) \/ BlockUser(s, v) \/ UnblockUser(s, v)

Next ==
  \/ \E s \in Sessions : Handle(s) \/ StatementFails(s)
  \/ \E s \in Sessions, v \in Users : Receive(s, v) \/ FirstStatementFails(s, v)
  \/ Restart

Spec == Init /\ [][Next]_vars

-----------------------------------------------------------------------------
(* Properties.                                                             *)

\* The row of u was accepted by v, who has not yet compared it with the limit.
Provisional(u, v) ==
  \E s \in SessionsOf(v) : peer[s] = u /\ pc[s] \in {"self", "target", "revert"}

Confirmed(u) == {v \in FriendsOf(u) : ~Provisional(u, v)}

\* Project.md:339, neither side exceeds the limit: although AcceptFriend of
\* both sides writes and counts in turns, a user whose handlers run one after
\* the other has at most MaxFriends friends, rows that are about to be set
\* back aside.  Every further handler that runs at once may add one, and a
\* fault one for every handler that it strikes.
FriendLimit ==
  \A u \in Users :
    Cardinality(Confirmed(u)) <
      MaxFriends + Cardinality(SessionsOf(u)) + faults * Cardinality(Sessions)

\* REQUIREMENTS.md:93, one message to somebody who is not a friend: between
\* two clearings of the count, a user whose handlers run one after the other
\* gets one message through, although CheckAndIncrementNonFriendMessage reads
\* the count before it writes it and acceptances clear it in between.  Every
\* further handler that runs at once, and every fault, may add one.
QuotaKept ==
  \A p \in Pairs :
    admitted[p] < MaxNonFriendMessages + Cardinality(SessionsOf(p[1])) + faults
=============================================================================
