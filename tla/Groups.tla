-------------------------------- MODULE Groups --------------------------------
(***************************************************************************)
(* internal/service/chat.go: the members of one group, as rows of           *)
(* group_members, and the number of members that the row of the group       *)
(* caches and the capacity is tested on.  As in Friends, every statement is  *)
(* one step, and handlers of other sessions run in between.                 *)
(*                                                                         *)
(* Groups do not interact, so there is one.  Its id is the time in           *)
(* nanoseconds, which nobody knows before the response to its founder.      *)
(***************************************************************************)
EXTENDS Naturals, FiniteSets

CONSTANTS
  Users,        \* accounts
  Sessions,     \* logged-in connections
  UserOf,       \* the user of every session
  Founder,      \* the session that creates the group
  MaxMembers,   \* groups.max_members
  MaxHandlers,  \* bound on the joins and leaves that begin
  MaxFaults     \* bound on failing statements and restarts

SessionsOf(u) == {s \in Sessions : UserOf[s] = u}
OwnerQQ == UserOf[Founder]

ASSUME GroupsAssumption ==
  /\ IsFiniteSet(Users) /\ IsFiniteSet(Sessions)
  /\ UserOf \in [Sessions -> Users]
  /\ Founder \in Sessions
  /\ MaxMembers \in Nat \ {0}
  /\ MaxHandlers \in Nat
  /\ MaxFaults \in Nat

VARIABLES
  group,        \* "none"; "created", the row is there; "known", to others too
  rows,         \* number of rows of every user in group_members
  memberCnt,    \* groups.member_cnt
  pc,           \* the statement a session executes next
  seen,         \* member_cnt as a join has read it
  begun,        \* joins and leaves so far
  overlaps,     \* history: statements that met another handler under way
  faults        \* failing statements and restarts so far

vars == <<group, rows, memberCnt, pc, seen, begun, overlaps, faults>>

Statement == {"idle", "createOwner", "existing", "create", "joinCount", "leaveCount"}

GroupsTypeOK ==
  /\ group \in {"none", "created", "known"}
  /\ rows \in [Users -> Nat]
  /\ memberCnt \in Nat
  /\ pc \in [Sessions -> Statement]
  /\ seen \in [Sessions -> Nat]
  /\ begun \in 0..MaxHandlers
  /\ overlaps \in Nat
  /\ faults \in 0..MaxFaults

Init ==
  /\ group = "none"
  /\ rows = [u \in Users |-> 0]
  /\ memberCnt = 0
  /\ pc = [s \in Sessions |-> "idle"]
  /\ seen = [s \in Sessions |-> 0]
  /\ begun = 0
  /\ overlaps = 0
  /\ faults = 0

-----------------------------------------------------------------------------
\* The handlers of other sessions that are under way.
Others(s) == {t \in Sessions \ {s} : pc[t] # "idle"}

Goto(s, l) == pc' = [pc EXCEPT ![s] = l]

Begin(s, l) ==
  /\ group = "known"
  /\ pc[s] = "idle"
  /\ begun < MaxHandlers
  /\ begun' = begun + 1
  /\ Goto(s, l)
  /\ UNCHANGED <<group, faults>>

\* Session s executes statement l, and goes on with next.
Step(s, l, next) ==
  /\ pc[s] = l
  /\ Goto(s, next)
  /\ UNCHANGED <<begun, faults>>

\* A statement that writes may overtake what another handler has read.
Writes(s) == overlaps' = overlaps + Cardinality(Others(s))

-----------------------------------------------------------------------------
(* CreateGroup: the row of the group counts its owner, whose own row is     *)
(* created by a second statement, the error of which is ignored.            *)

CreateGroup ==
  /\ group = "none"
  /\ group' = "created"
  /\ memberCnt' = 1
  /\ pc[Founder] = "idle"
  /\ Goto(Founder, "createOwner")
  /\ UNCHANGED <<rows, seen, begun, overlaps, faults>>

CreateOwner ==
  /\ Step(Founder, "createOwner", "idle")
  /\ group' = "known"
  /\ rows' = [rows EXCEPT ![OwnerQQ] = @ + 1]
  /\ UNCHANGED <<memberCnt, seen, overlaps>>

-----------------------------------------------------------------------------
(* JoinGroup: the count that is read first decides on the capacity, and is  *)
(* written back, plus one, at the end.                                     *)

JoinGroup(s) ==
  /\ Begin(s, "existing")
  /\ seen' = [seen EXCEPT ![s] = memberCnt]
  /\ UNCHANGED <<rows, memberCnt, overlaps>>

\* Mutant of HasPlace: one more member than there is place.
HasPlaceOffByOne(s) == seen[s] <= MaxMembers
HasPlace(s) == seen[s] < MaxMembers

\* Mutant of IsMember: the row of a member is not found.
IsNeverMember(u) == FALSE
IsMember(u) == rows[u] > 0

FindMember(s) ==
  /\ Step(s, "existing", IF ~IsMember(UserOf[s]) /\ HasPlace(s) THEN "create" ELSE "idle")
  /\ UNCHANGED <<group, rows, memberCnt, seen, overlaps>>

\* group_members has no unique index: a second row of a member is possible.
CreateMember(s) ==
  /\ Step(s, "create", "joinCount")
  /\ rows' = [rows EXCEPT ![UserOf[s]] = @ + 1]
  /\ Writes(s)
  /\ UNCHANGED <<group, memberCnt, seen>>

\* Mutant of Joined: the count stays as it was read.
JoinedUncounted(n) == n
Joined(n) == n + 1

WriteCount(s) ==
  /\ Step(s, "joinCount", "idle")
  /\ memberCnt' = Joined(seen[s])
  /\ Writes(s)
  /\ UNCHANGED <<group, rows, seen>>

-----------------------------------------------------------------------------
(* LeaveGroup.  The owner cannot leave; all rows of the user are deleted,   *)
(* and the count is decremented in place, MAX(member_cnt - 1, 0).           *)

\* Mutant of MayLeave: the owner is not tested.
AnybodyMayLeave(u) == TRUE
MayLeave(u) == u # OwnerQQ

LeaveGroup(s) ==
  LET u == UserOf[s] IN
  /\ MayLeave(u)
  /\ rows[u] > 0
  /\ Begin(s, "leaveCount")
  /\ rows' = [rows EXCEPT ![u] = 0]
  /\ Writes(s)
  /\ UNCHANGED <<memberCnt, seen>>

\* Mutant of Left: not bounded from below.
LeftBelowZero(n) == n - 1
Left(n) == IF n > 0 THEN n - 1 ELSE 0

CountDown(s) ==
  /\ Step(s, "leaveCount", "idle")
  /\ memberCnt' = Left(memberCnt)
  /\ Writes(s)
  /\ UNCHANGED <<group, rows, seen>>

-----------------------------------------------------------------------------
(* Faults.                                                                 *)

FaultHappens ==
  /\ faults < MaxFaults
  /\ faults' = faults + 1

\* A count or an owner that could not be written is taken to be written, a
\* member that could not be looked up is taken to be new; only the failing
\* insertion of a member refuses the join.
StatementFails(s) ==
  /\ FaultHappens
  /\ pc[s] # "idle"
  /\ Goto(s, IF pc[s] = "existing" /\ HasPlace(s) THEN "create" ELSE "idle")
  /\ group' = IF pc[s] = "createOwner" THEN "known" ELSE group
  /\ UNCHANGED <<rows, memberCnt, seen, begun, overlaps>>

\* The process ends and is started again.  Nobody has learnt the id of a group
\* whose creation did not come to its end.
Restart ==
  /\ FaultHappens
  /\ pc' = [s \in Sessions |-> "idle"]
  /\ UNCHANGED <<group, rows, memberCnt, seen, begun, overlaps>>

-----------------------------------------------------------------------------
Next ==
  \/ CreateGroup \/ CreateOwner \/ Restart
  \/ \E s \in Sessions :
       \/ JoinGroup(s) \/ FindMember(s) \/ CreateMember(s) \/ WriteCount(s)
       \/ LeaveGroup(s) \/ CountDown(s) \/ StatementFails(s)

Spec == Init /\ [][Next]_vars

-----------------------------------------------------------------------------
(* Properties.                                                             *)

\* The rows of group_members, those of one user numbered.
RowSet == UNION {{u} \X (1..rows[u]) : u \in Users}
NumberOfRows == Cardinality(RowSet)
Quiet == \A s \in Sessions : pc[s] = "idle"

\* Project.md:449, the owner does not leave: whoever joins and leaves at once,
\* the group keeps its owner as a member, unless his row could not be created.
OwnerRemains == (group = "known" /\ faults = 0) => rows[OwnerQQ] > 0

\* Nothing but JoinGroup's own lookup keeps a user from a second row, with
\* which he would get every message of the group twice: a user whose handlers
\* run one after the other has one row.  Every further handler that runs at
\* once, and every fault, may add one.
OneRowEach == \A u \in Users : rows[u] <= Cardinality(SessionsOf(u)) + faults

\* The count that is cached, listed and tested by JoinGroup: when no handler is
\* under way it is the number of rows, if no two handlers ever overlapped, and
\* otherwise is off by one at most for each write that met another handler.
CountAgrees ==
  Quiet =>
    /\ NumberOfRows <= memberCnt + overlaps + faults
    /\ memberCnt <= NumberOfRows + overlaps + faults

\* JoinGroup refuses a group that is full, on a count that it read earlier: at
\* no time the capacity is exceeded but by joins that overlap with another
\* handler, and by one for each write of theirs at most.
CapacityKept == NumberOfRows <= MaxMembers + overlaps + faults
=============================================================================
