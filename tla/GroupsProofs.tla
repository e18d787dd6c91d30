----------------------------- MODULE GroupsProofs -----------------------------
(***************************************************************************)
(* Theorems about Groups.tla, for every set of users and sessions, every    *)
(* capacity and any number of handlers and faults.                          *)
(***************************************************************************)
EXTENDS Groups, Integers, FiniteSetTheorems, TLAPS

-----------------------------------------------------------------------------
(* The types.                                                              *)

\* Sets of sessions are finite, and can be counted.
LEMMA SessionCounts ==
  ASSUME NEW S \in SUBSET Sessions
  PROVE  IsFiniteSet(S) /\ Cardinality(S) \in Nat
BY FS_Subset, FS_CardinalityType, GroupsAssumption

\* A statement of CreateGroup, JoinGroup and LeaveGroup keeps the types.
LEMMA TypeStep == GroupsTypeOK /\ [Next]_vars => GroupsTypeOK'
<1> SUFFICES ASSUME GroupsTypeOK, [Next]_vars PROVE GroupsTypeOK'
  OBVIOUS
<1> USE GroupsAssumption DEF GroupsTypeOK, Statement, Goto
<1>1. CASE CreateGroup
  BY <1>1 DEF CreateGroup
<1>2. CASE CreateOwner
  BY <1>2 DEF CreateOwner, Step, OwnerQQ
<1>3. CASE Restart
  BY <1>3 DEF Restart, FaultHappens
<1>4. ASSUME NEW s \in Sessions PROVE Cardinality(Others(s)) \in Nat
  BY SessionCounts DEF Others
<1>5. ASSUME NEW s \in Sessions, JoinGroup(s) PROVE GroupsTypeOK'
  BY <1>5 DEF JoinGroup, Begin
<1>6. ASSUME NEW s \in Sessions, FindMember(s) PROVE GroupsTypeOK'
  BY <1>6 DEF FindMember, Step
<1>7. ASSUME NEW s \in Sessions, CreateMember(s) PROVE GroupsTypeOK'
  BY <1>4, <1>7 DEF CreateMember, Step, Writes
<1>8. ASSUME NEW s \in Sessions, WriteCount(s) PROVE GroupsTypeOK'
  BY <1>4, <1>8 DEF WriteCount, Step, Writes, Joined
<1>9. ASSUME NEW s \in Sessions, LeaveGroup(s) PROVE GroupsTypeOK'
  BY <1>4, <1>9 DEF LeaveGroup, Begin, Writes
<1>10. ASSUME NEW s \in Sessions, CountDown(s) PROVE GroupsTypeOK'
  BY <1>4, <1>10 DEF CountDown, Left, Step, Writes
<1>11. ASSUME NEW s \in Sessions, StatementFails(s) PROVE GroupsTypeOK'
  BY <1>11 DEF StatementFails, FaultHappens
<1>12. CASE UNCHANGED vars
  BY <1>12 DEF vars
<1> QED BY <1>1, <1>2, <1>3, <1>5, <1>6, <1>7, <1>8, <1>9, <1>10, <1>11, <1>12 DEF Next

LEMMA TypeInit == Init => GroupsTypeOK
BY GroupsAssumption DEF Init, GroupsTypeOK, Statement

\* The rows of a group keep their types whatever its handlers do.
THEOREM GroupsTypeCorrect == Spec => []GroupsTypeOK
BY TypeInit, TypeStep, PTL DEF Spec

-----------------------------------------------------------------------------
(* The owner.                                                              *)

LEMMA OwnerStep ==
  ASSUME GroupsTypeOK, OwnerRemains, [Next]_vars
  PROVE  OwnerRemains'
<1> USE GroupsAssumption DEF GroupsTypeOK, OwnerRemains, OwnerQQ
<1>1. CASE CreateGroup
  BY <1>1 DEF CreateGroup
<1>2. CASE CreateOwner
  BY <1>2 DEF CreateOwner, Step
<1>3. CASE Restart
  BY <1>3 DEF Restart, FaultHappens
<1>4. ASSUME NEW s \in Sessions,
             JoinGroup(s) \/ FindMember(s) \/ WriteCount(s) \/ CountDown(s)
      PROVE  OwnerRemains'
  BY <1>4 DEF JoinGroup, FindMember, WriteCount, CountDown, Begin, Step
<1>5. ASSUME NEW s \in Sessions, CreateMember(s) PROVE OwnerRemains'
  BY <1>5 DEF CreateMember, Step
<1>6. ASSUME NEW s \in Sessions, LeaveGroup(s) PROVE OwnerRemains'
  BY <1>6 DEF LeaveGroup, Begin, MayLeave
<1>7. ASSUME NEW s \in Sessions, StatementFails(s) PROVE OwnerRemains'
  BY <1>7 DEF StatementFails, FaultHappens
<1>8. CASE UNCHANGED vars
  BY <1>8 DEF vars
<1> QED BY <1>1, <1>2, <1>3, <1>4, <1>5, <1>6, <1>7, <1>8 DEF Next

\* A group that was created without a fault always has its owner as a member.
THEOREM OwnerRemainsMember == Spec => []OwnerRemains
<1>1. Init => OwnerRemains
  BY DEF Init, OwnerRemains
<1>2. GroupsTypeOK /\ OwnerRemains /\ [Next]_vars => OwnerRemains'
  BY OwnerStep
<1> QED BY <1>1, <1>2, GroupsTypeCorrect, PTL DEF Spec

-----------------------------------------------------------------------------
(* One row for each member.  A session that has not found a row may still   *)
(* create one, so it is counted with the rows that are there.               *)

Creating(u) == {s \in SessionsOf(u) : pc[s] \in {"create", "createOwner"}}

RowInv == \A u \in Users :
            rows[u] + Cardinality(Creating(u)) <= Cardinality(SessionsOf(u)) + faults

\* The sessions of u that are creating a row are some of the sessions of u.
LEMMA CreatingSize ==
  ASSUME NEW u \in Users
  PROVE  /\ Cardinality(SessionsOf(u)) \in Nat
         /\ Cardinality(Creating(u)) \in Nat
         /\ Cardinality(Creating(u)) <= Cardinality(SessionsOf(u))
         /\ Cardinality(Creating(u))' \in Nat
         /\ Cardinality(Creating(u))' <= Cardinality(SessionsOf(u))
<1>1. SessionsOf(u) \in SUBSET Sessions
  BY DEF SessionsOf
<1>2. Creating(u) \subseteq SessionsOf(u) /\ Creating(u)' \subseteq SessionsOf(u)
  BY DEF Creating, SessionsOf
<1>3. IsFiniteSet(SessionsOf(u)) /\ Cardinality(SessionsOf(u)) \in Nat
  BY <1>1, SessionCounts
<1> QED BY <1>2, <1>3, FS_Subset, FS_CardinalityType

\* A row more is made up for by a session that goes on.
LEMMA NoMoreCreating ==
  ASSUME NEW u \in Users, Creating(u)' \subseteq Creating(u)
  PROVE  Cardinality(Creating(u))' <= Cardinality(Creating(u))
<1>1. IsFiniteSet(Creating(u))
  <2>1. Creating(u) \in SUBSET Sessions
    BY DEF Creating, SessionsOf
  <2> QED BY <2>1, SessionCounts
<1> QED BY <1>1, FS_Subset

LEMMA OneLessCreating ==
  ASSUME NEW u \in Users, NEW s \in Creating(u), Creating(u)' \subseteq Creating(u) \ {s}
  PROVE  Cardinality(Creating(u))' + 1 <= Cardinality(Creating(u))
<1>1. IsFiniteSet(Creating(u)) /\ IsFiniteSet(Creating(u) \ {s})
  <2>1. Creating(u) \in SUBSET Sessions /\ Creating(u) \ {s} \in SUBSET Sessions
    BY DEF Creating, SessionsOf
  <2> QED BY <2>1, SessionCounts
<1>2. Cardinality(Creating(u) \ {s}) = Cardinality(Creating(u)) - 1
  BY <1>1, FS_RemoveElement
<1>3. Cardinality(Creating(u))' <= Cardinality(Creating(u) \ {s})
  BY <1>1, FS_Subset
<1> QED BY <1>2, <1>3, CreatingSize

LEMMA OneMoreCreating ==
  ASSUME NEW u \in Users, NEW s, Creating(u)' \subseteq Creating(u) \cup {s}
  PROVE  Cardinality(Creating(u))' <= Cardinality(Creating(u)) + 1
<1>1. IsFiniteSet(Creating(u))
  <2>1. Creating(u) \in SUBSET Sessions
    BY DEF Creating, SessionsOf
  <2> QED BY <2>1, SessionCounts
<1>2. IsFiniteSet(Creating(u) \cup {s})
  BY <1>1, FS_AddElement
<1>3. Cardinality(Creating(u) \cup {s}) <= Cardinality(Creating(u)) + 1
  <2>1. Cardinality(Creating(u) \cup {s})
          = IF s \in Creating(u) THEN Cardinality(Creating(u)) ELSE Cardinality(Creating(u)) + 1
    BY <1>1, FS_AddElement
  <2> QED BY <2>1, CreatingSize
<1>4. Cardinality(Creating(u))' <= Cardinality(Creating(u) \cup {s})
  BY <1>2, FS_Subset
<1>5. Cardinality(Creating(u) \cup {s}) \in Nat
  BY <1>2, FS_CardinalityType
<1> QED BY <1>3, <1>4, <1>5, CreatingSize

\* Before the group there are no rows and no handlers of it.
NothingYet == group = "none" => (\A u \in Users : rows[u] = 0) /\ (\A s \in Sessions : pc[s] = "idle")

LEMMA NothingYetStep ==
  ASSUME GroupsTypeOK, NothingYet, [Next]_vars
  PROVE  NothingYet'
<1> USE GroupsAssumption DEF GroupsTypeOK, NothingYet, Goto
<1>1. CASE CreateGroup \/ CreateOwner
  BY <1>1 DEF CreateGroup, CreateOwner, Step
<1>2. CASE Restart
  BY <1>2 DEF Restart
<1>3. ASSUME NEW s \in Sessions, JoinGroup(s) \/ LeaveGroup(s)
      PROVE  NothingYet'
  BY <1>3 DEF JoinGroup, LeaveGroup, Begin
<1>4. ASSUME NEW s \in Sessions,
             FindMember(s) \/ CreateMember(s) \/ WriteCount(s) \/ CountDown(s)
      PROVE  NothingYet'
  BY <1>4 DEF FindMember, CreateMember, WriteCount, CountDown, Step
<1>5. ASSUME NEW s \in Sessions, StatementFails(s) PROVE NothingYet'
  BY <1>5 DEF StatementFails
<1>6. CASE UNCHANGED vars
  BY <1>6 DEF vars
<1> QED BY <1>1, <1>2, <1>3, <1>4, <1>5, <1>6 DEF Next

LEMMA RowStep ==
  ASSUME GroupsTypeOK, NothingYet, RowInv, [Next]_vars
  PROVE  RowInv'
<1> USE GroupsAssumption DEF GroupsTypeOK
<1> DEFINE Kept(u) == rows'[u] + Cardinality(Creating(u))' <= Cardinality(SessionsOf(u)) + faults'
<1> SUFFICES ASSUME NEW u \in Users PROVE Kept(u)
  BY DEF RowInv, SessionsOf
<1>0. rows[u] + Cardinality(Creating(u)) <= Cardinality(SessionsOf(u)) + faults
  BY DEF RowInv
\* Nobody goes on to create a row, nobody has one more, no fault is undone.
<1>a. ASSUME Creating(u)' \subseteq Creating(u), rows'[u] \in Nat, rows'[u] <= rows[u],
             faults' \in Nat, faults <= faults'
      PROVE  Kept(u)
  BY <1>0, <1>a, CreatingSize, NoMoreCreating
<1>b. ASSUME NEW s \in Creating(u), Creating(u)' \subseteq Creating(u) \ {s},
             rows'[u] = rows[u] + 1, faults' = faults
      PROVE  Kept(u)
  BY <1>0, <1>b, CreatingSize, OneLessCreating
<1>1. CASE CreateGroup
  <2>1. rows'[u] = 0 /\ faults' = faults
    BY <1>1 DEF CreateGroup, NothingYet
  <2> QED BY <2>1, CreatingSize
<1>2. CASE CreateOwner
  <2>1. CASE u = OwnerQQ
    <3>1. Founder \in Creating(u)
      BY <1>2, <2>1 DEF CreateOwner, Step, Creating, SessionsOf, OwnerQQ
    <3>2. Creating(u)' \subseteq Creating(u) \ {Founder}
      BY <1>2 DEF CreateOwner, Step, Goto, Creating, SessionsOf
    <3>3. rows'[u] = rows[u] + 1 /\ faults' = faults
      BY <1>2, <2>1 DEF CreateOwner, Step
    <3> QED BY <3>1, <3>2, <3>3, <1>b
  <2>2. CASE u # OwnerQQ
    <3>1. Creating(u)' \subseteq Creating(u)
      BY <1>2 DEF CreateOwner, Step, Goto, Creating, SessionsOf
    <3>2. rows'[u] = rows[u] /\ faults' = faults
      BY <1>2, <2>2 DEF CreateOwner, Step
    <3> QED BY <3>1, <3>2, <1>a
  <2> QED BY <2>1, <2>2
<1>3. CASE Restart
  <2>1. Creating(u)' \subseteq Creating(u)
    BY <1>3 DEF Restart, Creating, SessionsOf
  <2> QED BY <2>1, <1>3, <1>a DEF Restart, FaultHappens
<1>4. ASSUME NEW s \in Sessions, JoinGroup(s) \/ LeaveGroup(s) PROVE Kept(u)
  <2>1. Creating(u)' \subseteq Creating(u)
    BY <1>4 DEF JoinGroup, LeaveGroup, Begin, Goto, Creating, SessionsOf
  <2>2. rows'[u] \in {0, rows[u]} /\ faults' = faults
    BY <1>4 DEF JoinGroup, LeaveGroup, Begin
  <2> QED BY <2>1, <2>2, <1>a
<1>5. ASSUME NEW s \in Sessions, FindMember(s) PROVE Kept(u)
  <2>1. rows'[u] = rows[u] /\ faults' = faults
    BY <1>5 DEF FindMember, Step
  <2>2. CASE pc'[s] = "create" /\ UserOf[s] = u
    <3>1. rows[u] = 0
      BY <1>5, <2>2 DEF FindMember, Step, Goto, IsMember
    <3> QED BY <3>1, <2>1, CreatingSize
  <2>3. CASE ~(pc'[s] = "create" /\ UserOf[s] = u)
    <3>1. Creating(u)' \subseteq Creating(u)
      BY <1>5, <2>3 DEF FindMember, Step, Goto, Creating, SessionsOf
    <3> QED BY <3>1, <2>1, <1>a
  <2> QED BY <2>2, <2>3
<1>6. ASSUME NEW s \in Sessions, CreateMember(s) PROVE Kept(u)
  <2>1. CASE u = UserOf[s]
    <3>1. s \in Creating(u)
      BY <1>6, <2>1 DEF CreateMember, Step, Creating, SessionsOf
    <3>2. Creating(u)' \subseteq Creating(u) \ {s}
      BY <1>6 DEF CreateMember, Step, Goto, Creating, SessionsOf
    <3>3. rows'[u] = rows[u] + 1 /\ faults' = faults
      BY <1>6, <2>1 DEF CreateMember, Step
    <3> QED BY <3>1, <3>2, <3>3, <1>b
  <2>2. CASE u # UserOf[s]
    <3>1. Creating(u)' \subseteq Creating(u)
      BY <1>6 DEF CreateMember, Step, Goto, Creating, SessionsOf
    <3>2. rows'[u] = rows[u] /\ faults' = faults
      BY <1>6, <2>2 DEF CreateMember, Step
    <3> QED BY <3>1, <3>2, <1>a
  <2> QED BY <2>1, <2>2
<1>7. ASSUME NEW s \in Sessions, WriteCount(s) \/ CountDown(s) PROVE Kept(u)
  <2>1. Creating(u)' \subseteq Creating(u)
    BY <1>7 DEF WriteCount, CountDown, Step, Goto, Creating, SessionsOf
  <2>2. rows'[u] = rows[u] /\ faults' = faults
    BY <1>7 DEF WriteCount, CountDown, Step
  <2> QED BY <2>1, <2>2, <1>a
<1>8. ASSUME NEW s \in Sessions, StatementFails(s) PROVE Kept(u)
  <2>1. rows'[u] = rows[u] /\ faults' = faults + 1
    BY <1>8 DEF StatementFails, FaultHappens
  <2>2. Creating(u)' \subseteq Creating(u) \cup {s}
    BY <1>8 DEF StatementFails, Goto, Creating, SessionsOf
  <2>3. Cardinality(Creating(u))' <= Cardinality(Creating(u)) + 1
    BY <2>2, OneMoreCreating
  <2> QED BY <1>0, <2>1, <2>3, CreatingSize
<1>9. CASE UNCHANGED vars
  <2>1. Creating(u)' \subseteq Creating(u)
    BY <1>9 DEF vars, Creating, SessionsOf
  <2> QED BY <2>1, <1>9, <1>a DEF vars
<1> QED BY <1>1, <1>2, <1>3, <1>4, <1>5, <1>6, <1>7, <1>8, <1>9 DEF Next

\* A user whose handlers run one after the other has one row; every session
\* more, and every fault, adds one at most.
THEOREM OneRowEachHolds == Spec => []OneRowEach
<1>1. Init => NothingYet /\ RowInv
  <2> SUFFICES ASSUME Init PROVE RowInv
    BY DEF Init, NothingYet
  <2>1. \A u \in Users : rows[u] = 0 /\ faults = 0
    BY DEF Init
  <2> QED BY <2>1, CreatingSize DEF RowInv
<1>2. GroupsTypeOK /\ NothingYet /\ RowInv /\ [Next]_vars => NothingYet' /\ RowInv'
  BY NothingYetStep, RowStep
<1>3. GroupsTypeOK /\ RowInv => OneRowEach
  <2> SUFFICES ASSUME GroupsTypeOK, RowInv, NEW u \in Users
               PROVE  rows[u] <= Cardinality(SessionsOf(u)) + faults
    BY DEF OneRowEach
  <2> QED BY CreatingSize DEF RowInv, GroupsTypeOK
<1> QED BY <1>1, <1>2, <1>3, GroupsTypeCorrect, PTL DEF Spec

-----------------------------------------------------------------------------
(* The count and the capacity.  First the rows and the members as sets, and  *)
(* what an insertion and a deletion do to their sizes.                      *)

RowsIn(f) == UNION {{u} \X (1..f[u]) : u \in Users}
MembersIn(f) == {u \in Users : f[u] > 0}

LEMMA RowsInFinite ==
  ASSUME NEW f \in [Users -> Nat]
  PROVE  /\ IsFiniteSet(RowsIn(f)) /\ Cardinality(RowsIn(f)) \in Nat
         /\ IsFiniteSet(MembersIn(f)) /\ Cardinality(MembersIn(f)) \in Nat
         /\ Cardinality(MembersIn(f)) <= Cardinality(RowsIn(f))
<1> DEFINE rowsOf == [u \in Users |-> {u} \X (1..f[u])]
           sets == {{u} \X (1..f[u]) : u \in Users}
           first == [u \in MembersIn(f) |-> <<u, 1>>]
<1>1. IsFiniteSet(sets)
  <2>1. rowsOf \in Surjection(Users, sets)
    BY DEF Surjection
  <2> QED BY <2>1, FS_Surjection, GroupsAssumption
<1>2. ASSUME NEW T \in sets PROVE IsFiniteSet(T)
  <2>1. PICK u \in Users : T = {u} \X (1..f[u])
    OBVIOUS
  <2>2. IsFiniteSet({u})
    BY FS_Singleton
  <2>3. IsFiniteSet(1..f[u])
    <3>1. f[u] \in Int
      OBVIOUS
    <3> QED BY <3>1, FS_Interval
  <2> QED BY <2>1, <2>2, <2>3, FS_Product
<1>3. IsFiniteSet(RowsIn(f)) /\ Cardinality(RowsIn(f)) \in Nat
  <2>1. IsFiniteSet(UNION sets)
    BY <1>1, <1>2, FS_UNION
  <2> QED BY <2>1, FS_CardinalityType DEF RowsIn
<1>4. IsFiniteSet(MembersIn(f)) /\ Cardinality(MembersIn(f)) \in Nat
  <2>1. MembersIn(f) \in SUBSET Users
    BY DEF MembersIn
  <2> QED BY <2>1, FS_Subset, FS_CardinalityType, GroupsAssumption
<1>5. Cardinality(MembersIn(f)) <= Cardinality(RowsIn(f))
  <2>1. ASSUME NEW u \in MembersIn(f) PROVE <<u, 1>> \in RowsIn(f)
    <3>1. u \in Users /\ 1 \in 1..f[u]
      BY DEF MembersIn
    <3> QED BY <3>1 DEF RowsIn
  <2>2. first \in Injection(MembersIn(f), RowsIn(f))
    BY <2>1 DEF Injection, IsInjective
  <2> QED BY <1>3, <2>2, FS_Injection
<1> QED BY <1>3, <1>4, <1>5

LEMMA RowIn ==
  ASSUME NEW f \in [Users -> Nat], NEW u, NEW k
  PROVE  <<u, k>> \in RowsIn(f) <=> u \in Users /\ k \in 1..f[u]
BY DEF RowsIn

LEMMA PairIn ==
  ASSUME NEW f \in [Users -> Nat], NEW p
  PROVE  p \in RowsIn(f) <=> p \in Users \X Nat /\ p[2] \in 1..f[p[1]]
<1>1. ASSUME p \in RowsIn(f) PROVE p \in Users \X Nat /\ p[2] \in 1..f[p[1]]
  <2>1. PICK u \in Users : p \in {u} \X (1..f[u])
    BY <1>1 DEF RowsIn
  <2>2. p[1] = u /\ p[2] \in 1..f[u] /\ f[u] \in Nat
    BY <2>1
  <2> QED BY <2>1, <2>2
<1>2. ASSUME p \in Users \X Nat, p[2] \in 1..f[p[1]] PROVE p \in RowsIn(f)
  <2>1. p \in {p[1]} \X (1..f[p[1]]) /\ p[1] \in Users
    BY <1>2
  <2> QED BY <2>1 DEF RowsIn
<1> QED BY <1>1, <1>2

LEMMA Insertion ==
  ASSUME NEW f \in [Users -> Nat], NEW u \in Users, NEW g, g = [f EXCEPT ![u] = @ + 1]
  PROVE  /\ g \in [Users -> Nat]
         /\ Cardinality(RowsIn(g)) = Cardinality(RowsIn(f)) + 1
         /\ Cardinality(MembersIn(g))
              = IF f[u] = 0 THEN Cardinality(MembersIn(f)) + 1 ELSE Cardinality(MembersIn(f))
<1> DEFINE new == <<u, f[u] + 1>>
<1>1. g \in [Users -> Nat] /\ g[u] = f[u] + 1 /\ f[u] \in Nat
      /\ \A v \in Users : v # u => g[v] = f[v]
  OBVIOUS
<1>2. RowsIn(g) = RowsIn(f) \cup {new}
  <2>1. ASSUME NEW v \in Users, NEW k \in Nat
        PROVE  k \in 1..g[v] <=> k \in 1..f[v] \/ (v = u /\ k = f[u] + 1)
    BY <1>1
  <2>2. ASSUME NEW p \in Users \X Nat
        PROVE  p \in RowsIn(g) <=> p \in RowsIn(f) \/ p = new
    <3>1. p[2] \in 1..g[p[1]] <=> p[2] \in 1..f[p[1]] \/ (p[1] = u /\ p[2] = f[u] + 1)
      BY <2>1
    <3>2. p = new <=> p[1] = u /\ p[2] = f[u] + 1
      OBVIOUS
    <3> QED BY <1>1, <3>1, <3>2, PairIn
  <2>3. RowsIn(g) \subseteq Users \X Nat /\ RowsIn(f) \subseteq Users \X Nat /\ new \in Users \X Nat
    BY <1>1, PairIn
  <2> QED BY <2>2, <2>3
<1>3. new \notin RowsIn(f)
  BY <1>1, RowIn
<1>4. Cardinality(RowsIn(g)) = Cardinality(RowsIn(f)) + 1
  BY <1>2, <1>3, RowsInFinite, FS_AddElement
<1>5. MembersIn(g) = MembersIn(f) \cup {u}
  BY <1>1 DEF MembersIn
<1>6. u \in MembersIn(f) <=> f[u] # 0
  BY <1>1 DEF MembersIn
<1>7. Cardinality(MembersIn(f) \cup {u})
        = IF u \in MembersIn(f) THEN Cardinality(MembersIn(f)) ELSE Cardinality(MembersIn(f)) + 1
  BY RowsInFinite, FS_AddElement
<1> QED BY <1>1, <1>4, <1>5, <1>6, <1>7

LEMMA Deletion ==
  ASSUME NEW f \in [Users -> Nat], NEW u \in Users, f[u] > 0, NEW g, g = [f EXCEPT ![u] = 0]
  PROVE  /\ g \in [Users -> Nat]
         /\ Cardinality(RowsIn(g)) + 1 <= Cardinality(RowsIn(f))
         /\ Cardinality(MembersIn(g)) + 1 = Cardinality(MembersIn(f))
<1>1. g \in [Users -> Nat] /\ g[u] = 0 /\ \A v \in Users : v # u => g[v] = f[v]
  OBVIOUS
<1>2. RowsIn(g) \subseteq RowsIn(f) \ {<<u, 1>>}
  <2> SUFFICES ASSUME NEW p \in RowsIn(g) PROVE p \in RowsIn(f) /\ p # <<u, 1>>
    OBVIOUS
  <2>1. p \in Users \X Nat /\ p[2] \in 1..g[p[1]]
    BY <1>1, PairIn
  <2>3. p[1] # u
    BY <1>1, <2>1
  <2>4. p \in RowsIn(f)
    BY <1>1, <2>1, <2>3, PairIn
  <2> QED BY <2>3, <2>4
<1>3. <<u, 1>> \in RowsIn(f)
  <2>1. 1 \in 1..f[u]
    OBVIOUS
  <2> QED BY <2>1, RowIn
<1>4. /\ IsFiniteSet(RowsIn(f) \ {<<u, 1>>})
      /\ Cardinality(RowsIn(f) \ {<<u, 1>>}) = Cardinality(RowsIn(f)) - 1
  BY <1>3, RowsInFinite, FS_RemoveElement
<1>5. Cardinality(RowsIn(g)) <= Cardinality(RowsIn(f) \ {<<u, 1>>})
  BY <1>2, <1>4, FS_Subset
<1>6. Cardinality(RowsIn(g)) + 1 <= Cardinality(RowsIn(f))
  <2>1. Cardinality(RowsIn(g)) \in Nat /\ Cardinality(RowsIn(f)) \in Nat
    BY <1>1, RowsInFinite
  <2> QED BY <1>4, <1>5, <2>1
<1>7. MembersIn(g) = MembersIn(f) \ {u} /\ u \in MembersIn(f)
  BY <1>1 DEF MembersIn
<1>8. Cardinality(MembersIn(g)) = Cardinality(MembersIn(f)) - 1
  BY <1>7, RowsInFinite, FS_RemoveElement
<1> QED BY <1>1, <1>6, <1>8, RowsInFinite

-----------------------------------------------------------------------------
(* Why the count agrees: while somebody is under way it may lag behind, by   *)
(* the join or the leave that has not been counted.  What the sessions in S  *)
(* have not counted yet, of rows that are there and of rows that are not:    *)

Joining(S) == \E s \in S : pc[s] = "joinCount"
Leaving(S) == \E s \in S : pc[s] = "leaveCount"
Founding(S) == \E s \in S : pc[s] = "createOwner"

Excess(S) == IF Leaving(S) THEN -1 ELSE IF Joining(S) THEN 1 ELSE 0
Deficit(S) == IF Leaving(S) \/ Founding(S) THEN 1 ELSE 0

Slack == overlaps + faults
NumberOfMembers == Cardinality(MembersIn(rows))

CountsMatch ==
  /\ NumberOfRows <= memberCnt + Slack + Excess(Sessions)
  /\ memberCnt <= NumberOfMembers + Slack + Deficit(Sessions)
  /\ NumberOfRows <= MaxMembers + Slack

\* A join knows the count as it was, which the other sessions account for.
SeenMatches(s) ==
  /\ pc[s] \in {"existing", "create"} =>
       NumberOfRows <= seen[s] + Slack + Excess(Sessions \ {s})
  /\ pc[s] = "joinCount" =>
       NumberOfRows <= seen[s] + 1 + Slack + Excess(Sessions \ {s})
  /\ pc[s] = "existing" \/ (pc[s] = "create" /\ rows[UserOf[s]] = 0) =>
       seen[s] <= NumberOfMembers + Slack + Deficit(Sessions \ {s})
  /\ pc[s] = "joinCount" \/ (pc[s] = "create" /\ rows[UserOf[s]] # 0) =>
       seen[s] + 1 <= NumberOfMembers + Slack + Deficit(Sessions \ {s})
  /\ pc[s] = "create" => seen[s] < MaxMembers

\* A group that nobody knows of has its owner counted, and no rows.
BeforeItIsKnown ==
  /\ group # "known" => /\ \A u \in Users : rows[u] = 0
                        /\ \A s \in Sessions : pc[s] \in {"idle", "createOwner"}
  /\ group = "none" => memberCnt = 0 /\ \A s \in Sessions : pc[s] = "idle"
  /\ group = "created" => memberCnt = 1
  /\ \A s \in Sessions : pc[s] = "createOwner" => s = Founder /\ group = "created"

CountInv == CountsMatch /\ BeforeItIsKnown /\ \A s \in Sessions : SeenMatches(s)

LEMMA Sizes ==
  ASSUME GroupsTypeOK
  PROVE  /\ NumberOfRows \in Nat /\ NumberOfMembers \in Nat /\ NumberOfMembers <= NumberOfRows
         /\ NumberOfRows = Cardinality(RowsIn(rows))
         /\ memberCnt \in Nat /\ Slack \in Nat /\ MaxMembers \in Nat /\ MaxMembers >= 1
         /\ \A s \in Sessions : seen[s] \in Nat /\ UserOf[s] \in Users /\ rows[UserOf[s]] \in Nat
<1>1. rows \in [Users -> Nat] /\ memberCnt \in Nat /\ overlaps \in Nat /\ faults \in Nat
      /\ seen \in [Sessions -> Nat] /\ UserOf \in [Sessions -> Users]
  BY GroupsAssumption DEF GroupsTypeOK
<1>2. NumberOfRows = Cardinality(RowsIn(rows))
  BY DEF NumberOfRows, RowSet, RowsIn
<1>3. MaxMembers \in Nat /\ MaxMembers >= 1
  BY GroupsAssumption
<1> QED BY <1>1, <1>2, <1>3, RowsInFinite DEF NumberOfMembers, Slack

LEMMA SizesPrimed ==
  ASSUME GroupsTypeOK'
  PROVE  /\ NumberOfRows' \in Nat /\ NumberOfMembers' \in Nat /\ NumberOfMembers' <= NumberOfRows'
         /\ NumberOfRows' = Cardinality(RowsIn(rows'))
         /\ NumberOfMembers' = Cardinality(MembersIn(rows'))
         /\ memberCnt' \in Nat /\ Slack' = overlaps' + faults' /\ Slack' \in Nat
<1>1. rows' \in [Users -> Nat] /\ memberCnt' \in Nat /\ overlaps' \in Nat /\ faults' \in Nat
  BY GroupsAssumption DEF GroupsTypeOK
<1>2. NumberOfRows' = Cardinality(RowsIn(rows')) /\ NumberOfMembers' = Cardinality(MembersIn(rows'))
  BY DEF NumberOfRows, RowSet, RowsIn, NumberOfMembers, MembersIn
<1>3. /\ Cardinality(RowsIn(rows')) \in Nat /\ Cardinality(MembersIn(rows')) \in Nat
      /\ Cardinality(MembersIn(rows')) <= Cardinality(RowsIn(rows'))
  BY <1>1, RowsInFinite
<1>4. Slack' = overlaps' + faults'
  BY DEF Slack
<1>5. Slack' \in Nat
  <2>1. \A a, b \in Nat : a + b \in Nat
    OBVIOUS
  <2> QED BY <1>1, <1>4, <2>1
<1> QED BY <1>1, <1>2, <1>3, <1>4, <1>5

\* Whoever is under way besides s is counted by the writes of s.
LEMMA Busy ==
  ASSUME NEW s \in Sessions
  PROVE  /\ Cardinality(Others(s)) \in Nat
         /\ \A t \in Sessions \ {s} : pc[t] # "idle" => Cardinality(Others(s)) >= 1
<1>1. Others(s) \in SUBSET Sessions
  BY DEF Others
<1>2. IsFiniteSet(Others(s)) /\ Cardinality(Others(s)) \in Nat
  BY <1>1, SessionCounts
<1>3. ASSUME NEW t \in Sessions \ {s}, pc[t] # "idle" PROVE Cardinality(Others(s)) # 0
  BY <1>2, <1>3, FS_EmptySet DEF Others
<1> QED BY <1>2, <1>3

\* How a step of session s changes what is not counted, and that the writes
\* that meet others make up for it.
LEMMA Drift ==
  ASSUME GroupsTypeOK, NEW s \in Sessions, NEW l \in Statement, Goto(s, l),
         NEW S \in SUBSET Sessions
  PROVE  /\ Excess(S) \in -1..1 /\ Excess(S)' \in -1..1
         /\ Deficit(S) \in 0..1 /\ Deficit(S)' \in 0..1
         /\ s \notin S => Excess(S)' = Excess(S) /\ Deficit(S)' = Deficit(S)
         /\ pc[s] \notin {"joinCount", "leaveCount", "createOwner"}
              /\ l \notin {"joinCount", "leaveCount", "createOwner"}
              => Excess(S)' = Excess(S) /\ Deficit(S)' = Deficit(S)
         /\ l \in {"create", "idle"} => Excess(S)' + 1 >= Excess(S) /\ Deficit(S)' + 1 >= Deficit(S)
<1>1. \A t \in Sessions : t # s => pc'[t] = pc[t]
  BY DEF Goto, GroupsTypeOK
<1>2. pc'[s] = l
  BY DEF Goto, GroupsTypeOK
<1>3. s \notin S => (Leaving(S)' <=> Leaving(S)) /\ (Joining(S)' <=> Joining(S))
                    /\ (Founding(S)' <=> Founding(S))
  BY <1>1 DEF Leaving, Joining, Founding
<1>4. pc[s] \notin {"joinCount", "leaveCount", "createOwner"}
        /\ l \notin {"joinCount", "leaveCount", "createOwner"}
      => (Leaving(S)' <=> Leaving(S)) /\ (Joining(S)' <=> Joining(S))
         /\ (Founding(S)' <=> Founding(S))
  BY <1>1, <1>2 DEF Leaving, Joining, Founding
<1>5. l \in {"create", "idle"} => ~(Leaving(S)' /\ ~Leaving(S))
  BY <1>1, <1>2 DEF Leaving
<1> QED BY <1>3, <1>4, <1>5 DEF Excess, Deficit

LEMMA DriftOfWrites ==
  ASSUME GroupsTypeOK, NEW s \in Sessions, NEW l \in Statement, Goto(s, l),
         NEW S \in SUBSET Sessions, s \in S, NEW k, k = Cardinality(Others(s))
  PROVE  /\ pc[s] = "create" /\ l = "joinCount" =>
              Excess(S)' + k >= Excess(S) + 1 /\ Deficit(S)' = Deficit(S)
         /\ pc[s] = "idle" /\ l = "leaveCount" =>
              Excess(S)' + k + 1 >= Excess(S) /\ Deficit(S)' + k >= Deficit(S) + 1
         /\ pc[s] = "leaveCount" /\ l = "idle" =>
              Excess(S)' + k >= Excess(S) + 1
<1> DEFINE R == S \ {s}
<1>1. \A t \in Sessions : t # s => pc'[t] = pc[t]
  BY DEF Goto, GroupsTypeOK
<1>2. pc'[s] = l
  BY DEF Goto, GroupsTypeOK
<1>3. /\ Leaving(S) <=> pc[s] = "leaveCount" \/ Leaving(R)
      /\ Joining(S) <=> pc[s] = "joinCount" \/ Joining(R)
      /\ Founding(S) <=> pc[s] = "createOwner" \/ Founding(R)
  BY DEF Leaving, Joining, Founding
<1>4. /\ Leaving(S)' <=> l = "leaveCount" \/ Leaving(R)
      /\ Joining(S)' <=> l = "joinCount" \/ Joining(R)
      /\ Founding(S)' <=> l = "createOwner" \/ Founding(R)
  BY <1>1, <1>2 DEF Leaving, Joining, Founding
<1>5. k \in Nat /\ (Leaving(R) \/ Joining(R) \/ Founding(R) => k >= 1)
  BY Busy DEF Leaving, Joining, Founding
<1> HIDE DEF R
<1>6. pc[s] = "create" /\ l = "joinCount" =>
        Excess(S)' + k >= Excess(S) + 1 /\ Deficit(S)' = Deficit(S)
  BY <1>3, <1>4, <1>5 DEF Excess, Deficit
<1>7. pc[s] = "idle" /\ l = "leaveCount" =>
        Excess(S)' + k + 1 >= Excess(S) /\ Deficit(S)' + k >= Deficit(S) + 1
  BY <1>3, <1>4, <1>5 DEF Excess, Deficit
<1>8. pc[s] = "leaveCount" /\ l = "idle" => Excess(S)' + k >= Excess(S) + 1
  BY <1>3, <1>4, <1>5 DEF Excess
<1> QED BY <1>6, <1>7, <1>8

-----------------------------------------------------------------------------
(* The steps.  What the other joins know stays true if the writes make up    *)
(* for the rows and members that come and go.                              *)

LEMMA OthersSeen ==
  ASSUME GroupsTypeOK, GroupsTypeOK', NEW s \in Sessions, NEW l \in Statement, Goto(s, l),
         NEW t \in Sessions, t # s, SeenMatches(t), seen'[t] = seen[t],
         pc[t] = "idle" \/
           /\ NumberOfRows' + Slack + Excess(Sessions \ {t})
                <= NumberOfRows + Slack' + Excess(Sessions \ {t})'
           /\ NumberOfMembers + Slack + Deficit(Sessions \ {t})
                <= NumberOfMembers' + Slack' + Deficit(Sessions \ {t})'
           /\ rows[UserOf[t]] = 0 /\ rows'[UserOf[t]] # 0 =>
                NumberOfMembers + 1 + Slack + Deficit(Sessions \ {t})
                  <= NumberOfMembers' + Slack' + Deficit(Sessions \ {t})'
  PROVE  SeenMatches(t)'
<1> DEFINE n == NumberOfRows  n1 == NumberOfRows'
           m == NumberOfMembers  m1 == NumberOfMembers'
           b == Slack  b1 == Slack'
           e == Excess(Sessions \ {t})  e1 == Excess(Sessions \ {t})'
           d == Deficit(Sessions \ {t})  d1 == Deficit(Sessions \ {t})'
           new == rows'[UserOf[t]] # 0
<1>1. pc'[t] = pc[t] /\ pc[t] \in Statement
  BY DEF Goto, GroupsTypeOK
<1>2. CASE pc[t] = "idle"
  BY <1>1, <1>2 DEF SeenMatches
<1>3. CASE pc[t] # "idle"
  <2>1. n \in Nat /\ n1 \in Nat /\ m \in Nat /\ m1 \in Nat /\ b \in Nat /\ b1 \in Nat
        /\ seen[t] \in Nat
    BY Sizes, SizesPrimed
  <2>2. e \in -1..1 /\ e1 \in -1..1 /\ d \in 0..1 /\ d1 \in 0..1
    BY Drift
  <2>3. /\ n1 + b + e <= n + b1 + e1
        /\ m + b + d <= m1 + b1 + d1
        /\ rows[UserOf[t]] = 0 /\ new => m + 1 + b + d <= m1 + b1 + d1
    BY <1>3
  <2>4. /\ pc[t] \in {"existing", "create"} => n <= seen[t] + b + e
        /\ pc[t] = "joinCount" => n <= seen[t] + 1 + b + e
        /\ pc[t] = "existing" \/ (pc[t] = "create" /\ rows[UserOf[t]] = 0) => seen[t] <= m + b + d
        /\ pc[t] = "joinCount" \/ (pc[t] = "create" /\ rows[UserOf[t]] # 0) => seen[t] + 1 <= m + b + d
        /\ pc[t] = "create" => seen[t] < MaxMembers
    BY DEF SeenMatches
  <2> HIDE DEF n, m, b, e, d, n1, m1, b1, e1, d1, new
  <2>5. /\ pc[t] \in {"existing", "create"} => n1 <= seen[t] + b1 + e1
        /\ pc[t] = "joinCount" => n1 <= seen[t] + 1 + b1 + e1
    BY <2>1, <2>2, <2>3, <2>4
  <2>6. /\ pc[t] = "existing" \/ (pc[t] = "create" /\ ~new) => seen[t] <= m1 + b1 + d1
        /\ pc[t] = "joinCount" \/ (pc[t] = "create" /\ new) => seen[t] + 1 <= m1 + b1 + d1
    BY <2>1, <2>2, <2>3, <2>4
  <2> QED BY <1>1, <2>4, <2>5, <2>6 DEF n1, m1, b1, e1, d1, new, SeenMatches
<1> QED BY <1>2, <1>3

LEMMA BeforeItIsKnownStep ==
  ASSUME GroupsTypeOK, BeforeItIsKnown, [Next]_vars
  PROVE  BeforeItIsKnown'
<1> USE GroupsAssumption DEF GroupsTypeOK, BeforeItIsKnown, Goto
<1>1. CASE CreateGroup
  BY <1>1 DEF CreateGroup
<1>2. CASE CreateOwner
  BY <1>2 DEF CreateOwner, Step
<1>3. CASE Restart
  BY <1>3 DEF Restart
<1>4. ASSUME NEW s \in Sessions, JoinGroup(s) \/ LeaveGroup(s)
      PROVE  BeforeItIsKnown'
  BY <1>4 DEF JoinGroup, LeaveGroup, Begin
<1>5. ASSUME NEW s \in Sessions,
             FindMember(s) \/ CreateMember(s) \/ WriteCount(s) \/ CountDown(s)
      PROVE  BeforeItIsKnown'
  <2>1. group = "known" /\ group' = "known"
    BY <1>5 DEF FindMember, CreateMember, WriteCount, CountDown, Step
  <2> QED BY <1>5, <2>1 DEF FindMember, CreateMember, WriteCount, CountDown, Step
<1>6. ASSUME NEW s \in Sessions, StatementFails(s) PROVE BeforeItIsKnown'
  <2>1. CASE pc[s] = "createOwner"
    <3>1. group' = "known" /\ pc' = [pc EXCEPT ![s] = "idle"] /\ s = Founder
      BY <1>6, <2>1 DEF StatementFails
    <3> QED BY <3>1
  <2>2. CASE pc[s] # "createOwner"
    <3>1. group = "known" /\ group' = "known" /\ pc'[s] \in {"create", "idle"}
      BY <1>6, <2>2 DEF StatementFails
    <3> QED BY <1>6, <3>1 DEF StatementFails
  <2> QED BY <2>1, <2>2
<1>7. CASE UNCHANGED vars
  BY <1>7 DEF vars
<1> QED BY <1>1, <1>2, <1>3, <1>4, <1>5, <1>6, <1>7 DEF Next

\* Nothing has become of the group that the sessions of S would have to count.
LEMMA Founded ==
  ASSUME GroupsTypeOK, BeforeItIsKnown, group # "known"
  PROVE  /\ NumberOfRows = 0 /\ NumberOfMembers = 0
         /\ \A S \in SUBSET Sessions : Excess(S) = 0
<1>1. RowsIn(rows) = {}
  BY DEF BeforeItIsKnown, RowsIn
<1>2. MembersIn(rows) = {}
  BY DEF BeforeItIsKnown, MembersIn
<1>3. \A S \in SUBSET Sessions : Excess(S) = 0
  BY DEF BeforeItIsKnown, Excess, Leaving, Joining
<1> QED BY <1>1, <1>2, <1>3, Sizes, FS_EmptySet DEF NumberOfMembers

\* Steps that leave the rows and the count alone, and read at most.
LEMMA ReadStep ==
  ASSUME GroupsTypeOK, GroupsTypeOK', CountInv, NEW s \in Sessions,
         JoinGroup(s) \/ FindMember(s)
  PROVE  CountsMatch' /\ \A t \in Sessions : SeenMatches(t)'
<1>1. PICK l \in {"existing", "create", "idle"} :
        /\ Goto(s, l) /\ l \in Statement
        /\ pc[s] \notin {"joinCount", "leaveCount", "createOwner"}
        /\ l = "existing" => seen'[s] = memberCnt /\ pc[s] = "idle"
        /\ l # "existing" => seen'[s] = seen[s] /\ pc[s] = "existing"
        /\ l = "create" => rows[UserOf[s]] = 0 /\ seen[s] < MaxMembers
        /\ \A t \in Sessions : t # s => seen'[t] = seen[t]
  <2>1. CASE JoinGroup(s)
    BY <2>1 DEF JoinGroup, Begin, Statement, GroupsTypeOK
  <2>2. CASE FindMember(s)
    <3>1. ~IsMember(UserOf[s]) => rows[UserOf[s]] = 0
      BY Sizes DEF IsMember
    <3> QED BY <2>2, <3>1 DEF FindMember, Step, Statement, GroupsTypeOK, HasPlace
  <2> QED BY <2>1, <2>2
<1>2. rows' = rows /\ memberCnt' = memberCnt /\ overlaps' = overlaps /\ faults' = faults
  BY DEF JoinGroup, FindMember, Begin, Step
<1>3. /\ NumberOfRows' = NumberOfRows /\ NumberOfMembers' = NumberOfMembers /\ Slack' = Slack
  BY <1>2 DEF NumberOfRows, RowSet, NumberOfMembers, MembersIn, Slack
<1>4. \A S \in SUBSET Sessions : Excess(S)' = Excess(S) /\ Deficit(S)' = Deficit(S)
  BY <1>1, Drift
<1>5. CountsMatch'
  BY <1>2, <1>3, <1>4 DEF CountInv, CountsMatch
<1>6. ASSUME NEW t \in Sessions, t # s PROVE SeenMatches(t)'
  <2>1. pc'[t] = pc[t] /\ seen'[t] = seen[t]
    BY <1>1, <1>6 DEF Goto, GroupsTypeOK
  <2>2. SeenMatches(t)
    BY DEF CountInv
  <2> QED BY <1>2, <1>3, <1>4, <2>1, <2>2 DEF SeenMatches
<1>7. SeenMatches(s)'
  <2>1. pc'[s] = l
    BY <1>1 DEF Goto, GroupsTypeOK
  <2>2. CASE l = "existing"
    <3>1. pc'[s] = "existing" /\ seen'[s] = memberCnt /\ pc[s] = "idle"
      BY <1>1, <2>1, <2>2
    <3>2. Excess(Sessions) = Excess(Sessions \ {s}) /\ Deficit(Sessions) = Deficit(Sessions \ {s})
      BY <3>1 DEF Excess, Deficit, Leaving, Joining, Founding
    <3>3. /\ NumberOfRows <= memberCnt + Slack + Excess(Sessions \ {s})
          /\ memberCnt <= NumberOfMembers + Slack + Deficit(Sessions \ {s})
      BY <3>2 DEF CountInv, CountsMatch
    <3> QED BY <1>3, <1>4, <3>1, <3>3 DEF SeenMatches
  <2>3. CASE l = "create"
    <3>1. pc'[s] = "create" /\ seen'[s] = seen[s] /\ pc[s] = "existing"
          /\ rows[UserOf[s]] = 0 /\ seen[s] < MaxMembers
      BY <1>1, <2>1, <2>3
    <3>2. /\ NumberOfRows <= seen[s] + Slack + Excess(Sessions \ {s})
          /\ seen[s] <= NumberOfMembers + Slack + Deficit(Sessions \ {s})
      BY <3>1 DEF CountInv, SeenMatches
    <3> QED BY <1>2, <1>3, <1>4, <3>1, <3>2 DEF SeenMatches
  <2>4. CASE l = "idle"
    BY <2>1, <2>4 DEF SeenMatches
  <2> QED BY <2>2, <2>3, <2>4
<1> QED BY <1>5, <1>6, <1>7

LEMMA CreateMemberCounts ==
  ASSUME GroupsTypeOK, GroupsTypeOK', CountInv, NEW s \in Sessions, CreateMember(s)
  PROVE  CountsMatch' /\ \A t \in Sessions : SeenMatches(t)'
<1> DEFINE k == Cardinality(Others(s))
           n1 == NumberOfRows'  m1 == NumberOfMembers'  b1 == Slack'
           u == UserOf[s]
<1>1. /\ pc[s] = "create" /\ Goto(s, "joinCount") /\ "joinCount" \in Statement
      /\ rows' = [rows EXCEPT ![u] = @ + 1] /\ memberCnt' = memberCnt /\ seen' = seen
      /\ overlaps' = overlaps + k /\ faults' = faults
  BY DEF CreateMember, Step, Writes, Statement
<1>2. pc'[s] = "joinCount" /\ k \in Nat
  BY <1>1, Busy DEF Goto, GroupsTypeOK
<1>3. u \in Users /\ rows \in [Users -> Nat]
  BY Sizes DEF GroupsTypeOK
<1>4. /\ n1 = NumberOfRows + 1
      /\ rows[u] = 0 => m1 = NumberOfMembers + 1
      /\ m1 >= NumberOfMembers
  <2>1. /\ Cardinality(RowsIn(rows')) = Cardinality(RowsIn(rows)) + 1
        /\ Cardinality(MembersIn(rows'))
             = IF rows[u] = 0 THEN Cardinality(MembersIn(rows)) + 1 ELSE Cardinality(MembersIn(rows))
    BY <1>1, <1>3, Insertion
  <2> QED BY <2>1, Sizes, SizesPrimed DEF NumberOfMembers
<1>5. b1 = Slack + k
  <2>1. overlaps \in Nat /\ faults \in Nat
    BY GroupsAssumption DEF GroupsTypeOK
  <2> QED BY <1>1, <1>2, <2>1, SizesPrimed DEF Slack
<1>6. /\ NumberOfRows <= seen[s] + Slack + Excess(Sessions \ {s}) /\ seen[s] < MaxMembers
      /\ rows[u] = 0 => seen[s] <= NumberOfMembers + Slack + Deficit(Sessions \ {s})
      /\ rows[u] # 0 => seen[s] + 1 <= NumberOfMembers + Slack + Deficit(Sessions \ {s})
  BY <1>1 DEF CountInv, SeenMatches
<1>7. NumberOfRows <= memberCnt + Slack + Excess(Sessions)
      /\ memberCnt <= NumberOfMembers + Slack + Deficit(Sessions)
  BY DEF CountInv, CountsMatch
<1>8. ASSUME NEW t \in Sessions, t # s PROVE SeenMatches(t)'
  <2> DEFINE e == Excess(Sessions \ {t})  e1 == Excess(Sessions \ {t})'
             d == Deficit(Sessions \ {t})  d1 == Deficit(Sessions \ {t})'
  <2>1. e \in -1..1 /\ e1 \in -1..1 /\ d \in 0..1 /\ d1 \in 0..1
    BY <1>1, Drift
  <2>2. e1 + k >= e + 1 /\ d1 = d
    BY <1>1, <1>8, DriftOfWrites
  <2>3. pc[t] # "idle" => k >= 1
    BY <1>8, Busy
  <2>4. rows[UserOf[t]] = 0 /\ rows'[UserOf[t]] # 0 => rows[u] = 0
    BY <1>1, <1>3, Sizes
  <2>5. SeenMatches(t) /\ seen'[t] = seen[t]
    BY <1>1 DEF CountInv
  <2>6. NumberOfRows \in Nat /\ NumberOfMembers \in Nat /\ Slack \in Nat /\ n1 \in Nat /\ m1 \in Nat
        /\ b1 \in Nat
    BY Sizes, SizesPrimed
  <2> HIDE DEF n1, m1, b1, e, e1, d, d1, k
  <2>7. pc[t] = "idle" \/
          /\ n1 + Slack + e <= NumberOfRows + b1 + e1
          /\ NumberOfMembers + Slack + d <= m1 + b1 + d1
          /\ rows[u] = 0 => NumberOfMembers + 1 + Slack + d <= m1 + b1 + d1
    BY <1>2, <1>4, <1>5, <2>1, <2>2, <2>3, <2>6
  <2> QED BY <1>1, <1>8, <2>4, <2>5, <2>7, OthersSeen DEF n1, m1, b1, e, e1, d, d1
<1>9. SeenMatches(s)' /\ CountsMatch'
  <2> DEFINE e == Excess(Sessions \ {s})  e1 == Excess(Sessions \ {s})'
             d == Deficit(Sessions \ {s})  d1 == Deficit(Sessions \ {s})'
             f == Excess(Sessions)  f1 == Excess(Sessions)'
             g == Deficit(Sessions)  g1 == Deficit(Sessions)'
             z == seen[s]
  <2>1. e \in -1..1 /\ d \in 0..1 /\ f \in -1..1 /\ f1 \in -1..1 /\ g \in 0..1
        /\ e1 = e /\ d1 = d
    BY <1>1, Drift
  <2>2. f1 + k >= f + 1 /\ g1 = g
    BY <1>1, DriftOfWrites
  <2>3. e # 0 => k >= 1
    BY Busy DEF Excess, Leaving, Joining
  <2>4. NumberOfRows \in Nat /\ NumberOfMembers \in Nat /\ Slack \in Nat /\ n1 \in Nat /\ m1 \in Nat
        /\ b1 \in Nat /\ z \in Nat /\ memberCnt \in Nat /\ MaxMembers \in Nat
    BY Sizes, SizesPrimed
  <2> HIDE DEF n1, m1, b1, e, e1, d, d1, f, f1, g, g1, k, z
  <2>5. /\ n1 <= z + 1 + b1 + e1
        /\ z + 1 <= m1 + b1 + d1
    BY <1>2, <1>4, <1>5, <1>6, <2>1, <2>4 DEF e, d, z
  <2>6. /\ n1 <= memberCnt + b1 + f1
        /\ memberCnt <= m1 + b1 + g1
    BY <1>2, <1>4, <1>5, <1>7, <2>1, <2>2, <2>4 DEF f, g
  <2>7. n1 <= MaxMembers + b1
    BY <1>2, <1>4, <1>5, <1>6, <2>1, <2>3, <2>4 DEF e, z
  <2> QED BY <1>1, <1>2, <2>5, <2>6, <2>7
          DEF SeenMatches, CountsMatch, n1, m1, b1, e1, d1, f1, g1, z
<1> QED BY <1>8, <1>9

\* A session that has come to its end has nothing left to count.
LEMMA AfterTheEnd ==
  ASSUME GroupsTypeOK, NEW s \in Sessions, Goto(s, "idle")
  PROVE  /\ Excess(Sessions)' = Excess(Sessions \ {s})
         /\ Deficit(Sessions)' = Deficit(Sessions \ {s})
         /\ SeenMatches(s)'
<1>1. pc'[s] = "idle" /\ \A t \in Sessions : t # s => pc'[t] = pc[t]
  BY DEF Goto, GroupsTypeOK
<1>2. /\ Leaving(Sessions)' <=> Leaving(Sessions \ {s})
      /\ Joining(Sessions)' <=> Joining(Sessions \ {s})
      /\ Founding(Sessions)' <=> Founding(Sessions \ {s})
  BY <1>1 DEF Leaving, Joining, Founding
<1>3. SeenMatches(s)'
  BY <1>1 DEF SeenMatches
<1> QED BY <1>2, <1>3 DEF Excess, Deficit

LEMMA SameRows ==
  ASSUME rows' = rows
  PROVE  NumberOfRows' = NumberOfRows /\ NumberOfMembers' = NumberOfMembers
BY DEF NumberOfRows, RowSet, NumberOfMembers, MembersIn

\* The slack grows with every write by the number of those it meets, and with
\* every fault by one.
LEMMA SlackStep ==
  ASSUME GroupsTypeOK, GroupsTypeOK', NEW k \in Nat,
         \/ overlaps' = overlaps + k /\ faults' = faults
         \/ overlaps' = overlaps /\ faults' = faults + k
  PROVE  Slack' = Slack + k
<1>1. overlaps \in Nat /\ faults \in Nat
  BY GroupsAssumption DEF GroupsTypeOK
<1> QED BY <1>1, SizesPrimed DEF Slack

LEMMA WriteCountCounts ==
  ASSUME GroupsTypeOK, GroupsTypeOK', CountInv, NEW s \in Sessions, WriteCount(s)
  PROVE  CountsMatch' /\ \A t \in Sessions : SeenMatches(t)'
<1> DEFINE k == Cardinality(Others(s))
<1>1. /\ pc[s] = "joinCount" /\ Goto(s, "idle") /\ "idle" \in Statement
      /\ rows' = rows /\ memberCnt' = seen[s] + 1 /\ seen' = seen
      /\ overlaps' = overlaps + k /\ faults' = faults
  BY DEF WriteCount, Joined, Step, Writes, Statement
<1>2. k \in Nat /\ NumberOfRows' = NumberOfRows /\ NumberOfMembers' = NumberOfMembers
      /\ Slack' = Slack + k
  BY <1>1, Busy, SameRows, SlackStep
<1>3. ASSUME NEW t \in Sessions, t # s PROVE SeenMatches(t)'
  <2> DEFINE e == Excess(Sessions \ {t})  e1 == Excess(Sessions \ {t})'
             d == Deficit(Sessions \ {t})  d1 == Deficit(Sessions \ {t})'
  <2>1. e \in -1..1 /\ e1 \in -1..1 /\ d \in 0..1 /\ d1 \in 0..1 /\ e1 + 1 >= e /\ d1 + 1 >= d
    BY <1>1, Drift
  <2>2. pc[t] # "idle" => k >= 1
    BY <1>3, Busy
  <2>3. SeenMatches(t) /\ seen'[t] = seen[t]
    BY <1>1 DEF CountInv
  <2>4. NumberOfRows \in Nat /\ NumberOfMembers \in Nat /\ Slack \in Nat
    BY Sizes
  <2> HIDE DEF e, e1, d, d1, k
  <2>5. pc[t] = "idle" \/
          /\ NumberOfRows + Slack + e <= NumberOfRows + (Slack + k) + e1
          /\ NumberOfMembers + Slack + d <= NumberOfMembers + (Slack + k) + d1
    BY <1>2, <2>1, <2>2, <2>4
  <2> QED BY <1>1, <1>2, <1>3, <2>3, <2>5, OthersSeen DEF e, e1, d, d1
<1>4. CountsMatch'
  <2> DEFINE e == Excess(Sessions \ {s})  d == Deficit(Sessions \ {s})
  <2>1. e \in -1..1 /\ d \in 0..1 /\ Excess(Sessions)' = e /\ Deficit(Sessions)' = d
    BY <1>1, Drift, AfterTheEnd
  <2>2. /\ NumberOfRows <= seen[s] + 1 + Slack + e
        /\ seen[s] + 1 <= NumberOfMembers + Slack + d
        /\ NumberOfRows <= MaxMembers + Slack
    BY <1>1 DEF CountInv, SeenMatches, CountsMatch
  <2>3. NumberOfRows \in Nat /\ NumberOfMembers \in Nat /\ Slack \in Nat /\ seen[s] \in Nat
        /\ MaxMembers \in Nat
    BY Sizes
  <2> HIDE DEF e, d, k
  <2>4. /\ NumberOfRows <= (seen[s] + 1) + (Slack + k) + e
        /\ seen[s] + 1 <= NumberOfMembers + (Slack + k) + d
        /\ NumberOfRows <= MaxMembers + (Slack + k)
    BY <1>2, <2>1, <2>2, <2>3
  <2> QED BY <1>1, <1>2, <2>1, <2>4 DEF CountsMatch
<1> QED BY <1>1, <1>3, <1>4, AfterTheEnd

LEMMA CountDownCounts ==
  ASSUME GroupsTypeOK, GroupsTypeOK', CountInv, NEW s \in Sessions, CountDown(s)
  PROVE  CountsMatch' /\ \A t \in Sessions : SeenMatches(t)'
<1> DEFINE k == Cardinality(Others(s))
<1>1. /\ pc[s] = "leaveCount" /\ Goto(s, "idle") /\ "idle" \in Statement
      /\ rows' = rows /\ memberCnt' = Left(memberCnt) /\ seen' = seen
      /\ overlaps' = overlaps + k /\ faults' = faults
  BY DEF CountDown, Step, Writes, Statement
<1>2. k \in Nat /\ NumberOfRows' = NumberOfRows /\ NumberOfMembers' = NumberOfMembers
      /\ Slack' = Slack + k
  BY <1>1, Busy, SameRows, SlackStep
<1>3. ASSUME NEW t \in Sessions, t # s PROVE SeenMatches(t)'
  <2> DEFINE e == Excess(Sessions \ {t})  e1 == Excess(Sessions \ {t})'
             d == Deficit(Sessions \ {t})  d1 == Deficit(Sessions \ {t})'
  <2>1. e \in -1..1 /\ e1 \in -1..1 /\ d \in 0..1 /\ d1 \in 0..1 /\ e1 + 1 >= e /\ d1 + 1 >= d
    BY <1>1, Drift
  <2>2. pc[t] # "idle" => k >= 1
    BY <1>3, Busy
  <2>3. SeenMatches(t) /\ seen'[t] = seen[t]
    BY <1>1 DEF CountInv
  <2>4. NumberOfRows \in Nat /\ NumberOfMembers \in Nat /\ Slack \in Nat
    BY Sizes
  <2> HIDE DEF e, e1, d, d1, k
  <2>5. pc[t] = "idle" \/
          /\ NumberOfRows + Slack + e <= NumberOfRows + (Slack + k) + e1
          /\ NumberOfMembers + Slack + d <= NumberOfMembers + (Slack + k) + d1
    BY <1>2, <2>1, <2>2, <2>4
  <2> QED BY <1>1, <1>2, <1>3, <2>3, <2>5, OthersSeen DEF e, e1, d, d1
<1>4. CountsMatch'
  <2> DEFINE f == Excess(Sessions)  f1 == Excess(Sessions)'
             g == Deficit(Sessions)  g1 == Deficit(Sessions)'
             c1 == Left(memberCnt)
  <2>1. f \in -1..1 /\ f1 \in -1..1 /\ g \in 0..1 /\ g1 \in 0..1 /\ f1 + k >= f + 1
    BY <1>1, Drift, DriftOfWrites
  <2>2. /\ NumberOfRows <= memberCnt + Slack + f
        /\ memberCnt <= NumberOfMembers + Slack + g
        /\ NumberOfRows <= MaxMembers + Slack
    BY DEF CountInv, CountsMatch
  <2>3. NumberOfRows \in Nat /\ NumberOfMembers \in Nat /\ Slack \in Nat /\ memberCnt \in Nat
        /\ MaxMembers \in Nat
    BY Sizes
  <2>4. c1 \in Nat /\ memberCnt <= c1 + 1 /\ (c1 = 0 \/ c1 + 1 = memberCnt)
    BY <2>3 DEF Left
  <2> HIDE DEF f, f1, g, g1, c1, k
  <2>5. /\ NumberOfRows <= c1 + (Slack + k) + f1
        /\ c1 <= NumberOfMembers + (Slack + k) + g1
        /\ NumberOfRows <= MaxMembers + (Slack + k)
    BY <1>2, <2>1, <2>2, <2>3, <2>4
  <2> QED BY <1>1, <1>2, <2>5 DEF CountsMatch, f1, g1, c1
<1> QED BY <1>1, <1>3, <1>4, AfterTheEnd

LEMMA LeaveGroupCounts ==
  ASSUME GroupsTypeOK, GroupsTypeOK', CountInv, NEW s \in Sessions, LeaveGroup(s)
  PROVE  CountsMatch' /\ \A t \in Sessions : SeenMatches(t)'
<1> DEFINE k == Cardinality(Others(s))
           n1 == NumberOfRows'  m1 == NumberOfMembers'
           u == UserOf[s]
<1>1. /\ pc[s] = "idle" /\ Goto(s, "leaveCount") /\ "leaveCount" \in Statement
      /\ rows[u] > 0 /\ rows' = [rows EXCEPT ![u] = 0] /\ memberCnt' = memberCnt /\ seen' = seen
      /\ overlaps' = overlaps + k /\ faults' = faults
  BY DEF LeaveGroup, Begin, Writes, Statement
<1>2. k \in Nat /\ Slack' = Slack + k /\ pc'[s] = "leaveCount"
  BY <1>1, Busy, SlackStep DEF Goto, GroupsTypeOK
<1>3. u \in Users /\ rows \in [Users -> Nat]
  BY Sizes DEF GroupsTypeOK
<1>4. n1 + 1 <= NumberOfRows /\ m1 + 1 = NumberOfMembers
  <2>1. /\ Cardinality(RowsIn(rows')) + 1 <= Cardinality(RowsIn(rows))
        /\ Cardinality(MembersIn(rows')) + 1 = Cardinality(MembersIn(rows))
    BY <1>1, <1>3, Deletion
  <2> QED BY <2>1, Sizes, SizesPrimed DEF NumberOfMembers
<1>5. NumberOfRows \in Nat /\ NumberOfMembers \in Nat /\ Slack \in Nat /\ memberCnt \in Nat
      /\ n1 \in Nat /\ m1 \in Nat /\ MaxMembers \in Nat
  BY Sizes, SizesPrimed
<1>6. ASSUME NEW t \in Sessions, t # s PROVE SeenMatches(t)'
  <2> DEFINE e == Excess(Sessions \ {t})  e1 == Excess(Sessions \ {t})'
             d == Deficit(Sessions \ {t})  d1 == Deficit(Sessions \ {t})'
  <2>1. e \in -1..1 /\ e1 \in -1..1 /\ d \in 0..1 /\ d1 \in 0..1
    BY <1>1, Drift
  <2>2. e1 + k + 1 >= e /\ d1 + k >= d + 1
    BY <1>1, <1>6, DriftOfWrites
  <2>3. SeenMatches(t) /\ seen'[t] = seen[t]
    BY <1>1 DEF CountInv
  <2>4. ~(rows[UserOf[t]] = 0 /\ rows'[UserOf[t]] # 0)
    BY <1>1, <1>3, Sizes
  <2> HIDE DEF e, e1, d, d1, k, n1, m1
  <2>5. /\ n1 + Slack + e <= NumberOfRows + (Slack + k) + e1
        /\ NumberOfMembers + Slack + d <= m1 + (Slack + k) + d1
    BY <1>2, <1>4, <1>5, <2>1, <2>2
  <2> QED BY <1>1, <1>2, <1>6, <2>3, <2>4, <2>5, OthersSeen DEF e, e1, d, d1, n1, m1
<1>7. CountsMatch'
  <2> DEFINE f == Excess(Sessions)  f1 == Excess(Sessions)'
             g == Deficit(Sessions)  g1 == Deficit(Sessions)'
  <2>1. f \in -1..1 /\ f1 \in -1..1 /\ g \in 0..1 /\ g1 \in 0..1
        /\ f1 + k + 1 >= f /\ g1 + k >= g + 1
    BY <1>1, Drift, DriftOfWrites
  <2>2. /\ NumberOfRows <= memberCnt + Slack + f
        /\ memberCnt <= NumberOfMembers + Slack + g
        /\ NumberOfRows <= MaxMembers + Slack
    BY DEF CountInv, CountsMatch
  <2> HIDE DEF f, f1, g, g1, k, n1, m1
  <2>3. /\ n1 <= memberCnt + (Slack + k) + f1
        /\ memberCnt <= m1 + (Slack + k) + g1
        /\ n1 <= MaxMembers + (Slack + k)
    BY <1>2, <1>4, <1>5, <2>1, <2>2
  <2> QED BY <1>1, <1>2, <2>3 DEF CountsMatch, f1, g1, n1, m1
<1>8. SeenMatches(s)'
  BY <1>2 DEF SeenMatches
<1> QED BY <1>6, <1>7, <1>8

LEMMA FailureCounts ==
  ASSUME GroupsTypeOK, GroupsTypeOK', CountInv, NEW s \in Sessions, StatementFails(s)
  PROVE  CountsMatch' /\ \A t \in Sessions : SeenMatches(t)'
<1>1. PICK l \in {"create", "idle"} :
        /\ Goto(s, l) /\ l \in Statement
        /\ l = "create" => pc[s] = "existing" /\ seen[s] < MaxMembers
  BY DEF StatementFails, HasPlace, Statement
<1>2. /\ rows' = rows /\ memberCnt' = memberCnt /\ seen' = seen
      /\ overlaps' = overlaps /\ faults' = faults + 1
  BY DEF StatementFails, FaultHappens
<1>3. NumberOfRows' = NumberOfRows /\ NumberOfMembers' = NumberOfMembers /\ Slack' = Slack + 1
  BY <1>2, SameRows, SlackStep
<1>4. NumberOfRows \in Nat /\ NumberOfMembers \in Nat /\ Slack \in Nat /\ memberCnt \in Nat
      /\ MaxMembers \in Nat /\ seen[s] \in Nat
  BY Sizes
<1>5. ASSUME NEW t \in Sessions, t # s PROVE SeenMatches(t)'
  <2> DEFINE e == Excess(Sessions \ {t})  e1 == Excess(Sessions \ {t})'
             d == Deficit(Sessions \ {t})  d1 == Deficit(Sessions \ {t})'
  <2>1. e \in -1..1 /\ e1 \in -1..1 /\ d \in 0..1 /\ d1 \in 0..1 /\ e1 + 1 >= e /\ d1 + 1 >= d
    BY <1>1, Drift
  <2>2. SeenMatches(t) /\ seen'[t] = seen[t]
    BY <1>2 DEF CountInv
  <2> HIDE DEF e, e1, d, d1
  <2>3. /\ NumberOfRows + Slack + e <= NumberOfRows + (Slack + 1) + e1
        /\ NumberOfMembers + Slack + d <= NumberOfMembers + (Slack + 1) + d1
    BY <1>4, <2>1
  <2> QED BY <1>1, <1>2, <1>3, <1>5, <2>2, <2>3, OthersSeen DEF e, e1, d, d1
<1>6. CountsMatch'
  <2> DEFINE f == Excess(Sessions)  f1 == Excess(Sessions)'
             g == Deficit(Sessions)  g1 == Deficit(Sessions)'
  <2>1. f \in -1..1 /\ f1 \in -1..1 /\ g \in 0..1 /\ g1 \in 0..1 /\ f1 + 1 >= f /\ g1 + 1 >= g
    BY <1>1, Drift
  <2>2. /\ NumberOfRows <= memberCnt + Slack + f
        /\ memberCnt <= NumberOfMembers + Slack + g
        /\ NumberOfRows <= MaxMembers + Slack
    BY DEF CountInv, CountsMatch
  <2> HIDE DEF f, f1, g, g1
  <2>3. /\ NumberOfRows <= memberCnt + (Slack + 1) + f1
        /\ memberCnt <= NumberOfMembers + (Slack + 1) + g1
        /\ NumberOfRows <= MaxMembers + (Slack + 1)
    BY <1>4, <2>1, <2>2
  <2> QED BY <1>2, <1>3, <2>3 DEF CountsMatch, f1, g1
<1>7. SeenMatches(s)'
  <2>1. CASE l = "idle"
    BY <1>1, <2>1, AfterTheEnd
  <2>2. CASE l = "create"
    <3> DEFINE e == Excess(Sessions \ {s})  d == Deficit(Sessions \ {s})
    <3>1. pc[s] = "existing" /\ pc'[s] = "create" /\ seen[s] < MaxMembers
      BY <1>1, <2>2 DEF Goto, GroupsTypeOK
    <3>2. e \in -1..1 /\ d \in 0..1 /\ Excess(Sessions \ {s})' = e /\ Deficit(Sessions \ {s})' = d
      BY <1>1, Drift
    <3>3. NumberOfRows <= seen[s] + Slack + e /\ seen[s] <= NumberOfMembers + Slack + d
      BY <3>1 DEF CountInv, SeenMatches
    <3> HIDE DEF e, d
    <3>4. /\ NumberOfRows <= seen[s] + (Slack + 1) + e
          /\ seen[s] <= NumberOfMembers + (Slack + 1) + d
          /\ seen[s] + 1 <= NumberOfMembers + (Slack + 1) + d
      BY <1>4, <3>2, <3>3
    <3> QED BY <1>2, <1>3, <3>1, <3>2, <3>4 DEF SeenMatches
  <2> QED BY <2>1, <2>2
<1> QED BY <1>5, <1>6, <1>7

LEMMA RestartCounts ==
  ASSUME GroupsTypeOK, GroupsTypeOK', CountInv, Restart
  PROVE  CountsMatch' /\ \A t \in Sessions : SeenMatches(t)'
<1>1. /\ rows' = rows /\ memberCnt' = memberCnt
      /\ overlaps' = overlaps /\ faults' = faults + 1
      /\ \A t \in Sessions : pc'[t] = "idle"
  BY DEF Restart, FaultHappens
<1>2. NumberOfRows' = NumberOfRows /\ NumberOfMembers' = NumberOfMembers /\ Slack' = Slack + 1
  BY <1>1, SameRows, SlackStep
<1>3. Excess(Sessions)' = 0 /\ Deficit(Sessions)' = 0
  BY <1>1 DEF Excess, Deficit, Leaving, Joining, Founding
<1>4. \A t \in Sessions : SeenMatches(t)'
  BY <1>1 DEF SeenMatches
<1>5. CountsMatch'
  <2> DEFINE f == Excess(Sessions)  g == Deficit(Sessions)
  <2>1. f \in -1..1 /\ g \in 0..1
    BY DEF Excess, Deficit
  <2>2. /\ NumberOfRows <= memberCnt + Slack + f
        /\ memberCnt <= NumberOfMembers + Slack + g
        /\ NumberOfRows <= MaxMembers + Slack
    BY DEF CountInv, CountsMatch
  <2>3. NumberOfRows \in Nat /\ NumberOfMembers \in Nat /\ Slack \in Nat /\ memberCnt \in Nat
        /\ MaxMembers \in Nat
    BY Sizes
  <2> HIDE DEF f, g
  <2>4. /\ NumberOfRows <= memberCnt + (Slack + 1) + 0
        /\ memberCnt <= NumberOfMembers + (Slack + 1) + 0
        /\ NumberOfRows <= MaxMembers + (Slack + 1)
    BY <2>1, <2>2, <2>3
  <2> QED BY <1>1, <1>2, <1>3, <2>4 DEF CountsMatch
<1> QED BY <1>4, <1>5

LEMMA CreationCounts ==
  ASSUME GroupsTypeOK, GroupsTypeOK', CountInv, CreateGroup \/ CreateOwner
  PROVE  CountsMatch' /\ \A t \in Sessions : SeenMatches(t)'
<1>1. BeforeItIsKnown
  BY DEF CountInv
<1>2. group # "known"
  BY <1>1, GroupsAssumption DEF CreateGroup, CreateOwner, Step, BeforeItIsKnown
<1>3. \A t \in Sessions : pc'[t] \in {"idle", "createOwner"}
  BY <1>1, <1>2 DEF CreateGroup, CreateOwner, Step, Goto, BeforeItIsKnown, GroupsTypeOK
<1>4. \A t \in Sessions : SeenMatches(t)'
  BY <1>3 DEF SeenMatches
<1>5. Excess(Sessions)' = 0 /\ Deficit(Sessions)' \in 0..1
  BY <1>3 DEF Excess, Leaving, Joining, Deficit
<1>6. NumberOfRows = 0 /\ NumberOfMembers = 0
  BY <1>1, <1>2, Founded
<1>7. overlaps' = overlaps /\ faults' = faults
  BY DEF CreateGroup, CreateOwner, Step
<1>8. Slack' = Slack /\ Slack \in Nat /\ MaxMembers \in Nat /\ MaxMembers >= 1
  BY <1>7, Sizes DEF Slack
<1>9. CASE CreateGroup
  <2>1. rows' = rows /\ memberCnt' = 1 /\ pc'[Founder] = "createOwner" /\ Founder \in Sessions
    BY <1>9, GroupsAssumption DEF CreateGroup, Goto, GroupsTypeOK
  <2>2. NumberOfRows' = 0 /\ NumberOfMembers' = 0
    BY <1>6, <2>1, SameRows
  <2>3. Deficit(Sessions)' = 1
    BY <2>1 DEF Deficit, Founding
  <2>4. 0 <= 1 + Slack + 0 /\ 1 <= 0 + Slack + 1 /\ 0 <= MaxMembers + Slack
    BY <1>8
  <2> QED BY <1>4, <1>5, <1>8, <2>1, <2>2, <2>3, <2>4 DEF CountsMatch
<1>10. CASE CreateOwner
  <2>1. /\ rows' = [rows EXCEPT ![OwnerQQ] = @ + 1] /\ memberCnt' = memberCnt
        /\ pc[Founder] = "createOwner"
    BY <1>10 DEF CreateOwner, Step
  <2>2. memberCnt = 1 /\ OwnerQQ \in Users /\ rows[OwnerQQ] = 0 /\ rows \in [Users -> Nat]
    BY <1>1, <1>2, <2>1, GroupsAssumption DEF BeforeItIsKnown, OwnerQQ, GroupsTypeOK
  <2>3. NumberOfRows' = 1 /\ NumberOfMembers' = 1
    <3>1. /\ Cardinality(RowsIn(rows')) = Cardinality(RowsIn(rows)) + 1
          /\ Cardinality(MembersIn(rows')) = Cardinality(MembersIn(rows)) + 1
      <4>1. PICK u \in Users : u = OwnerQQ
        BY <2>2
      <4>2. rows' = [rows EXCEPT ![u] = @ + 1] /\ rows \in [Users -> Nat]
        BY <2>1, <2>2, <4>1
      <4>3. /\ Cardinality(RowsIn(rows')) = Cardinality(RowsIn(rows)) + 1
            /\ Cardinality(MembersIn(rows'))
                 = IF rows[u] = 0 THEN Cardinality(MembersIn(rows)) + 1
                                  ELSE Cardinality(MembersIn(rows))
        BY <4>2, Insertion
      <4> QED BY <2>2, <4>1, <4>3
    <3> QED BY <1>6, <3>1, Sizes, SizesPrimed DEF NumberOfMembers
  <2> DEFINE g1 == Deficit(Sessions)'
  <2>4. g1 \in 0..1
    BY <1>5
  <2> HIDE DEF g1
  <2>5. 1 <= 1 + Slack + 0 /\ 1 <= 1 + Slack + g1 /\ 1 <= MaxMembers + Slack
    BY <1>8, <2>4
  <2> QED BY <1>4, <1>5, <1>8, <2>1, <2>2, <2>3, <2>5 DEF CountsMatch, g1
<1> QED BY <1>9, <1>10

LEMMA CountStep ==
  ASSUME GroupsTypeOK, CountInv, [Next]_vars
  PROVE  CountInv'
<1>1. GroupsTypeOK' /\ BeforeItIsKnown'
  BY TypeStep, BeforeItIsKnownStep DEF CountInv
<1>2. CASE UNCHANGED vars
  <2>1. CountsMatch'
    BY <1>2 DEF vars, CountInv, CountsMatch, NumberOfRows, RowSet, NumberOfMembers, MembersIn,
                Slack, Excess, Deficit, Leaving, Joining, Founding
  <2>2. ASSUME NEW t \in Sessions PROVE SeenMatches(t)'
    BY <1>2 DEF vars, CountInv, SeenMatches, NumberOfRows, RowSet, NumberOfMembers, MembersIn,
                Slack, Excess, Deficit, Leaving, Joining, Founding
  <2> QED BY <1>1, <2>1, <2>2 DEF CountInv
<1>3. CASE Next
  <2>1. CountsMatch' /\ \A t \in Sessions : SeenMatches(t)'
    BY <1>1, <1>3, CreationCounts, RestartCounts, ReadStep, CreateMemberCounts, WriteCountCounts,
       LeaveGroupCounts, CountDownCounts, FailureCounts DEF Next
  <2> QED BY <1>1, <2>1 DEF CountInv
<1> QED BY <1>2, <1>3

LEMMA CountInit == Init => CountInv
<1> SUFFICES ASSUME Init PROVE CountInv
  OBVIOUS
<1>1. GroupsTypeOK
  BY TypeInit
<1>2. BeforeItIsKnown
  BY DEF Init, BeforeItIsKnown
<1>3. NumberOfRows = 0 /\ NumberOfMembers = 0
  BY <1>1, <1>2, Founded DEF Init
<1>4. Excess(Sessions) = 0 /\ Deficit(Sessions) = 0
  BY DEF Init, Excess, Deficit, Leaving, Joining, Founding
<1>5. memberCnt = 0 /\ Slack \in Nat /\ MaxMembers \in Nat
  BY <1>1, Sizes DEF Init
<1>6. CountsMatch
  BY <1>3, <1>4, <1>5 DEF CountsMatch
<1>7. \A t \in Sessions : SeenMatches(t)
  BY DEF Init, SeenMatches
<1> QED BY <1>2, <1>6, <1>7 DEF CountInv

LEMMA CountInvHolds == Spec => [](GroupsTypeOK /\ CountInv)
<1>1. Init => GroupsTypeOK /\ CountInv
  BY TypeInit, CountInit
<1>2. GroupsTypeOK /\ CountInv /\ [Next]_vars => GroupsTypeOK' /\ CountInv'
  BY TypeStep, CountStep
<1> QED BY <1>1, <1>2, PTL DEF Spec

\* When no handler is under way the cached count is the number of rows, but for
\* one for every write that met another handler, and one for every fault.
THEOREM CountAgreesHolds == Spec => []CountAgrees
<1>1. GroupsTypeOK /\ CountInv => CountAgrees
  <2> SUFFICES ASSUME GroupsTypeOK, CountInv, Quiet
               PROVE  /\ NumberOfRows <= memberCnt + overlaps + faults
                      /\ memberCnt <= NumberOfRows + overlaps + faults
    BY DEF CountAgrees
  <2>1. Excess(Sessions) = 0 /\ Deficit(Sessions) = 0
    BY DEF Quiet, Excess, Deficit, Leaving, Joining, Founding
  <2>2. /\ NumberOfRows <= memberCnt + Slack + 0
        /\ memberCnt <= NumberOfMembers + Slack + 0
    BY <2>1 DEF CountInv, CountsMatch
  <2>3. overlaps \in Nat /\ faults \in Nat /\ Slack = overlaps + faults
    BY GroupsAssumption DEF GroupsTypeOK, Slack
  <2> QED BY <2>2, <2>3, Sizes
<1> QED BY <1>1, CountInvHolds, PTL

\* The capacity is exceeded by one for every write of overlapping handlers and
\* for every fault at most, although it is tested on a count read earlier.
THEOREM CapacityHolds == Spec => []CapacityKept
<1>1. GroupsTypeOK /\ CountInv => CapacityKept
  <2> SUFFICES ASSUME GroupsTypeOK, CountInv
               PROVE  NumberOfRows <= MaxMembers + overlaps + faults
    BY DEF CapacityKept
  <2>1. NumberOfRows <= MaxMembers + Slack
    BY DEF CountInv, CountsMatch
  <2>2. overlaps \in Nat /\ faults \in Nat /\ Slack = overlaps + faults
    BY GroupsAssumption DEF GroupsTypeOK, Slack
  <2> QED BY <2>1, <2>2, Sizes
<1> QED BY <1>1, CountInvHolds, PTL
=============================================================================
