--------------------------- MODULE AccountsProofs ----------------------------
(***************************************************************************)
(* Theorems about Accounts.tla, for every set of terminals and passwords,   *)
(* any number of accounts, tokens and faults, with a JWT secret that is     *)
(* kept or drawn anew.                                                      *)
(***************************************************************************)
EXTENDS Accounts, FiniteSetTheorems, TLAPS

-----------------------------------------------------------------------------
(* The types.                                                              *)

\* The number of a row is a number, not the 0 of a row that has none yet.
LEMMA NumberFacts ==
  /\ \A i \in Ids : NumberOf(i) \in Numbers /\ NumberOf(i) # 0
  /\ 0 \notin Numbers
  /\ Ids \subseteq Nat
BY AccountsAssumption DEF Numbers, NumberOf, QQNumberBase, Ids

\* Different rows have different numbers.
LEMMA NumbersDiffer == \A i, j \in Ids : NumberOf(i) = NumberOf(j) => i = j
BY AccountsAssumption DEF NumberOf, QQNumberBase, Ids

\* A row that RowOf finds is one that was inserted, and has its own number or 0.
LEMMA RowFacts ==
  ASSUME AccountsTypeOK, NEW q \in Numbers \cup {0}, NEW i \in RowOf(q)
  PROVE  /\ i \in Ids /\ i \in 1..count /\ password[i] \in Passwords
         /\ number[i] = q /\ q \in {0, NumberOf(i)}
BY AccountsAssumption, NumberFacts DEF AccountsTypeOK, RowOf, Ids

\* Drawing a token for a row keeps the types of what was given away.
LEMMA IssueFacts ==
  ASSUME AccountsTypeOK, NEW i \in Ids, NEW q \in Numbers \cup {0},
         NEW p \in Passwords, NEW late \in BOOLEAN, Issue(i, q, p, late)
  PROVE  /\ issued' \in Seq(RefreshToken)
         /\ Len(issued') = Len(issued) + 1 /\ Len(issued) \in Nat
         /\ \A t \in 1..Len(issued) : issued'[t] = issued[t]
         /\ issued'[Len(issued) + 1] = [id |-> i, proof |-> p, late |-> late]
         /\ access' \subseteq Numbers \cup {0}
<1>1. [id |-> i, proof |-> p, late |-> late] \in RefreshToken
  BY DEF RefreshToken
<1>2. issued \in Seq(RefreshToken)
  BY DEF AccountsTypeOK
<1>3. issued' = Append(issued, [id |-> i, proof |-> p, late |-> late])
  BY DEF Issue
<1>4. access' \subseteq Numbers \cup {0}
  BY NumberFacts DEF Issue, AccountsTypeOK
<1> QED BY <1>1, <1>2, <1>3, <1>4

\* What a handler in the middle of its statements knows.
LEMMA HandlerFacts ==
  ASSUME AccountsTypeOK, NEW c \in Conns, pc[c] # "idle"
  PROVE  /\ row[c] \in Ids /\ row[c] \in 1..count /\ proof[c] \in Passwords
         /\ pc[c] = "replace" => fresh[c] \in Passwords
         /\ as[c] \in Numbers \cup {0} /\ number[row[c]] \in {0, NumberOf(row[c])}
         /\ pc[c] = "find" => as[c] = NumberOf(row[c])
         /\ pc[c] = "token" => as[c] \in {0, number[row[c]]}
         /\ pc[c] = "replace" => as[c] # 0 /\ as[c] = number[row[c]]
<1>1. /\ row[c] \in 1..count /\ proof[c] \in Passwords /\ as[c] \in Numbers \cup {0}
      /\ pc[c] = "replace" => fresh[c] \in Passwords
      /\ pc[c] = "find" => as[c] = NumberOf(row[c])
      /\ pc[c] = "token" => as[c] \in {0, number[row[c]]}
      /\ pc[c] = "replace" => as[c] # 0 /\ as[c] = number[row[c]]
  BY DEF AccountsTypeOK
<1>2. row[c] \in Ids
  BY <1>1, AccountsAssumption DEF AccountsTypeOK, Ids
<1>3. number[row[c]] \in {0, NumberOf(row[c])}
  BY <1>2 DEF AccountsTypeOK
<1> QED BY <1>1, <1>2, <1>3

\* What a login and a change of the password give away.
LEMMA LoggedInFacts ==
  ASSUME AccountsTypeOK, NEW c \in Conns, pc[c] = "token", LoggedIn(c)
  PROVE  /\ issued' \in Seq(RefreshToken) /\ access' \subseteq Numbers \cup {0}
         /\ Len(issued') = Len(issued) + 1 /\ Len(issued) \in Nat
         /\ \A t \in 1..Len(issued) : issued'[t] = issued[t]
         /\ issued'[Len(issued) + 1] = [id |-> row[c], proof |-> proof[c], late |-> c \in overtaken]
<1>1. row[c] \in Ids /\ as[c] \in Numbers \cup {0} /\ proof[c] \in Passwords
  BY HandlerFacts
<1>2. (c \in overtaken) \in BOOLEAN
  OBVIOUS
<1>3. Issue(row[c], as[c], proof[c], c \in overtaken)
  BY DEF LoggedIn
<1> QED BY <1>1, <1>2, <1>3, IssueFacts

LEMMA ChangedFacts ==
  ASSUME AccountsTypeOK, NEW c \in Conns, pc[c] = "replace", Changed(c)
  PROVE  /\ issued' \in Seq(RefreshToken) /\ access' \subseteq Numbers \cup {0}
         /\ Len(issued') = Len(issued) + 1 /\ Len(issued) \in Nat
         /\ \A t \in 1..Len(issued) : issued'[t] = issued[t]
         /\ issued'[Len(issued) + 1] = [id |-> row[c], proof |-> fresh[c], late |-> FALSE]
<1>1. row[c] \in Ids /\ as[c] \in Numbers \cup {0} /\ fresh[c] \in Passwords
  BY HandlerFacts
<1>2. Issue(row[c], as[c], fresh[c], FALSE)
  BY DEF Changed
<1> QED BY <1>1, <1>2, IssueFacts

\* AccountsTypeOK in two parts: the types of a handler's locals, and the others.
HandlerTypeOK ==
  /\ pc \in [Conns -> Statement]
  /\ row \in [Conns -> Ids \cup {0}] /\ as \in [Conns -> Numbers \cup {0}]
  /\ proof \in [Conns -> Passwords \cup {None}] /\ fresh \in [Conns -> Passwords \cup {None}]
  /\ \A c \in Conns : pc[c] # "idle" =>
       /\ row[c] \in 1..count /\ proof[c] \in Passwords
       /\ pc[c] = "replace" => fresh[c] \in Passwords
       /\ pc[c] = "find" => as[c] = NumberOf(row[c])
       /\ pc[c] = "token" => as[c] \in {0, number[row[c]]}
       /\ pc[c] = "replace" => as[c] # 0 /\ as[c] = number[row[c]]

TableTypeOK ==
  /\ count \in 0..MaxRows
  /\ number \in [Ids -> Numbers \cup {0}]
  /\ \A i \in Ids : number[i] \in {0, NumberOf(i)} /\ (i > count => number[i] = 0)
  /\ password \in [Ids -> Passwords \cup {None}]
  /\ \A i \in 1..count : password[i] \in Passwords
  /\ issued \in Seq(RefreshToken)
  /\ refresh \in [Ids -> 0..Len(issued)]
  /\ stale \subseteq Ids
  /\ access \subseteq Numbers \cup {0}
  /\ qqOf \in [Conns -> Numbers \cup {0}]
  /\ overtaken \subseteq Conns
  /\ confirmed \in [Ids -> Passwords \cup {None}]
  /\ faults \in 0..MaxFaults

LEMMA TwoParts == AccountsTypeOK <=> TableTypeOK /\ HandlerTypeOK
BY DEF AccountsTypeOK, TableTypeOK, HandlerTypeOK

\* A handler goes on with a statement about a row that is there, while no row
\* goes away or loses its number.
LEMMA GotoTypes ==
  ASSUME HandlerTypeOK, NEW c \in Conns, NEW l \in Statement, NEW i \in Ids,
         NEW q \in Numbers \cup {0}, NEW p \in Passwords, NEW new \in Passwords \cup {None},
         Goto(c, l, i, q, p, new),
         count \in Nat, count' \in Nat, count <= count', i <= count', i \in Nat \ {0},
         \A k \in 1..count : number[k] # 0 => number'[k] = number[k],
         l = "replace" => new \in Passwords /\ q # 0 /\ q = number'[i],
         l = "token" => q \in {0, number'[i]},
         l = "find" => q = NumberOf(i)
  PROVE  HandlerTypeOK'
<1>1. /\ pc' \in [Conns -> Statement]
      /\ row' \in [Conns -> Ids \cup {0}] /\ as' \in [Conns -> Numbers \cup {0}]
      /\ proof' \in [Conns -> Passwords \cup {None}] /\ fresh' \in [Conns -> Passwords \cup {None}]
  BY DEF HandlerTypeOK, Goto
<1> DEFINE Sound(d) == /\ row'[d] \in 1..count' /\ proof'[d] \in Passwords
                       /\ pc'[d] = "replace" => fresh'[d] \in Passwords
                       /\ pc'[d] = "find" => as'[d] = NumberOf(row'[d])
                       /\ pc'[d] = "token" => as'[d] \in {0, number'[row'[d]]}
                       /\ pc'[d] = "replace" => as'[d] # 0 /\ as'[d] = number'[row'[d]]
<1>2. Sound(c)
  <2>1. pc'[c] = l /\ row'[c] = i /\ as'[c] = q /\ proof'[c] = p /\ fresh'[c] = new
    BY DEF HandlerTypeOK, Goto
  <2>2. i \in 1..count'
    OBVIOUS
  <2> QED BY <2>1, <2>2
<1>3. ASSUME NEW d \in Conns \ {c}, pc'[d] # "idle" PROVE Sound(d)
  <2>1. /\ pc'[d] = pc[d] /\ row'[d] = row[d] /\ as'[d] = as[d]
        /\ proof'[d] = proof[d] /\ fresh'[d] = fresh[d]
    BY DEF HandlerTypeOK, Goto
  <2>2. /\ row[d] \in 1..count /\ proof[d] \in Passwords
        /\ pc[d] = "replace" => fresh[d] \in Passwords
        /\ pc[d] = "find" => as[d] = NumberOf(row[d])
        /\ pc[d] = "token" => as[d] \in {0, number[row[d]]}
        /\ pc[d] = "replace" => as[d] # 0 /\ as[d] = number[row[d]]
    BY <1>3, <2>1 DEF HandlerTypeOK
  <2>3. row[d] \in 1..count' /\ (number[row[d]] # 0 => number'[row[d]] = number[row[d]])
    BY <2>2
  <2> QED BY <2>1, <2>2, <2>3
<1> HIDE DEF Sound
<1>4. \A d \in Conns : pc'[d] # "idle" => Sound(d)
  BY <1>2, <1>3
<1> QED BY <1>1, <1>4 DEF HandlerTypeOK, Sound

\* A handler returns.
LEMMA FinishTypes ==
  ASSUME HandlerTypeOK, NEW c \in Conns, Finish(c),
         count' = count, number' = number
  PROVE  HandlerTypeOK'
BY DEF HandlerTypeOK, Finish, Goto, Statement

\* A handler that is not under way has done nothing.
LEMMA SameTypes ==
  ASSUME HandlerTypeOK, UNCHANGED handler, count' = count, number' = number
  PROVE  HandlerTypeOK'
BY DEF HandlerTypeOK, handler

\* A statement of Register, Login, RefreshToken or ChangePassword, a fault and
\* the passing of time keep the types.
LEMMA TypeStep == AccountsTypeOK /\ [Next]_vars => AccountsTypeOK'
<1> SUFFICES ASSUME AccountsTypeOK, [Next]_vars PROVE TableTypeOK' /\ HandlerTypeOK'
  BY DEF AccountsTypeOK, TableTypeOK, HandlerTypeOK
<1>a. TableTypeOK /\ HandlerTypeOK
  BY TwoParts
<1>b. /\ count \in Nat
      /\ \A i \in Ids : i \in Nat \ {0}
      /\ {"number", "find", "token", "replace"} \subseteq Statement
      /\ None \in Passwords \cup {None}
  BY <1>a, AccountsAssumption DEF TableTypeOK, Ids, Statement
<1>1. ASSUME NEW c \in Conns, NEW p \in Passwords, RegisterCreate(c, p)
      PROVE TableTypeOK' /\ HandlerTypeOK'
  <2>1. count + 1 \in Ids /\ count' = count + 1 /\ UNCHANGED number
    BY <1>1, <1>b, AccountsAssumption DEF RegisterCreate, Ids
  <2>2. TableTypeOK'
    BY <1>1, <1>a, <2>1, AccountsAssumption DEF RegisterCreate, TableTypeOK, given, Ids
  <2>3. Goto(c, "number", count + 1, 0, p, None)
    BY <1>1 DEF RegisterCreate
  <2>4. HandlerTypeOK'
    BY <1>a, <1>b, <2>1, <2>3, GotoTypes
  <2> QED BY <2>2, <2>4
<1>2. ASSUME NEW c \in Conns, RegisterNumber(c) PROVE TableTypeOK' /\ HandlerTypeOK'
  <2>1. row[c] \in Ids /\ row[c] \in 1..count /\ proof[c] \in Passwords
    BY <1>2, HandlerFacts DEF RegisterNumber
  <2>2. TableTypeOK'
    <3>1. /\ number' = [number EXCEPT ![row[c]] = NumberOf(row[c])] /\ stale' = stale \ {row[c]}
          /\ confirmed' = [confirmed EXCEPT ![row[c]] = proof[c]]
          /\ UNCHANGED <<count, password, refresh, issued, access, qqOf, overtaken, faults>>
      BY <1>2 DEF RegisterNumber, Numbered, Announce
    <3>2. number' \in [Ids -> Numbers \cup {0}]
      BY <1>a, <2>1, <3>1, NumberFacts DEF TableTypeOK
    <3>3. \A i \in Ids : number'[i] \in {0, NumberOf(i)} /\ (i > count => number'[i] = 0)
      BY <1>a, <1>b, <2>1, <3>1 DEF TableTypeOK
    <3> QED BY <1>a, <2>1, <3>1, <3>2, <3>3 DEF TableTypeOK
  <2>3. count' = count /\ \A k \in 1..count : number[k] # 0 => number'[k] = number[k]
    <3>1. \A k \in 1..count : k \in Ids /\ number[k] \in {0, NumberOf(k)}
      BY <1>a, AccountsAssumption DEF TableTypeOK, Ids
    <3> QED BY <1>2, <1>a, <2>1, <3>1 DEF RegisterNumber, Numbered, TableTypeOK
  <2>4. Goto(c, "find", row[c], NumberOf(row[c]), proof[c], None)
    BY <1>2 DEF RegisterNumber, Announce
  <2>5. NumberOf(row[c]) \in Numbers \cup {0}
    BY <2>1, NumberFacts
  <2>6. HandlerTypeOK'
    BY <1>a, <1>b, <2>1, <2>3, <2>4, <2>5, GotoTypes
  <2> QED BY <2>2, <2>6
<1>3. ASSUME NEW c \in Conns, NEW q \in Numbers \cup {0}, NEW p \in Passwords, Login(c, q, p)
      PROVE TableTypeOK' /\ HandlerTypeOK'
  <2>1. TableTypeOK' /\ count' = count /\ number' = number
    BY <1>3, <1>a DEF Login, TableTypeOK, table, given
  <2>2. PICK i \in RowOf(q) : Goto(c, "token", i, q, p, None)
    BY <1>3 DEF Login
  <2>3. i \in Ids /\ i <= count /\ number[i] = q
    BY RowFacts
  <2>4. HandlerTypeOK'
    BY <1>a, <1>b, <2>1, <2>2, <2>3, GotoTypes
  <2> QED BY <2>1, <2>4
<1>4. ASSUME NEW c \in Conns, LoginRegistered(c) PROVE TableTypeOK' /\ HandlerTypeOK'
  <2>1. row[c] \in Ids /\ row[c] \in 1..count /\ proof[c] \in Passwords
    BY <1>4, HandlerFacts DEF LoginRegistered
  <2>2. TableTypeOK' /\ count' = count /\ number' = number
    BY <1>4, <1>a DEF LoginRegistered, TableTypeOK, table, given
  <2>3. CASE \E i \in RowOf(as[c]) : password[i] = proof[c]
    <3>1. as[c] \in Numbers \cup {0} /\ as[c] = NumberOf(row[c]) /\ as[c] # 0
      BY <1>4, <2>1, HandlerFacts, NumberFacts DEF LoginRegistered
    <3>3. as[c] = number[row[c]]
      BY <2>1, <2>3, <3>1, RowFacts, NumbersDiffer
    <3>2. Goto(c, "token", row[c], as[c], proof[c], None)
      BY <1>4, <2>3 DEF LoginRegistered
    <3> QED BY <1>a, <1>b, <2>1, <2>2, <3>1, <3>2, <3>3, GotoTypes
  <2>4. CASE ~ \E i \in RowOf(as[c]) : password[i] = proof[c]
    <3>1. Finish(c)
      BY <1>4, <2>4 DEF LoginRegistered
    <3> QED BY <1>a, <2>2, <3>1, FinishTypes
  <2> QED BY <2>3, <2>4
<1>5. ASSUME NEW c \in Conns, WriteToken(c) PROVE TableTypeOK' /\ HandlerTypeOK'
  <2>1. row[c] \in Ids
    BY <1>5, HandlerFacts DEF WriteToken
  <2>2. /\ issued' \in Seq(RefreshToken) /\ access' \subseteq Numbers \cup {0}
        /\ Len(issued') = Len(issued) + 1 /\ Len(issued) \in Nat
    BY <1>5, LoggedInFacts DEF WriteToken
  <2>3. refresh' \in [Ids -> 0..Len(issued')]
    <3>1. refresh' = [refresh EXCEPT ![row[c]] = Len(issued) + 1] /\ refresh \in [Ids -> 0..Len(issued)]
      BY <1>5, <1>a DEF WriteToken, StoreRefresh, TableTypeOK
    <3> QED BY <2>1, <2>2, <3>1
  <2>4. qqOf' \in [Conns -> Numbers \cup {0}]
    BY <1>5, <1>a, HandlerFacts DEF WriteToken, LoggedIn, TableTypeOK
  <2>5. TableTypeOK'
    BY <1>5, <1>a, <2>1, <2>2, <2>3, <2>4 DEF WriteToken, StoreRefresh, LoggedIn, TableTypeOK
  <2>6. Finish(c) /\ count' = count /\ number' = number
    BY <1>5 DEF WriteToken, LoggedIn
  <2> QED BY <1>a, <2>5, <2>6, FinishTypes
<1>6. ASSUME NEW c \in Conns, NEW q \in Numbers \cup {0}, LoginWithToken(c, q)
      PROVE TableTypeOK' /\ HandlerTypeOK'
  <2>1. TableTypeOK' /\ UNCHANGED handler /\ count' = count /\ number' = number
    BY <1>6, <1>a DEF LoginWithToken, TableTypeOK, table, given
  <2> QED BY <1>a, <2>1, SameTypes
<1>7. ASSUME NEW c \in Conns, NEW q \in Numbers \cup {0}, NEW t \in 0..Len(issued), RefreshAccess(c, q, t)
      PROVE TableTypeOK' /\ HandlerTypeOK'
  <2>1. TableTypeOK' /\ UNCHANGED handler /\ count' = count /\ number' = number
    BY <1>7, <1>a, AccountsAssumption DEF RefreshAccess, MayRefresh, TableTypeOK, table, Ids
  <2> QED BY <1>a, <2>1, SameTypes
<1>8. ASSUME NEW c \in Conns, NEW old \in Passwords, NEW new \in Passwords, ChangePassword(c, old, new)
      PROVE TableTypeOK' /\ HandlerTypeOK'
  <2>1. TableTypeOK' /\ count' = count /\ number' = number
    BY <1>8, <1>a DEF ChangePassword, TableTypeOK, table, given
  <2>2. PICK i \in RowOf(qqOf[c]) : qqOf[c] # 0 /\ Goto(c, "replace", i, qqOf[c], old, new)
    BY <1>8 DEF ChangePassword
  <2>3. qqOf[c] \in Numbers
    BY <1>a, <2>2 DEF TableTypeOK
  <2>4. i \in Ids /\ i <= count /\ number[i] = qqOf[c]
    BY <2>3, RowFacts
  <2>5. HandlerTypeOK'
    BY <1>a, <1>b, <2>1, <2>2, <2>3, <2>4, GotoTypes
  <2> QED BY <2>1, <2>5
<1>9. ASSUME NEW c \in Conns, WritePassword(c) PROVE TableTypeOK' /\ HandlerTypeOK'
  <2>1. row[c] \in Ids /\ fresh[c] \in Passwords
    BY <1>9, HandlerFacts DEF WritePassword
  <2>2. /\ issued' \in Seq(RefreshToken) /\ access' \subseteq Numbers \cup {0}
        /\ Len(issued') = Len(issued) + 1 /\ Len(issued) \in Nat
    BY <1>9, ChangedFacts DEF WritePassword
  <2>3. TableTypeOK'
    BY <1>9, <1>a, <2>1, <2>2
       DEF WritePassword, Replaced, NewHash, StoreRefresh, Changed, TableTypeOK
  <2>4. Finish(c) /\ count' = count /\ number' = number
    BY <1>9 DEF WritePassword, Changed
  <2> QED BY <1>a, <2>3, <2>4, FinishTypes
<1>10. ASSUME NEW c \in Conns, WriteFails(c) PROVE TableTypeOK' /\ HandlerTypeOK'
  <2>1. UNCHANGED <<count, number, password, refresh, stale>> /\ FaultHappens
    BY <1>10 DEF WriteFails, table
  <2>2. CASE pc[c] = "number"
    <3>1. row[c] \in Ids /\ row[c] \in 1..count /\ proof[c] \in Passwords
      BY <2>2, HandlerFacts
    <3>2. Announce(c) /\ UNCHANGED <<issued, access, qqOf, overtaken>>
      BY <1>10, <2>2 DEF WriteFails
    <3>3. TableTypeOK'
      BY <1>a, <2>1, <3>1, <3>2, AccountsAssumption DEF Announce, FaultHappens, TableTypeOK
    <3>4. Goto(c, "find", row[c], NumberOf(row[c]), proof[c], None)
      BY <3>2 DEF Announce
    <3>5. NumberOf(row[c]) \in Numbers \cup {0}
      BY <3>1, NumberFacts
    <3>6. HandlerTypeOK'
      BY <1>a, <1>b, <2>1, <3>1, <3>4, <3>5, GotoTypes
    <3> QED BY <3>3, <3>6
  <2>3. CASE pc[c] = "token"
    <3>1. LoggedIn(c) /\ UNCHANGED confirmed
      BY <1>10, <2>3 DEF WriteFails
    <3>2. row[c] \in Ids
      BY <2>3, HandlerFacts
    <3>3. /\ issued' \in Seq(RefreshToken) /\ access' \subseteq Numbers \cup {0}
          /\ Len(issued') = Len(issued) + 1 /\ Len(issued) \in Nat
      BY <2>3, <3>1, LoggedInFacts
    <3>4. refresh' \in [Ids -> 0..Len(issued')]
      BY <1>a, <2>1, <3>3 DEF TableTypeOK
    <3>5. qqOf' \in [Conns -> Numbers \cup {0}]
      BY <1>a, <2>3, <3>1, HandlerFacts DEF LoggedIn, TableTypeOK
    <3>6. TableTypeOK'
      <4>1. faults' \in 0..MaxFaults
        BY <1>a, <2>1, AccountsAssumption DEF FaultHappens, TableTypeOK
      <4>2. overtaken' \subseteq Conns
        BY <1>a, <3>1 DEF LoggedIn, TableTypeOK
      <4> QED BY <1>a, <2>1, <3>1, <3>3, <3>4, <3>5, <4>1, <4>2 DEF TableTypeOK
    <3> QED BY <1>a, <2>1, <3>1, <3>6, FinishTypes DEF LoggedIn
  <2>4. CASE pc[c] = "replace"
    <3>1. Changed(c) /\ UNCHANGED <<qqOf, overtaken>>
      BY <1>10, <2>4 DEF WriteFails
    <3>2. row[c] \in Ids /\ fresh[c] \in Passwords
      BY <2>4, HandlerFacts
    <3>3. /\ issued' \in Seq(RefreshToken) /\ access' \subseteq Numbers \cup {0}
          /\ Len(issued') = Len(issued) + 1 /\ Len(issued) \in Nat
      BY <2>4, <3>1, ChangedFacts
    <3>4. refresh' \in [Ids -> 0..Len(issued')]
      BY <1>a, <2>1, <3>3 DEF TableTypeOK
    <3>5. TableTypeOK'
      BY <1>a, <2>1, <3>1, <3>2, <3>3, <3>4, AccountsAssumption DEF FaultHappens, Changed, TableTypeOK
    <3> QED BY <1>a, <2>1, <3>1, <3>5, FinishTypes DEF Changed
  <2> QED BY <1>10, <2>2, <2>3, <2>4 DEF WriteFails
<1>11. ASSUME NEW c \in Conns, Disconnect(c) PROVE TableTypeOK' /\ HandlerTypeOK'
  <2>1. TableTypeOK' /\ UNCHANGED handler /\ count' = count /\ number' = number
    BY <1>11, <1>a DEF Disconnect, TableTypeOK, table, given
  <2> QED BY <1>a, <2>1, SameTypes
<1>12. ASSUME NEW q \in Numbers \cup {0}, AccessExpires(q) PROVE TableTypeOK' /\ HandlerTypeOK'
  <2>1. TableTypeOK' /\ UNCHANGED handler /\ count' = count /\ number' = number
    BY <1>12, <1>a DEF AccessExpires, TableTypeOK, table
  <2> QED BY <1>a, <2>1, SameTypes
<1>13. ASSUME NEW i \in Ids, RefreshExpires(i) PROVE TableTypeOK' /\ HandlerTypeOK'
  <2>1. TableTypeOK' /\ UNCHANGED handler /\ count' = count /\ number' = number
    BY <1>13, <1>a DEF RefreshExpires, TableTypeOK, given
  <2> QED BY <1>a, <2>1, SameTypes
<1>14. CASE Restart
  <2>1. TableTypeOK'
    BY <1>14, <1>a, AccountsAssumption DEF Restart, FaultHappens, TableTypeOK, table
  <2>2. HandlerTypeOK'
    BY <1>14 DEF Restart, HandlerTypeOK, Statement
  <2> QED BY <2>1, <2>2
<1>15. CASE UNCHANGED vars
  BY <1>15, <1>a DEF vars, table, given, handler, TableTypeOK, HandlerTypeOK
<1> QED BY <1>1, <1>2, <1>3, <1>4, <1>5, <1>6, <1>7, <1>8, <1>9, <1>10, <1>11, <1>12, <1>13,
           <1>14, <1>15 DEF Next, Handle, Receive

LEMMA TypeInit == Init => AccountsTypeOK
BY AccountsAssumption DEF Init, AccountsTypeOK, Statement, Ids

\* The rows, the tokens and the handlers of accounts keep their types.
THEOREM AccountsTypeCorrect == Spec => []AccountsTypeOK
BY TypeInit, TypeStep, PTL DEF Spec

-----------------------------------------------------------------------------
(* Who is logged in has an account.                                        *)

\* A number that a row has got is never taken away or changed.
LEMMA NumbersStay ==
  ASSUME AccountsTypeOK, [Next]_vars
  PROVE  count \in Nat /\ count <= count' /\ \A i \in 1..count : number[i] # 0 => number'[i] = number[i]
<1> USE DEF table, given
<1>1. /\ count \in Nat /\ count < count + 1
      /\ \A i \in 1..count : i \in Ids /\ number[i] \in {0, NumberOf(i)}
      /\ number \in [Ids -> Numbers \cup {0}]
  BY AccountsAssumption DEF AccountsTypeOK, Ids
<1>2. ASSUME NEW c \in Conns, NEW p \in Passwords, RegisterCreate(c, p)
      PROVE  count <= count' /\ number' = number
  BY <1>1, <1>2 DEF RegisterCreate
<1>3. ASSUME NEW c \in Conns, RegisterNumber(c)
      PROVE  count' = count /\ \A i \in 1..count : number[i] # 0 => number'[i] = number[i]
  <2>1. row[c] \in Ids
    BY <1>3, HandlerFacts DEF RegisterNumber
  <2> QED BY <1>1, <1>3, <2>1 DEF RegisterNumber, Numbered
<1>4. ASSUME NEW c \in Conns,
             LoginRegistered(c) \/ WriteToken(c) \/ WritePassword(c) \/ Disconnect(c) \/ WriteFails(c)
      PROVE  count' = count /\ number' = number
  BY <1>4 DEF LoginRegistered, WriteToken, WritePassword, Disconnect, WriteFails
<1>5. ASSUME NEW c \in Conns, Receive(c), ~ \E p \in Passwords : RegisterCreate(c, p)
      PROVE  count' = count /\ number' = number
  BY <1>5 DEF Receive, Login, LoginWithToken, RefreshAccess, ChangePassword
<1>6. ASSUME Restart \/ (\E q \in Numbers \cup {0} : AccessExpires(q)) \/ (\E i \in Ids : RefreshExpires(i))
      PROVE  count' = count /\ number' = number
  BY <1>6 DEF Restart, AccessExpires, RefreshExpires
<1>7. CASE UNCHANGED vars
  BY <1>1, <1>7 DEF vars
<1> QED BY <1>1, <1>2, <1>3, <1>4, <1>5, <1>6, <1>7 DEF Next, Handle

Known(q) == q = 0 \/ \E i \in 1..count : number[i] = q

\* A step adds to the valid tokens and to the numbers logged in only numbers
\* that are in the table.
LEMMA OnlyKnown ==
  ASSUME AccountsTypeOK, KnownAccounts, [Next]_vars
  PROVE  (\A q \in access' : Known(q)) /\ (\A d \in Conns : Known(qqOf'[d]))
<1>1. /\ \A q \in access : Known(q)
      /\ \A d \in Conns : Known(qqOf[d])
      /\ Known(0)
      /\ qqOf \in [Conns -> Numbers \cup {0}]
  BY DEF KnownAccounts, Known, AccountsTypeOK
<1> DEFINE NewKnown == (\A q \in access' : Known(q)) /\ (\A d \in Conns : Known(qqOf'[d]))
<1>2. ASSUME NEW c \in Conns, pc[c] \in {"token", "replace"}
      PROVE  Known(as[c])
  BY <1>2, HandlerFacts DEF Known
<1>3. ASSUME NEW c \in Conns, pc[c] = "token", LoggedIn(c) PROVE NewKnown
  BY <1>1, <1>2, <1>3 DEF LoggedIn, Issue
<1>4. ASSUME NEW c \in Conns, pc[c] = "replace", Changed(c), UNCHANGED qqOf PROVE NewKnown
  BY <1>1, <1>2, <1>4 DEF Changed, Issue
<1>5. ASSUME NEW c \in Conns, Handle(c) PROVE NewKnown
  <2>1. CASE RegisterNumber(c)
    BY <1>1, <2>1 DEF RegisterNumber
  <2>2. CASE LoginRegistered(c)
    BY <1>1, <2>2 DEF LoginRegistered, given
  <2>3. CASE WriteToken(c)
    BY <1>3, <2>3 DEF WriteToken
  <2>4. CASE WritePassword(c)
    BY <1>4, <2>4 DEF WritePassword
  <2> QED BY <1>5, <2>1, <2>2, <2>3, <2>4 DEF Handle
<1>6. ASSUME NEW c \in Conns, Receive(c) PROVE NewKnown
  <2>1. ASSUME NEW p \in Passwords, RegisterCreate(c, p) PROVE NewKnown
    BY <1>1, <2>1 DEF RegisterCreate, given
  <2>2. ASSUME NEW q \in Numbers \cup {0}, NEW p \in Passwords, Login(c, q, p) PROVE NewKnown
    BY <1>1, <2>2 DEF Login, given
  <2>3. ASSUME NEW q \in Numbers \cup {0}, LoginWithToken(c, q) PROVE NewKnown
    BY <1>1, <2>3 DEF LoginWithToken, given
  <2>4. ASSUME NEW q \in Numbers \cup {0}, NEW t \in 0..Len(issued), RefreshAccess(c, q, t) PROVE NewKnown
    <3>1. Known(q)
      BY <2>4 DEF RefreshAccess, RowOf, Known
    <3> QED BY <1>1, <2>4, <3>1 DEF RefreshAccess
  <2>5. ASSUME NEW old \in Passwords, NEW new \in Passwords, ChangePassword(c, old, new)
        PROVE NewKnown
    BY <1>1, <2>5 DEF ChangePassword, given
  <2> QED BY <1>6, <2>1, <2>2, <2>3, <2>4, <2>5 DEF Receive
<1>7. ASSUME NEW c \in Conns, Disconnect(c) PROVE NewKnown
  BY <1>1, <1>7 DEF Disconnect, given
<1>8. ASSUME NEW c \in Conns, WriteFails(c) PROVE NewKnown
  <2>1. CASE pc[c] = "number" /\ UNCHANGED <<issued, access, qqOf, overtaken>>
    BY <1>1, <2>1
  <2>2. CASE pc[c] = "token" /\ LoggedIn(c)
    BY <1>3, <2>2
  <2>3. CASE pc[c] = "replace" /\ Changed(c) /\ UNCHANGED <<qqOf, overtaken>>
    BY <1>4, <2>3
  <2> QED BY <1>8, <2>1, <2>2, <2>3 DEF WriteFails
<1>9. ASSUME NEW q \in Numbers \cup {0}, AccessExpires(q) PROVE NewKnown
  BY <1>1, <1>9 DEF AccessExpires
<1>10. ASSUME NEW i \in Ids, RefreshExpires(i) PROVE NewKnown
  BY <1>1, <1>10 DEF RefreshExpires, given
<1>11. CASE Restart
  BY <1>1, <1>11 DEF Restart
<1>12. CASE UNCHANGED vars
  BY <1>1, <1>12 DEF vars, given
<1> QED BY <1>5, <1>6, <1>7, <1>8, <1>9, <1>10, <1>11, <1>12 DEF Next

\* Nobody is logged in, or holds a token that would log him in, under a number
\* that no row has, although tokens are not looked up in the table, logins as 0
\* get tokens, and the empty refresh token is accepted for a row that has none.
THEOREM KnownAccountsOnly == Spec => []KnownAccounts
<1>1. Init => KnownAccounts
  BY DEF Init, KnownAccounts
<1>2. ASSUME AccountsTypeOK, KnownAccounts, [Next]_vars PROVE KnownAccounts'
  <2>1. ASSUME NEW q, Known(q) PROVE q = 0 \/ \E i \in 1..count' : number'[i] = q
    <3>1. CASE q = 0
      BY <3>1
    <3>2. CASE q # 0
      <4>1. PICK i \in 1..count : number[i] = q
        BY <2>1, <3>2 DEF Known
      <4>2. count \in Nat /\ count' \in Nat
        <5>1. AccountsTypeOK'
          BY TypeStep, <1>2
        <5> QED BY <1>2, <5>1, AccountsAssumption DEF AccountsTypeOK
      <4> QED BY <1>2, <3>2, <4>1, <4>2, NumbersStay
    <3> QED BY <3>1, <3>2
  <2> QED BY <1>2, <2>1, OnlyKnown DEF KnownAccounts
<1> QED BY <1>1, <1>2, AccountsTypeCorrect, PTL DEF Spec

-----------------------------------------------------------------------------
(* Tokens follow passwords.  A login that is about to write its token has    *)
(* compared a password that is still the row's, unless a change overtook it; *)
(* rows that were not inserted have no token.                               *)

TokenInv ==
  /\ \A c \in Conns : pc[c] = "token" => c \in overtaken \/ proof[c] = password[row[c]]
  /\ \A i \in Ids : i > count => refresh[i] = 0
  /\ RefreshFollowsPassword

\* Of a handler that goes on, only its own locals change.
LEMMA OthersStay ==
  ASSUME AccountsTypeOK, NEW c \in Conns, NEW l, NEW i, NEW q, NEW p, NEW new,
         Goto(c, l, i, q, p, new)
  PROVE  /\ pc'[c] = l /\ row'[c] = i /\ proof'[c] = p /\ fresh'[c] = new
         /\ \A d \in Conns \ {c} :
              pc'[d] = pc[d] /\ row'[d] = row[d] /\ proof'[d] = proof[d] /\ fresh'[d] = fresh[d]
BY DEF AccountsTypeOK, Goto

LEMMA TokenStep ==
  ASSUME AccountsTypeOK, TokenInv, [Next]_vars
  PROVE  TokenInv'
<1> USE DEF table, given
<1>1. /\ count \in Nat /\ Ids \subseteq Nat /\ 1..count \subseteq Ids
      /\ Len(issued) \in Nat /\ refresh \in [Ids -> 0..Len(issued)]
      /\ password \in [Ids -> Passwords \cup {None}]
      /\ \A i \in Ids : refresh[i] # 0 => refresh[i] \in 1..Len(issued)
  BY AccountsAssumption DEF AccountsTypeOK, Ids
\* A step that leaves the rows and the tokens alone, and does not compare.
<1>2. ASSUME UNCHANGED <<count, password, refresh>>, overtaken \subseteq overtaken',
             \A t \in 1..Len(issued) : issued'[t] = issued[t],
             \A d \in Conns : pc'[d] = "token" =>
               \/ pc[d] = "token" /\ proof'[d] = proof[d] /\ row'[d] = row[d]
               \/ proof'[d] = password[row'[d]]
      PROVE  TokenInv'
  BY <1>1, <1>2 DEF TokenInv, RefreshFollowsPassword
<1>3. ASSUME NEW c \in Conns, NEW p \in Passwords, RegisterCreate(c, p) PROVE TokenInv'
  <2>1. count + 1 \in Ids
    BY <1>1, <1>3, AccountsAssumption DEF RegisterCreate, Ids
  <2>2. /\ count' = count + 1 /\ password' = [password EXCEPT ![count + 1] = p]
        /\ UNCHANGED <<refresh, issued, overtaken>>
    BY <1>3 DEF RegisterCreate
  <2>3. \A d \in Conns : pc'[d] = "token" => pc[d] = "token" /\ proof'[d] = proof[d] /\ row'[d] = row[d]
    BY <1>3, OthersStay DEF RegisterCreate
  <2>4. \A d \in Conns : pc[d] = "token" => row[d] \in 1..count
    BY HandlerFacts
  <2>5. \A i \in 1..count : password'[i] = password[i]
    BY <1>1, <2>1, <2>2
  <2>6. RefreshFollowsPassword'
    BY <1>1, <2>1, <2>2, <2>5 DEF TokenInv, RefreshFollowsPassword
  <2> QED BY <1>1, <2>2, <2>3, <2>4, <2>5, <2>6 DEF TokenInv
<1>4. ASSUME NEW c \in Conns, RegisterNumber(c) PROVE TokenInv'
  <2>1. \A d \in Conns : pc'[d] = "token" => pc[d] = "token" /\ proof'[d] = proof[d] /\ row'[d] = row[d]
    BY <1>4, OthersStay DEF RegisterNumber, Announce
  <2> QED BY <1>2, <1>4, <2>1 DEF RegisterNumber, Announce
<1>5. ASSUME NEW c \in Conns, NEW q \in Numbers \cup {0}, NEW p \in Passwords, Login(c, q, p) PROVE TokenInv'
  <2>1. PICK i \in RowOf(q) : password[i] = p /\ Goto(c, "token", i, q, p, None)
    BY <1>5 DEF Login
  <2>2. \A d \in Conns : pc'[d] = "token" =>
          \/ pc[d] = "token" /\ proof'[d] = proof[d] /\ row'[d] = row[d]
          \/ proof'[d] = password[row'[d]]
    BY <2>1, OthersStay
  <2> QED BY <1>2, <1>5, <2>2 DEF Login
<1>6. ASSUME NEW c \in Conns, LoginRegistered(c) PROVE TokenInv'
  <2>1. row[c] \in Ids
    BY <1>6, HandlerFacts DEF LoginRegistered
  <2>2. CASE \E i \in RowOf(as[c]) : password[i] = proof[c]
    <3>1. password[row[c]] = proof[c]
      <4>1. PICK i \in RowOf(as[c]) : password[i] = proof[c]
        BY <2>2
      <4>2. as[c] \in Numbers \cup {0} /\ as[c] = NumberOf(row[c]) /\ as[c] # 0
        BY <1>6, <2>1, HandlerFacts, NumberFacts DEF LoginRegistered
      <4>3. i \in Ids /\ NumberOf(row[c]) = NumberOf(i)
        BY <4>2, RowFacts
      <4> QED BY <2>1, <4>1, <4>3, NumbersDiffer
    <3>2. Goto(c, "token", row[c], as[c], proof[c], None)
      BY <1>6, <2>2 DEF LoginRegistered
    <3>3. \A d \in Conns : pc'[d] = "token" =>
            \/ pc[d] = "token" /\ proof'[d] = proof[d] /\ row'[d] = row[d]
            \/ proof'[d] = password[row'[d]]
      <4>1. /\ row'[c] = row[c] /\ proof'[c] = proof[c]
            /\ \A d \in Conns \ {c} : pc'[d] = pc[d] /\ row'[d] = row[d] /\ proof'[d] = proof[d]
        BY <3>2, OthersStay
      <4> QED BY <3>1, <4>1
    <3> QED BY <1>2, <1>6, <3>3 DEF LoginRegistered
  <2>3. CASE ~ \E i \in RowOf(as[c]) : password[i] = proof[c]
    <3>1. \A d \in Conns : pc'[d] = "token" => pc[d] = "token" /\ proof'[d] = proof[d] /\ row'[d] = row[d]
      BY <1>6, <2>3, OthersStay DEF LoginRegistered, Finish
    <3> QED BY <1>2, <1>6, <3>1 DEF LoginRegistered
  <2> QED BY <2>2, <2>3
\* A login that gave its token away and has written it, or not.
<1>7. ASSUME NEW c \in Conns, pc[c] = "token", LoggedIn(c), UNCHANGED <<count, password>>,
             refresh' = refresh \/ refresh' = [refresh EXCEPT ![row[c]] = Len(issued) + 1]
      PROVE  TokenInv'
  <2>1. /\ row[c] \in Ids /\ row[c] \in 1..count /\ row[c] <= count
        /\ Len(issued') = Len(issued) + 1
        /\ \A t \in 1..Len(issued) : issued'[t] = issued[t]
        /\ issued'[Len(issued) + 1] = [id |-> row[c], proof |-> proof[c], late |-> c \in overtaken]
    <3>1. row[c] \in Ids /\ row[c] \in 1..count
      BY <1>7, HandlerFacts
    <3>2. row[c] <= count
      BY <1>1, <3>1
    <3> QED BY <1>7, <3>1, <3>2, LoggedInFacts
  <2>2. \A d \in Conns : pc'[d] = "token" =>
          d # c /\ pc[d] = "token" /\ proof'[d] = proof[d] /\ row'[d] = row[d]
    BY <1>7, OthersStay DEF LoggedIn, Finish
  <2>3. overtaken' = overtaken \ {c}
    BY <1>7 DEF LoggedIn
  <2>4. \A d \in Conns : pc'[d] = "token" => d \in overtaken' \/ proof'[d] = password'[row'[d]]
    BY <1>7, <2>2, <2>3 DEF TokenInv
  <2>5. \A i \in Ids : i > count => refresh'[i] = 0
    <3>1. \A i \in Ids : i # row[c] => refresh'[i] = refresh[i]
      BY <1>1, <1>7
    <3>2. \A i \in Ids : i > count => i # row[c]
      BY <1>1, <2>1
    <3> QED BY <3>1, <3>2 DEF TokenInv
  <2>6. ASSUME NEW i \in 1..count, refresh'[i] # 0
        PROVE  /\ issued'[refresh'[i]].id = i
               /\ issued'[refresh'[i]].proof = password[i] \/ issued'[refresh'[i]].late
    <3>1. CASE refresh'[i] = refresh[i]
      BY <1>1, <2>1, <2>6, <3>1 DEF TokenInv, RefreshFollowsPassword
    <3>2. CASE i = row[c] /\ refresh'[i] = Len(issued) + 1
      <4>1. c \in overtaken \/ proof[c] = password[row[c]]
        BY <1>7 DEF TokenInv
      <4>2. issued'[refresh'[i]] = [id |-> row[c], proof |-> proof[c], late |-> c \in overtaken]
        BY <2>1, <3>2
      <4>3. CASE c \in overtaken
        <5>1. issued'[refresh'[i]].id = i
          BY <3>2, <4>2
        <5>2. issued'[refresh'[i]].late
          <6>1. (c \in overtaken) = TRUE
            BY <4>3
          <6>2. issued'[refresh'[i]] = [id |-> row[c], proof |-> proof[c], late |-> TRUE]
            BY <4>2, <6>1, Zenon
          <6> QED BY <6>2
        <5> QED BY <5>1, <5>2
      <4>4. CASE proof[c] = password[row[c]]
        BY <3>2, <4>2, <4>4
      <4> QED BY <4>1, <4>3, <4>4
    <3> QED BY <1>1, <1>7, <3>1, <3>2
  <2> QED BY <1>7, <2>4, <2>5, <2>6 DEF TokenInv, RefreshFollowsPassword
<1>8. ASSUME NEW c \in Conns, WriteToken(c) PROVE TokenInv'
  BY <1>7, <1>8 DEF WriteToken, StoreRefresh
<1>9. ASSUME NEW c \in Conns, WritePassword(c) PROVE TokenInv'
  <2>1. /\ row[c] \in Ids /\ row[c] \in 1..count /\ row[c] <= count
        /\ Len(issued') = Len(issued) + 1
        /\ \A t \in 1..Len(issued) : issued'[t] = issued[t]
        /\ issued'[Len(issued) + 1] = [id |-> row[c], proof |-> fresh[c], late |-> FALSE]
    <3>1. row[c] \in Ids /\ row[c] \in 1..count
      BY <1>9, HandlerFacts DEF WritePassword
    <3>2. row[c] <= count
      BY <1>1, <3>1
    <3>3. pc[c] = "replace" /\ Changed(c)
      BY <1>9 DEF WritePassword
    <3> QED BY <3>1, <3>2, <3>3, ChangedFacts
  <2>2. /\ password' = [password EXCEPT ![row[c]] = fresh[c]]
        /\ refresh' = [refresh EXCEPT ![row[c]] = Len(issued) + 1]
        /\ count' = count
        /\ overtaken' = overtaken \cup {d \in Conns \ {c} : pc[d] = "token" /\ row[d] = row[c]}
    BY <1>9 DEF WritePassword, Replaced, NewHash, StoreRefresh
  <2>3. \A d \in Conns : pc'[d] = "token" =>
          d # c /\ pc[d] = "token" /\ proof'[d] = proof[d] /\ row'[d] = row[d]
    BY <1>9, OthersStay DEF WritePassword, Changed, Finish
  <2>4. \A i \in Ids \ {row[c]} : password'[i] = password[i] /\ refresh'[i] = refresh[i]
    BY <1>1, <2>2
  <2>5. \A d \in Conns : pc[d] = "token" => row[d] \in Ids
    BY HandlerFacts
  <2>6. \A d \in Conns : pc'[d] = "token" => d \in overtaken' \/ proof'[d] = password'[row'[d]]
    BY <2>2, <2>3, <2>4, <2>5 DEF TokenInv
  <2>7. \A i \in Ids : i > count => refresh'[i] = 0
    BY <1>1, <2>1, <2>4 DEF TokenInv
  <2>8. ASSUME NEW i \in 1..count, refresh'[i] # 0
        PROVE  /\ issued'[refresh'[i]].id = i
               /\ issued'[refresh'[i]].proof = password'[i] \/ issued'[refresh'[i]].late
    <3>1. CASE i # row[c]
      BY <1>1, <2>1, <2>4, <2>8, <3>1 DEF TokenInv, RefreshFollowsPassword
    <3>2. CASE i = row[c]
      BY <1>1, <2>1, <2>2, <3>2
    <3> QED BY <3>1, <3>2
  <2> QED BY <2>2, <2>6, <2>7, <2>8 DEF TokenInv, RefreshFollowsPassword
<1>10. ASSUME NEW c \in Conns, NEW q \in Numbers \cup {0}, LoginWithToken(c, q) PROVE TokenInv'
  BY <1>2, <1>10 DEF LoginWithToken, handler
<1>11. ASSUME NEW c \in Conns, NEW q \in Numbers \cup {0}, NEW t \in 0..Len(issued), RefreshAccess(c, q, t) PROVE TokenInv'
  BY <1>2, <1>11 DEF RefreshAccess, handler
<1>12. ASSUME NEW c \in Conns, NEW old \in Passwords, NEW new \in Passwords, ChangePassword(c, old, new)
       PROVE  TokenInv'
  <2>1. \A d \in Conns : pc'[d] = "token" => pc[d] = "token" /\ proof'[d] = proof[d] /\ row'[d] = row[d]
    BY <1>12, OthersStay DEF ChangePassword
  <2> QED BY <1>2, <1>12, <2>1 DEF ChangePassword
<1>13. ASSUME NEW c \in Conns, Disconnect(c) PROVE TokenInv'
  BY <1>2, <1>13 DEF Disconnect, handler
<1>14. ASSUME NEW c \in Conns, WriteFails(c) PROVE TokenInv'
  <2>1. UNCHANGED <<count, password, refresh>>
    BY <1>14 DEF WriteFails
  <2>2. CASE pc[c] = "number"
    <3>1. Announce(c) /\ UNCHANGED <<issued, overtaken>>
      BY <1>14, <2>2 DEF WriteFails
    <3>2. \A d \in Conns : pc'[d] = "token" => pc[d] = "token" /\ proof'[d] = proof[d] /\ row'[d] = row[d]
      BY <3>1, OthersStay DEF Announce
    <3> QED BY <1>2, <2>1, <3>1, <3>2
  <2>3. CASE pc[c] = "token"
    BY <1>7, <1>14, <2>1, <2>3 DEF WriteFails
  <2>4. CASE pc[c] = "replace"
    <3>1. Changed(c) /\ UNCHANGED overtaken
      BY <1>14, <2>4 DEF WriteFails
    <3>2. \A d \in Conns : pc'[d] = "token" => pc[d] = "token" /\ proof'[d] = proof[d] /\ row'[d] = row[d]
      BY <3>1, OthersStay DEF Changed, Finish
    <3>3. \A t \in 1..Len(issued) : issued'[t] = issued[t]
      BY <2>4, <3>1, ChangedFacts
    <3> QED BY <1>2, <2>1, <3>1, <3>2, <3>3
  <2> QED BY <1>14, <2>2, <2>3, <2>4 DEF WriteFails
<1>15. ASSUME NEW q \in Numbers \cup {0}, AccessExpires(q) PROVE TokenInv'
  BY <1>2, <1>15 DEF AccessExpires, handler
<1>16. ASSUME NEW i \in Ids, RefreshExpires(i) PROVE TokenInv'
  BY <1>2, <1>16 DEF RefreshExpires, handler
<1>17. CASE Restart
  BY <1>17 DEF Restart, TokenInv, RefreshFollowsPassword
<1>18. CASE UNCHANGED vars
  BY <1>2, <1>18 DEF vars, handler
<1> QED BY <1>3, <1>4, <1>5, <1>6, <1>8, <1>9, <1>10, <1>11, <1>12, <1>13, <1>14, <1>15, <1>16,
           <1>17, <1>18 DEF Next, Handle, Receive

\* The refresh token in a row belongs to somebody who knew the row's password,
\* but for logins that a change of the password overtook.
THEOREM TokensFollowPasswords == Spec => []RefreshFollowsPassword
<1>1. Init => TokenInv
  BY DEF Init, TokenInv, RefreshFollowsPassword
<1>2. AccountsTypeOK /\ TokenInv /\ [Next]_vars => TokenInv'
  BY TokenStep
<1>3. TokenInv => RefreshFollowsPassword
  BY DEF TokenInv
<1> QED BY <1>1, <1>2, <1>3, AccountsTypeCorrect, PTL DEF Spec

-----------------------------------------------------------------------------
(* What users were told.  A registration that is between its two statements  *)
(* has a row of its own, without a number and with its password.            *)

NumberInv ==
  /\ \A c \in Conns : pc[c] = "number" => number[row[c]] = 0 /\ proof[c] = password[row[c]]
  /\ \A c, d \in Conns : pc[c] = "number" /\ pc[d] = "number" /\ row[c] = row[d] => c = d
  /\ \A i \in Ids : i > count => confirmed[i] = None
  /\ ConfirmedCounts

\* Nothing new is untrue, or there was a fault and one account is.
LEMMA UntrueBound ==
  ASSUME AccountsTypeOK, AccountsTypeOK', ConfirmedCounts,
         \/ Untrue' \subseteq Untrue /\ faults <= faults'
         \/ faults' = faults + 1 /\ \E i \in Ids : Untrue' \subseteq Untrue \cup {i}
  PROVE  ConfirmedCounts'
<1>1. faults \in Nat /\ faults' \in Nat /\ count \in Nat /\ count' \in Nat
  BY AccountsAssumption DEF AccountsTypeOK
<1>2. IsFiniteSet(Untrue) /\ Cardinality(Untrue) \in Nat
  <2>1. 1 \in Int /\ count \in Int
    BY <1>1
  <2>2. IsFiniteSet(1..count)
    BY <2>1, FS_Interval
  <2>3. Untrue \subseteq 1..count
    BY DEF Untrue
  <2> QED BY <2>2, <2>3, FS_Subset, FS_CardinalityType
<1>3. CASE Untrue' \subseteq Untrue /\ faults <= faults'
  <2>1. Cardinality(Untrue') <= Cardinality(Untrue) /\ Cardinality(Untrue') \in Nat
    BY <1>2, <1>3, FS_Subset, FS_CardinalityType
  <2> QED BY <1>1, <1>2, <1>3, <2>1 DEF ConfirmedCounts
<1>4. ASSUME NEW i \in Ids, faults' = faults + 1, Untrue' \subseteq Untrue \cup {i}
      PROVE  ConfirmedCounts'
  <2>1. IsFiniteSet(Untrue \cup {i}) /\ Cardinality(Untrue \cup {i}) <= Cardinality(Untrue) + 1
    BY <1>2, FS_AddElement
  <2>2. /\ Cardinality(Untrue \cup {i}) \in Nat /\ Cardinality(Untrue') \in Nat
        /\ Cardinality(Untrue') <= Cardinality(Untrue \cup {i})
    BY <1>4, <2>1, FS_Subset, FS_CardinalityType
  <2> QED BY <1>1, <1>2, <1>4, <2>1, <2>2 DEF ConfirmedCounts
<1> QED BY <1>3, <1>4

LEMMA NumberStep ==
  ASSUME AccountsTypeOK, AccountsTypeOK', NumberInv, [Next]_vars
  PROVE  NumberInv'
<1> USE DEF table, given
<1>1. /\ count \in Nat /\ Ids \subseteq Nat /\ 1..count \subseteq Ids /\ faults \in Nat
      /\ password \in [Ids -> Passwords \cup {None}]
      /\ confirmed \in [Ids -> Passwords \cup {None}]
      /\ number \in [Ids -> Numbers \cup {0}]
  BY AccountsAssumption DEF AccountsTypeOK, Ids
<1>2. \A d \in Conns : pc[d] = "number" => row[d] \in 1..count /\ row[d] \in Ids
  BY HandlerFacts
\* A step that tells nobody anything and leaves numbers and passwords alone.
<1>3. ASSUME UNCHANGED <<count, number, password, confirmed>>, faults' = faults \/ faults' = faults + 1,
             \A d \in Conns : pc'[d] = "number" =>
               pc[d] = "number" /\ proof'[d] = proof[d] /\ row'[d] = row[d]
      PROVE  NumberInv'
  <2>1. Untrue' = Untrue
    BY <1>3 DEF Untrue
  <2>2. ConfirmedCounts'
    BY <1>1, <1>3, <2>1, UntrueBound DEF NumberInv
  <2> QED BY <1>3, <2>2 DEF NumberInv
<1>4. ASSUME NEW c \in Conns, NEW p \in Passwords, RegisterCreate(c, p) PROVE NumberInv'
  <2>1. count + 1 \in Ids
    BY <1>1, <1>4, AccountsAssumption DEF RegisterCreate, Ids
  <2>2. /\ count' = count + 1 /\ password' = [password EXCEPT ![count + 1] = p]
        /\ UNCHANGED <<number, confirmed, faults>>
    BY <1>4 DEF RegisterCreate
  <2>3. /\ pc'[c] = "number" /\ row'[c] = count + 1 /\ proof'[c] = p
        /\ \A d \in Conns \ {c} : pc'[d] = pc[d] /\ row'[d] = row[d] /\ proof'[d] = proof[d]
    BY <1>4, OthersStay DEF RegisterCreate
  <2>4. number[count + 1] = 0 /\ confirmed[count + 1] = None
    BY <1>1, <2>1 DEF AccountsTypeOK, NumberInv
  <2>5. password'[count + 1] = p /\ \A i \in 1..count : password'[i] = password[i]
    BY <1>1, <2>1, <2>2
  <2>6. Untrue' \subseteq Untrue
    BY <1>1, <2>2, <2>4, <2>5 DEF Untrue
  <2>7. ConfirmedCounts'
    BY <1>1, <2>2, <2>6, UntrueBound DEF NumberInv
  <2>8. \A d \in Conns : pc'[d] = "number" => number'[row'[d]] = 0 /\ proof'[d] = password'[row'[d]]
    BY <1>1, <1>2, <2>2, <2>3, <2>4, <2>5 DEF NumberInv
  <2>9. \A d, e \in Conns : pc'[d] = "number" /\ pc'[e] = "number" /\ row'[d] = row'[e] => d = e
    BY <1>1, <1>2, <2>3 DEF NumberInv
  <2>10. ASSUME NEW i \in Ids, i > count' PROVE confirmed'[i] = None
    <3>1. i > count
      BY <1>1, <2>2, <2>10
    <3>2. confirmed[i] = None
      BY <3>1 DEF NumberInv
    <3>3. confirmed' = confirmed
      BY <2>2
    <3> QED BY <3>2, <3>3
  <2> QED BY <2>7, <2>8, <2>9, <2>10 DEF NumberInv
\* The second statement of Register: the row of nobody else.
<1>5. ASSUME NEW c \in Conns, pc[c] = "number", Announce(c), UNCHANGED <<count, password>>,
             \/ number' = [number EXCEPT ![row[c]] = NumberOf(row[c])] /\ faults' = faults
             \/ number' = number /\ faults' = faults + 1
      PROVE  NumberInv'
  <2>1. row[c] \in Ids /\ row[c] \in 1..count /\ row[c] <= count
    BY <1>1, <1>2, <1>5
  <2>2. confirmed' = [confirmed EXCEPT ![row[c]] = proof[c]]
    BY <1>5 DEF Announce
  <2>3. \A d \in Conns : pc'[d] = "number" =>
          d # c /\ pc[d] = "number" /\ proof'[d] = proof[d] /\ row'[d] = row[d]
    BY <1>5, OthersStay DEF Announce
  <2>4. \A i \in Ids \ {row[c]} : number'[i] = number[i] /\ confirmed'[i] = confirmed[i]
    BY <1>1, <1>5, <2>2
  <2>5. Untrue' \subseteq Untrue \cup {row[c]}
    BY <1>1, <1>5, <2>4 DEF Untrue
  <2>6. faults' = faults => row[c] \notin Untrue'
    <3>1. confirmed'[row[c]] = password'[row[c]]
      BY <1>1, <1>5, <2>1, <2>2 DEF NumberInv
    <3>2. faults' = faults => number'[row[c]] = NumberOf(row[c])
      BY <1>1, <1>5, <2>1
    <3> QED BY <3>1, <3>2 DEF Untrue
  <2>7. ConfirmedCounts'
    BY <1>1, <1>5, <2>1, <2>5, <2>6, UntrueBound DEF NumberInv
  <2>8. \A d \in Conns : pc'[d] = "number" => number'[row'[d]] = 0 /\ proof'[d] = password'[row'[d]]
    BY <1>2, <1>5, <2>3, <2>4 DEF NumberInv
  <2>9. \A i \in Ids : i > count => confirmed'[i] = None
    BY <1>1, <2>1, <2>4 DEF NumberInv
  <2>10. \A d, e \in Conns : pc'[d] = "number" /\ pc'[e] = "number" /\ row'[d] = row'[e] => d = e
    BY <2>3 DEF NumberInv
  <2> QED BY <1>5, <2>7, <2>8, <2>9, <2>10 DEF NumberInv
\* The second statement of ChangePassword.
<1>6. ASSUME NEW c \in Conns, pc[c] = "replace", Changed(c), UNCHANGED <<count, number>>,
             \/ password' = [password EXCEPT ![row[c]] = fresh[c]] /\ faults' = faults
             \/ password' = password /\ faults' = faults + 1
      PROVE  NumberInv'
  <2>1. row[c] \in Ids /\ row[c] \in 1..count /\ row[c] <= count /\ number[row[c]] = NumberOf(row[c])
    <3>1. row[c] \in Ids /\ row[c] \in 1..count /\ number[row[c]] = NumberOf(row[c])
      BY <1>6, HandlerFacts
    <3> QED BY <1>1, <3>1
  <2>2. confirmed' = [confirmed EXCEPT ![row[c]] = fresh[c]]
    BY <1>6 DEF Changed
  <2>3. \A d \in Conns : pc'[d] = "number" =>
          d # c /\ pc[d] = "number" /\ proof'[d] = proof[d] /\ row'[d] = row[d]
    BY <1>6, OthersStay DEF Changed, Finish
  <2>4. \A i \in Ids \ {row[c]} : password'[i] = password[i] /\ confirmed'[i] = confirmed[i]
    BY <1>1, <1>6, <2>2
  <2>5. Untrue' \subseteq Untrue \cup {row[c]}
    BY <1>1, <1>6, <2>4 DEF Untrue
  <2>6. faults' = faults => row[c] \notin Untrue'
    BY <1>1, <1>6, <2>1, <2>2 DEF Untrue
  <2>7. ConfirmedCounts'
    BY <1>1, <1>6, <2>1, <2>5, <2>6, UntrueBound DEF NumberInv
  <2>8. \A d \in Conns : pc'[d] = "number" => number'[row'[d]] = 0 /\ proof'[d] = password'[row'[d]]
    <3>1. NumberOf(row[c]) # 0
      BY <2>1, NumberFacts
    <3> QED BY <1>2, <1>6, <2>1, <2>3, <2>4, <3>1 DEF NumberInv
  <2>9. \A i \in Ids : i > count => confirmed'[i] = None
    BY <1>1, <2>1, <2>4 DEF NumberInv
  <2> QED BY <1>6, <2>3, <2>7, <2>8, <2>9 DEF NumberInv
<1>7. ASSUME NEW c \in Conns, RegisterNumber(c) PROVE NumberInv'
  BY <1>5, <1>7 DEF RegisterNumber, Numbered
<1>8. ASSUME NEW c \in Conns, WritePassword(c) PROVE NumberInv'
  BY <1>6, <1>8 DEF WritePassword, Replaced, NewHash
<1>9. ASSUME NEW c \in Conns, LoginRegistered(c) \/ WriteToken(c) PROVE NumberInv'
  <2>1. \A d \in Conns : pc'[d] = "number" => pc[d] = "number" /\ proof'[d] = proof[d] /\ row'[d] = row[d]
    <3>1. CASE LoginRegistered(c)
      <4>1. CASE \E i \in RowOf(as[c]) : password[i] = proof[c]
        <5>1. /\ pc'[c] = "token"
              /\ \A d \in Conns \ {c} : pc'[d] = pc[d] /\ row'[d] = row[d] /\ proof'[d] = proof[d]
          BY <3>1, <4>1, OthersStay DEF LoginRegistered
        <5> QED BY <5>1
      <4>2. CASE ~ \E i \in RowOf(as[c]) : password[i] = proof[c]
        BY <3>1, <4>2, OthersStay DEF LoginRegistered, Finish
      <4> QED BY <4>1, <4>2
    <3>2. CASE WriteToken(c)
      BY <3>2, OthersStay DEF WriteToken, LoggedIn, Finish
    <3> QED BY <1>9, <3>1, <3>2
  <2> QED BY <1>3, <1>9, <2>1 DEF LoginRegistered, WriteToken, LoggedIn, Finish
<1>10. ASSUME NEW c \in Conns, Receive(c), ~ \E p \in Passwords : RegisterCreate(c, p) PROVE NumberInv'
  <2>1. ASSUME NEW q \in Numbers \cup {0}, NEW p \in Passwords, Login(c, q, p) PROVE NumberInv'
    <3>1. \A d \in Conns : pc'[d] = "number" => pc[d] = "number" /\ proof'[d] = proof[d] /\ row'[d] = row[d]
      BY <2>1, OthersStay DEF Login
    <3> QED BY <1>3, <2>1, <3>1 DEF Login
  <2>2. ASSUME NEW q \in Numbers \cup {0}, LoginWithToken(c, q) PROVE NumberInv'
    BY <1>3, <2>2 DEF LoginWithToken, handler
  <2>3. ASSUME NEW q \in Numbers \cup {0}, NEW t \in 0..Len(issued), RefreshAccess(c, q, t) PROVE NumberInv'
    BY <1>3, <2>3 DEF RefreshAccess, handler
  <2>4. ASSUME NEW old \in Passwords, NEW new \in Passwords, ChangePassword(c, old, new)
        PROVE  NumberInv'
    <3>1. \A d \in Conns : pc'[d] = "number" => pc[d] = "number" /\ proof'[d] = proof[d] /\ row'[d] = row[d]
      BY <2>4, OthersStay DEF ChangePassword
    <3> QED BY <1>3, <2>4, <3>1 DEF ChangePassword
  <2> QED BY <1>10, <2>1, <2>2, <2>3, <2>4 DEF Receive
<1>11. ASSUME NEW c \in Conns, Disconnect(c) PROVE NumberInv'
  BY <1>3, <1>11 DEF Disconnect, handler
<1>12. ASSUME NEW c \in Conns, WriteFails(c) PROVE NumberInv'
  <2>1. UNCHANGED <<count, number, password>> /\ faults' = faults + 1
    BY <1>12 DEF WriteFails, FaultHappens
  <2>2. CASE pc[c] = "number"
    BY <1>5, <1>12, <2>1, <2>2 DEF WriteFails
  <2>3. CASE pc[c] = "token"
    <3>1. LoggedIn(c) /\ UNCHANGED confirmed
      BY <1>12, <2>3 DEF WriteFails
    <3>2. \A d \in Conns : pc'[d] = "number" => pc[d] = "number" /\ proof'[d] = proof[d] /\ row'[d] = row[d]
      BY <3>1, OthersStay DEF LoggedIn, Finish
    <3> QED BY <1>3, <2>1, <3>1, <3>2
  <2>4. CASE pc[c] = "replace"
    BY <1>6, <1>12, <2>1, <2>4 DEF WriteFails
  <2> QED BY <1>12, <2>2, <2>3, <2>4 DEF WriteFails
<1>13. ASSUME NEW q \in Numbers \cup {0}, AccessExpires(q) PROVE NumberInv'
  BY <1>3, <1>13 DEF AccessExpires, handler
<1>14. ASSUME NEW i \in Ids, RefreshExpires(i) PROVE NumberInv'
  BY <1>3, <1>14 DEF RefreshExpires, handler
<1>15. CASE Restart
  BY <1>3, <1>15 DEF Restart, FaultHappens
<1>16. CASE UNCHANGED vars
  BY <1>3, <1>16 DEF vars, handler
<1> QED BY <1>4, <1>7, <1>8, <1>9, <1>10, <1>11, <1>12, <1>13, <1>14, <1>15, <1>16
        DEF Next, Handle

LEMMA NumbersHold == Spec => []NumberInv
<1>1. Init => NumberInv
  <2>1. Init => Untrue = {} /\ faults = 0
    BY DEF Init, Untrue
  <2>2. Cardinality({}) = 0
    BY FS_EmptySet
  <2>3. Init => ConfirmedCounts
    BY <2>1, <2>2 DEF ConfirmedCounts
  <2> QED BY <2>3 DEF Init, NumberInv
<1>2. AccountsTypeOK /\ AccountsTypeOK' /\ NumberInv /\ [Next]_vars => NumberInv'
  BY NumberStep
<1> QED BY <1>1, <1>2, AccountsTypeCorrect, PTL DEF Spec

\* However registrations and changes of passwords interleave, each failing
\* statement makes what users were told untrue of at most one account.
THEOREM ConfirmedIsTrue == Spec => []ConfirmedCounts
<1>1. NumberInv => ConfirmedCounts
  BY DEF NumberInv
<1> QED BY <1>1, NumbersHold, PTL

-----------------------------------------------------------------------------
(* A registration that is under way is the only reason for the number 0.    *)

Numbering ==
  \A i \in 1..count : number[i] = 0 =>
    /\ i = count
    /\ faults = 0 => \E c \in Conns : pc[c] = "number" /\ row[c] = i

\* Registration stays open: the row that has no number is the last one.
LEMMA OpenStep ==
  ASSUME AccountsTypeOK, Numbering, [Next]_vars
  PROVE  Numbering'
<1> USE DEF table, given
<1>1. count \in Nat /\ faults \in Nat /\ \A i \in 1..count : i \in Ids
  BY AccountsAssumption DEF AccountsTypeOK, Ids
<1>a. ASSUME NEW c \in Conns, NEW l, NEW i, NEW q, NEW p, NEW new,
         Goto(c, l, i, q, p, new)
      PROVE  /\ pc'[c] = l /\ row'[c] = i
             /\ \A d \in Conns \ {c} : pc'[d] = pc[d] /\ row'[d] = row[d]
  <2>1. pc \in [Conns -> Statement] /\ row \in [Conns -> Ids \cup {0}]
    BY DEF AccountsTypeOK
  <2> QED BY <1>a, <2>1 DEF Goto
<1>2. ASSUME NEW c \in Conns, NEW p \in Passwords, RegisterCreate(c, p) PROVE Numbering'
  <2>1. \A i \in 1..count : number[i] # 0
    BY <1>2 DEF RegisterCreate, IsFree
  <2>2. pc'[c] = "number" /\ row'[c] = count + 1 /\ count' = count + 1 /\ number' = number
    BY <1>a, <1>2 DEF RegisterCreate
  <2> QED BY <1>1, <2>1, <2>2 DEF Numbering
\* A connection that is not between the two statements changes its own locals.
<1>3. ASSUME NEW c \in Conns, pc[c] # "number", count' = count, number' = number, faults' = faults,
             \A d \in Conns \ {c} : pc'[d] = pc[d] /\ row'[d] = row[d]
      PROVE  Numbering'
  BY <1>3 DEF Numbering
<1>4. ASSUME count' = count, number' = number, faults' = faults \/ faults' = faults + 1,
             faults' = faults => UNCHANGED handler
      PROVE  Numbering'
  <2>1. CASE faults' = faults
    BY <1>4, <2>1 DEF Numbering, handler
  <2>2. CASE faults' = faults + 1
    <3>1. faults' # 0
      BY <1>1, <2>2
    <3> QED BY <1>4, <3>1 DEF Numbering
  <2> QED BY <1>4, <2>1, <2>2
<1>5. ASSUME NEW c \in Conns, RegisterNumber(c) PROVE Numbering'
  <2>1. row[c] \in Ids /\ NumberOf(row[c]) # 0
    BY <1>5, HandlerFacts, NumberFacts DEF RegisterNumber
  <2>2. /\ number' = [number EXCEPT ![row[c]] = NumberOf(row[c])]
        /\ count' = count /\ faults' = faults
        /\ \A d \in Conns \ {c} : pc'[d] = pc[d] /\ row'[d] = row[d]
    BY <1>a, <1>5 DEF RegisterNumber, Numbered, Announce
  <2>3. \A i \in 1..count : number'[i] = 0 => number[i] = 0 /\ i # row[c]
    <3>1. number \in [Ids -> Numbers \cup {0}]
      BY DEF AccountsTypeOK
    <3> QED BY <1>1, <2>1, <2>2, <3>1
  <2> QED BY <2>2, <2>3 DEF Numbering
<1>6. ASSUME NEW c \in Conns, LoginRegistered(c) \/ WriteToken(c) \/ WritePassword(c)
      PROVE  Numbering'
  <2>1. \A d \in Conns \ {c} : pc'[d] = pc[d] /\ row'[d] = row[d]
    BY <1>a, <1>6 DEF LoginRegistered, WriteToken, LoggedIn, WritePassword, Changed, Finish
  <2>2. pc[c] # "number" /\ count' = count /\ number' = number /\ faults' = faults
    BY <1>6 DEF LoginRegistered, WriteToken, WritePassword
  <2> QED BY <1>3, <2>1, <2>2
<1>7. ASSUME NEW c \in Conns, Receive(c) PROVE Numbering'
  <2>1. ASSUME NEW q \in Numbers \cup {0}, NEW p \in Passwords, Login(c, q, p) PROVE Numbering'
    BY <1>a, <1>3, <2>1 DEF Login
  <2>2. ASSUME NEW q \in Numbers \cup {0}, LoginWithToken(c, q) PROVE Numbering'
    BY <1>4, <2>2 DEF LoginWithToken
  <2>3. ASSUME NEW q \in Numbers \cup {0}, NEW t \in 0..Len(issued), RefreshAccess(c, q, t) PROVE Numbering'
    BY <1>4, <2>3 DEF RefreshAccess
  <2>4. ASSUME NEW old \in Passwords, NEW new \in Passwords, ChangePassword(c, old, new)
        PROVE  Numbering'
    BY <1>a, <1>3, <2>4 DEF ChangePassword
  <2> QED BY <1>2, <1>7, <2>1, <2>2, <2>3, <2>4 DEF Receive
<1>8. ASSUME NEW c \in Conns, Disconnect(c) PROVE Numbering'
  BY <1>4, <1>8 DEF Disconnect
<1>9. ASSUME NEW c \in Conns, WriteFails(c) PROVE Numbering'
  BY <1>1, <1>4, <1>9 DEF WriteFails, FaultHappens
<1>10. ASSUME NEW q \in Numbers \cup {0}, AccessExpires(q) PROVE Numbering'
  BY <1>4, <1>10 DEF AccessExpires
<1>11. ASSUME NEW i \in Ids, RefreshExpires(i) PROVE Numbering'
  BY <1>4, <1>11 DEF RefreshExpires
<1>12. CASE Restart
  BY <1>1, <1>4, <1>12 DEF Restart, FaultHappens
<1>13. CASE UNCHANGED vars
  BY <1>4, <1>13 DEF vars
<1> QED BY <1>5, <1>6, <1>7, <1>8, <1>9, <1>10, <1>11, <1>12, <1>13 DEF Next, Handle

\* The login that follows a registration finds the row it is about, and its
\* password, unless somebody has changed it and thereby stored a token.
LoginInv ==
  /\ \A c \in Conns : pc[c] = "find" /\ faults = 0 =>
       /\ number[row[c]] = NumberOf(row[c])
       /\ refresh[row[c]] = 0 => password[row[c]] = proof[c]
  /\ \A i \in 1..count : number[i] # 0 /\ refresh[i] = 0 /\ faults = 0 =>
       \E c \in Conns : pc[c] \in {"find", "token"} /\ row[c] = i

LEMMA LoginStep ==
  ASSUME AccountsTypeOK, NumberInv, LoginInv, [Next]_vars
  PROVE  LoginInv'
<1> USE DEF table, given
<1>1. /\ count \in Nat /\ faults \in Nat /\ \A i \in 1..count : i \in Ids
      /\ Len(issued) + 1 # 0
      /\ number \in [Ids -> Numbers \cup {0}] /\ refresh \in [Ids -> 0..Len(issued)]
      /\ password \in [Ids -> Passwords \cup {None}]
  BY AccountsAssumption DEF AccountsTypeOK, Ids
<1>2. \A d \in Conns : pc[d] # "idle" => row[d] \in 1..count /\ row[d] \in Ids
  BY HandlerFacts
<1>3. ASSUME faults' = faults + 1 PROVE LoginInv'
  BY <1>1, <1>3 DEF LoginInv
\* A handler that is not logging in changes its own locals, or none change.
<1>4. ASSUME UNCHANGED <<count, number, password, refresh, faults>>,
             \A d \in Conns : \/ pc'[d] = pc[d] /\ row'[d] = row[d] /\ proof'[d] = proof[d]
                              \/ pc[d] \notin {"find", "token"} /\ pc'[d] # "find"
      PROVE  LoginInv'
  <2>1. \A d \in Conns : pc'[d] = "find" => pc[d] = "find" /\ row'[d] = row[d] /\ proof'[d] = proof[d]
    BY <1>4
  <2>2. \A d \in Conns : pc[d] \in {"find", "token"} => pc'[d] = pc[d] /\ row'[d] = row[d]
    BY <1>4
  <2> QED BY <1>4, <2>1, <2>2 DEF LoginInv
<1>5. ASSUME NEW c \in Conns, NEW p \in Passwords, RegisterCreate(c, p) PROVE LoginInv'
  <2>1. count + 1 \in Ids /\ count' = count + 1
    BY <1>1, <1>5, AccountsAssumption DEF RegisterCreate, Ids
  <2>2. /\ password' = [password EXCEPT ![count + 1] = p] /\ number[count + 1] = 0
        /\ UNCHANGED <<number, refresh, faults>> /\ pc[c] = "idle"
    BY <1>1, <1>5, <2>1 DEF RegisterCreate, AccountsTypeOK
  <2>3. /\ pc'[c] = "number"
        /\ \A d \in Conns \ {c} : pc'[d] = pc[d] /\ row'[d] = row[d] /\ proof'[d] = proof[d]
    BY <1>5, OthersStay DEF RegisterCreate
  <2>4. \A i \in 1..count : password'[i] = password[i]
    BY <1>1, <2>1, <2>2
  <2>5. \A d \in Conns : pc'[d] = "find" => d # c /\ pc[d] = "find" /\ row[d] \in 1..count
    BY <1>2, <2>3
  <2>6. \A i \in 1..count' : number'[i] # 0 => i \in 1..count
    BY <1>1, <2>1, <2>2
  <2>7. \A d \in Conns : pc[d] \in {"find", "token"} => d # c
    BY <2>2
  <2>8. ASSUME NEW d \in Conns, pc'[d] = "find", faults' = 0
        PROVE  /\ number'[row'[d]] = NumberOf(row'[d])
               /\ refresh'[row'[d]] = 0 => password'[row'[d]] = proof'[d]
    BY <2>2, <2>3, <2>4, <2>5, <2>8 DEF LoginInv
  <2>9. ASSUME NEW i \in 1..count', number'[i] # 0, refresh'[i] = 0, faults' = 0
        PROVE  \E d \in Conns : pc'[d] \in {"find", "token"} /\ row'[d] = i
    BY <2>2, <2>3, <2>6, <2>7, <2>9 DEF LoginInv
  <2> QED BY <2>8, <2>9 DEF LoginInv
<1>6. ASSUME NEW c \in Conns, RegisterNumber(c) PROVE LoginInv'
  <2>1. row[c] \in Ids /\ proof[c] = password[row[c]] /\ pc[c] = "number"
    BY <1>2, <1>6 DEF RegisterNumber, NumberInv
  <2>2. /\ number' = [number EXCEPT ![row[c]] = NumberOf(row[c])]
        /\ UNCHANGED <<count, password, refresh, faults>>
    BY <1>6 DEF RegisterNumber, Numbered
  <2>3. /\ pc'[c] = "find" /\ row'[c] = row[c] /\ proof'[c] = proof[c]
        /\ \A d \in Conns \ {c} : pc'[d] = pc[d] /\ row'[d] = row[d] /\ proof'[d] = proof[d]
    BY <1>6, OthersStay DEF RegisterNumber, Announce
  <2>4. \A i \in Ids : number'[i] = IF i = row[c] THEN NumberOf(i) ELSE number[i]
    BY <1>1, <2>1, <2>2
  <2>5. ASSUME NEW d \in Conns, pc'[d] = "find", faults' = 0
        PROVE  /\ number'[row'[d]] = NumberOf(row'[d])
               /\ refresh'[row'[d]] = 0 => password'[row'[d]] = proof'[d]
    <3>1. CASE d = c
      BY <2>1, <2>2, <2>3, <2>4, <3>1
    <3>2. CASE d # c
      BY <1>2, <2>2, <2>3, <2>4, <2>5, <3>2 DEF LoginInv
    <3> QED BY <3>1, <3>2
  <2>6. ASSUME NEW i \in 1..count', number'[i] # 0, refresh'[i] = 0, faults' = 0
        PROVE  \E d \in Conns : pc'[d] \in {"find", "token"} /\ row'[d] = i
    <3>1. CASE i = row[c]
      BY <2>3, <3>1
    <3>2. CASE i # row[c]
      <4>1. PICK d \in Conns : pc[d] \in {"find", "token"} /\ row[d] = i
        BY <1>1, <2>2, <2>4, <2>6, <3>2 DEF LoginInv
      <4> QED BY <2>1, <2>3, <4>1
    <3> QED BY <3>1, <3>2
  <2> QED BY <2>5, <2>6 DEF LoginInv
<1>7. ASSUME NEW c \in Conns, LoginRegistered(c) PROVE LoginInv'
  <2>1. /\ pc[c] = "find" /\ row[c] \in 1..count /\ as[c] = NumberOf(row[c])
        /\ UNCHANGED <<count, number, password, refresh, faults>>
    BY <1>7, HandlerFacts DEF LoginRegistered
  <2>2. CASE \E i \in RowOf(as[c]) : password[i] = proof[c]
    <3>1. /\ pc'[c] = "token" /\ row'[c] = row[c]
          /\ \A d \in Conns \ {c} : pc'[d] = pc[d] /\ row'[d] = row[d] /\ proof'[d] = proof[d]
      BY <1>7, <2>2, OthersStay DEF LoginRegistered
    <3> QED BY <2>1, <3>1 DEF LoginInv
  <2>3. CASE ~ \E i \in RowOf(as[c]) : password[i] = proof[c]
    <3>1. /\ pc'[c] = "idle"
          /\ \A d \in Conns \ {c} : pc'[d] = pc[d] /\ row'[d] = row[d] /\ proof'[d] = proof[d]
      BY <1>7, <2>3, OthersStay DEF LoginRegistered, Finish
    <3>2. faults = 0 => refresh[row[c]] # 0
      BY <2>1, <2>3 DEF LoginInv, RowOf
    <3> QED BY <2>1, <3>1, <3>2 DEF LoginInv
  <2> QED BY <2>2, <2>3
\* A token is stored: the row no longer answers to the empty one.
<1>8. ASSUME NEW c \in Conns, pc[c] \in {"token", "replace"}, pc'[c] = "idle",
             \A d \in Conns \ {c} : pc'[d] = pc[d] /\ row'[d] = row[d] /\ proof'[d] = proof[d],
             refresh' = [refresh EXCEPT ![row[c]] = Len(issued) + 1],
             \A i \in Ids : i # row[c] => password'[i] = password[i],
             UNCHANGED <<count, number, faults>>
      PROVE  LoginInv'
  <2>1. row[c] \in Ids
    BY <1>2, <1>8
  <2>2. \A i \in Ids : IF i = row[c] THEN refresh'[i] # 0
                                     ELSE refresh'[i] = refresh[i] /\ password'[i] = password[i]
    BY <1>1, <1>8, <2>1
  <2>3. ASSUME NEW d \in Conns, pc'[d] = "find", faults' = 0
        PROVE  /\ number'[row'[d]] = NumberOf(row'[d])
               /\ refresh'[row'[d]] = 0 => password'[row'[d]] = proof'[d]
    <3>1. d # c /\ pc[d] = "find" /\ row'[d] = row[d] /\ proof'[d] = proof[d] /\ row[d] \in Ids
      BY <1>2, <1>8, <2>3
    <3> QED BY <1>8, <2>2, <2>3, <3>1 DEF LoginInv
  <2>4. ASSUME NEW i \in 1..count', number'[i] # 0, refresh'[i] = 0, faults' = 0
        PROVE  \E d \in Conns : pc'[d] \in {"find", "token"} /\ row'[d] = i
    <3>1. i \in 1..count /\ i # row[c] /\ refresh[i] = 0 /\ number[i] # 0 /\ faults = 0
      BY <1>1, <1>8, <2>2, <2>4
    <3>2. PICK d \in Conns : pc[d] \in {"find", "token"} /\ row[d] = i
      BY <3>1 DEF LoginInv
    <3> QED BY <1>8, <3>1, <3>2
  <2> QED BY <2>3, <2>4 DEF LoginInv
<1>9. ASSUME NEW c \in Conns, WriteToken(c) PROVE LoginInv'
  <2>1. /\ pc'[c] = "idle"
        /\ \A d \in Conns \ {c} : pc'[d] = pc[d] /\ row'[d] = row[d] /\ proof'[d] = proof[d]
    BY <1>9, OthersStay DEF WriteToken, LoggedIn, Finish
  <2> QED BY <1>8, <1>9, <2>1 DEF WriteToken, StoreRefresh
<1>10. ASSUME NEW c \in Conns, WritePassword(c) PROVE LoginInv'
  <2>1. /\ pc'[c] = "idle"
        /\ \A d \in Conns \ {c} : pc'[d] = pc[d] /\ row'[d] = row[d] /\ proof'[d] = proof[d]
    BY <1>10, OthersStay DEF WritePassword, Changed, Finish
  <2>2. \A i \in Ids : i # row[c] => password'[i] = password[i]
    BY <1>1, <1>10 DEF WritePassword, Replaced
  <2> QED BY <1>8, <1>10, <2>1, <2>2 DEF WritePassword, Replaced, StoreRefresh
<1>11. ASSUME NEW c \in Conns, Receive(c), ~ \E p \in Passwords : RegisterCreate(c, p) PROVE LoginInv'
  <2>1. ASSUME NEW q \in Numbers \cup {0}, NEW p \in Passwords, Login(c, q, p) PROVE LoginInv'
    <3>1. PICK i \in RowOf(q) : Goto(c, "token", i, q, p, None)
      BY <2>1 DEF Login
    <3>2. pc[c] = "idle" /\ pc'[c] = "token"
          /\ \A d \in Conns \ {c} : pc'[d] = pc[d] /\ row'[d] = row[d] /\ proof'[d] = proof[d]
      BY <2>1, <3>1, OthersStay DEF Login
    <3>3. UNCHANGED <<count, number, password, refresh, faults>>
      BY <2>1 DEF Login
    <3> QED BY <1>4, <3>2, <3>3
  <2>2. ASSUME NEW q \in Numbers \cup {0}, LoginWithToken(c, q) PROVE LoginInv'
    BY <1>4, <2>2 DEF LoginWithToken, handler
  <2>3. ASSUME NEW q \in Numbers \cup {0}, NEW t \in 0..Len(issued), RefreshAccess(c, q, t) PROVE LoginInv'
    BY <1>4, <2>3 DEF RefreshAccess, handler
  <2>4. ASSUME NEW old \in Passwords, NEW new \in Passwords, ChangePassword(c, old, new)
        PROVE  LoginInv'
    <3>1. PICK i \in RowOf(qqOf[c]) : Goto(c, "replace", i, qqOf[c], old, new)
      BY <2>4 DEF ChangePassword
    <3>2. pc[c] = "idle" /\ pc'[c] = "replace"
          /\ \A d \in Conns \ {c} : pc'[d] = pc[d] /\ row'[d] = row[d] /\ proof'[d] = proof[d]
      BY <2>4, <3>1, OthersStay DEF ChangePassword
    <3>3. UNCHANGED <<count, number, password, refresh, faults>>
      BY <2>4 DEF ChangePassword
    <3> QED BY <1>4, <3>2, <3>3
  <2> QED BY <1>11, <2>1, <2>2, <2>3, <2>4 DEF Receive
<1>12. ASSUME NEW c \in Conns, Disconnect(c) PROVE LoginInv'
  BY <1>4, <1>12 DEF Disconnect, handler
<1>13. ASSUME NEW c \in Conns, WriteFails(c) PROVE LoginInv'
  BY <1>3, <1>13 DEF WriteFails, FaultHappens
<1>14. ASSUME NEW q \in Numbers \cup {0}, AccessExpires(q) PROVE LoginInv'
  BY <1>4, <1>14 DEF AccessExpires, handler
<1>15. ASSUME NEW i \in Ids, RefreshExpires(i) PROVE LoginInv'
  BY <1>4, <1>15 DEF RefreshExpires, handler
<1>16. CASE Restart
  BY <1>3, <1>16 DEF Restart, FaultHappens
<1>17. CASE UNCHANGED vars
  BY <1>4, <1>17 DEF vars, handler
<1> QED BY <1>5, <1>6, <1>7, <1>9, <1>10, <1>11, <1>12, <1>13, <1>14, <1>15, <1>16, <1>17
        DEF Next, Handle

\* Without faults a registration is only ever refused while another one is
\* under way, and a row answers to the empty refresh token only while the
\* registration that created it goes on to log in.
THEOREM RegistrationStaysOpen == Spec => []RegistrationOpen
<1>1. Init => Numbering /\ LoginInv
  BY DEF Init, Numbering, LoginInv
<1>2. AccountsTypeOK /\ Numbering /\ [Next]_vars => Numbering'
  BY OpenStep
<1>3. AccountsTypeOK /\ NumberInv /\ LoginInv /\ [Next]_vars => LoginInv'
  BY LoginStep
<1>4. Numbering /\ LoginInv => RegistrationOpen
  BY DEF Numbering, LoginInv, RegistrationOpen
<1> QED BY <1>1, <1>2, <1>3, <1>4, AccountsTypeCorrect, NumbersHold, PTL DEF Spec
=============================================================================
