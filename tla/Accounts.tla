------------------------------ MODULE Accounts ------------------------------
(***************************************************************************)
(* internal/service/chat.go and jwt.go, with their handlers in              *)
(* internal/handler/ws.go: accounts, passwords and tokens as columns of the *)
(* users table.  Register, Login and ChangePassword each read or insert a   *)
(* row in one statement and write it in a second, without a transaction and *)
(* without looking at the error of the second; handlers of other            *)
(* connections run in between.                                             *)
(*                                                                         *)
(* A refresh token is random and stored, so it is a number: the how manieth *)
(* token of all.  An access token is signed and not stored, so all that     *)
(* matters is for which number somebody holds one that has not expired.     *)
(***************************************************************************)
EXTENDS Naturals, Sequences, FiniteSets

CONSTANTS
  Conns,         \* connections of terminals
  Passwords,
  None,          \* no password
  RandomSecret,  \* JWT_SECRET is not set: every start draws a new one
  MaxRows,       \* bound on registrations
  MaxIssued,     \* bound on refresh tokens
  MaxFaults      \* bound on failing statements and restarts

ASSUME AccountsAssumption ==
  /\ IsFiniteSet(Conns)
  /\ None \notin Passwords
  /\ RandomSecret \in BOOLEAN
  /\ MaxRows \in Nat /\ MaxIssued \in Nat /\ MaxFaults \in Nat

QQNumberBase == 10000
NumberOf(i) == QQNumberBase + i
Ids == 1..MaxRows
Numbers == {NumberOf(i) : i \in Ids}

VARIABLES
  count,        \* rows of the table; the row's primary key is 1, 2, ...
  number,       \* its column qq_number, 0 until it is set
  password,     \* its column password_hash
  refresh,      \* its column refresh_token, 0 if it is empty
  stale,        \* rows not written to for more than the refresh token's days
  issued,       \* the refresh tokens that were given away
  access,       \* numbers for which somebody holds a valid access token
  pc,           \* the statement a connection's handler executes next
  row, as, proof, fresh,  \* its locals: the row, the number it is asked for (req.Qq,
                \* c.QQ), the password it was given, a new password
  qqOf,         \* Conn.QQ, 0 before the login
  overtaken,    \* history: logins past whose comparison the password changed
  confirmed,    \* history: the password that its owner was last told is valid
  faults        \* failing statements and restarts so far

table == <<count, number, password, refresh, stale>>
given == <<issued, access, confirmed>>
handler == <<pc, row, as, proof, fresh>>
vars == <<table, given, handler, qqOf, overtaken, faults>>

Statement == {"idle", "number", "find", "token", "replace"}
RefreshToken == [id : Ids, proof : Passwords, late : BOOLEAN]

\* A handler is about a row that is there and that has the number asked for, or
\* had the number 0 when the login looked it up; a login that follows a
\* registration is about the row that was registered.
AccountsTypeOK ==
  /\ count \in 0..MaxRows
  /\ number \in [Ids -> Numbers \cup {0}]
  /\ \A i \in Ids : number[i] \in {0, NumberOf(i)} /\ (i > count => number[i] = 0)
  /\ password \in [Ids -> Passwords \cup {None}]
  /\ \A i \in 1..count : password[i] \in Passwords
  /\ issued \in Seq(RefreshToken)
  /\ refresh \in [Ids -> 0..Len(issued)]
  /\ stale \subseteq Ids
  /\ access \subseteq Numbers \cup {0}
  /\ pc \in [Conns -> Statement]
  /\ row \in [Conns -> Ids \cup {0}] /\ as \in [Conns -> Numbers \cup {0}]
  /\ proof \in [Conns -> Passwords \cup {None}] /\ fresh \in [Conns -> Passwords \cup {None}]
  /\ \A c \in Conns : pc[c] # "idle" =>
       /\ row[c] \in 1..count /\ proof[c] \in Passwords
       /\ pc[c] = "replace" => fresh[c] \in Passwords
       /\ pc[c] = "find" => as[c] = NumberOf(row[c])
       /\ pc[c] = "token" => as[c] \in {0, number[row[c]]}
       /\ pc[c] = "replace" => as[c] # 0 /\ as[c] = number[row[c]]
  /\ qqOf \in [Conns -> Numbers \cup {0}]
  /\ overtaken \subseteq Conns
  /\ confirmed \in [Ids -> Passwords \cup {None}]
  /\ faults \in 0..MaxFaults

Init ==
  /\ count = 0
  /\ number = [i \in Ids |-> 0]
  /\ password = [i \in Ids |-> None]
  /\ refresh = [i \in Ids |-> 0]
  /\ stale = {}
  /\ issued = <<>> /\ access = {}
  /\ confirmed = [i \in Ids |-> None]
  /\ pc = [c \in Conns |-> "idle"]
  /\ row = [c \in Conns |-> 0] /\ as = [c \in Conns |-> 0]
  /\ proof = [c \in Conns |-> None] /\ fresh = [c \in Conns |-> None]
  /\ qqOf = [c \in Conns |-> 0]
  /\ overtaken = {}
  /\ faults = 0

\* Handler c goes on with statement l about row i, asked for number q, with the
\* given passwords.
Goto(c, l, i, q, p, new) ==
  /\ pc' = [pc EXCEPT ![c] = l]
  /\ row' = [row EXCEPT ![c] = i]
  /\ as' = [as EXCEPT ![c] = q]
  /\ proof' = [proof EXCEPT ![c] = p]
  /\ fresh' = [fresh EXCEPT ![c] = new]

Finish(c) == Goto(c, "idle", 0, 0, None, None)

-----------------------------------------------------------------------------
(* Register and handleRegister, which logs the new user in.                *)

\* Mutant of IsFree: qq_number has no unique index.
IsAlwaysFree(n) == n \in Nat
\* The unique index on qq_number, which a new row with number 0 is subject to.
IsFree(n) == \A i \in 1..count : number[i] # n

RegisterCreate(c, p) ==
  /\ pc[c] = "idle"
  /\ count < MaxRows
  /\ IsFree(0)
  /\ count' = count + 1
  /\ password' = [password EXCEPT ![count + 1] = p]
  /\ Goto(c, "number", count + 1, 0, p, None)
  /\ UNCHANGED <<number, refresh, stale, given, qqOf, overtaken, faults>>

\* The user is told the number and the login of the same password begins.
Announce(c) ==
  /\ confirmed' = [confirmed EXCEPT ![row[c]] = proof[c]]
  /\ Goto(c, "find", row[c], NumberOf(row[c]), proof[c], None)

Numbered(i) == [number EXCEPT ![i] = NumberOf(i)]

RegisterNumber(c) ==
  /\ pc[c] = "number"
  /\ number' = Numbered(row[c])
  /\ stale' = stale \ {row[c]}
  /\ Announce(c)
  /\ UNCHANGED <<count, password, refresh, issued, access, qqOf, overtaken, faults>>

-----------------------------------------------------------------------------
(* Login, handleLogin with a password.  The number 0 is asked for like any   *)
(* other, and finds the row that Register has inserted and not numbered yet. *)

\* Mutant of RowOf: the row is looked up by its key.
RowByKey(q) == {i \in 1..count : NumberOf(i) = q}
RowOf(q) == {i \in 1..count : number[i] = q}

Login(c, q, p) ==
  /\ pc[c] = "idle"
  /\ \E i \in RowOf(q) : password[i] = p /\ Goto(c, "token", i, q, p, None)
  /\ UNCHANGED <<table, given, qqOf, overtaken, faults>>

\* The login that handleRegister does itself.
LoginRegistered(c) ==
  /\ pc[c] = "find"
  /\ IF \E i \in RowOf(as[c]) : password[i] = proof[c]
       THEN Goto(c, "token", row[c], as[c], proof[c], None)
       ELSE Finish(c)
  /\ UNCHANGED <<table, given, qqOf, overtaken, faults>>

\* A refresh token for row i is drawn and given to somebody who knows password
\* p, with an access token that is signed for the number asked for.
Issue(i, q, p, late) ==
  /\ Len(issued) < MaxIssued
  /\ issued' = Append(issued, [id |-> i, proof |-> p, late |-> late])
  /\ access' = access \cup {q}

StoreRefresh(i) ==
  /\ refresh' = [refresh EXCEPT ![i] = Len(issued) + 1]
  /\ stale' = stale \ {i}

\* handleLogin goes on to bind the connection to the number; bound to 0 it is
\* not logged in.
LoggedIn(c) ==
  /\ Issue(row[c], as[c], proof[c], c \in overtaken)
  /\ qqOf' = [qqOf EXCEPT ![c] = as[c]]
  /\ overtaken' = overtaken \ {c}
  /\ Finish(c)

WriteToken(c) ==
  /\ pc[c] = "token"
  /\ StoreRefresh(row[c])
  /\ LoggedIn(c)
  /\ UNCHANGED <<count, number, password, confirmed, faults>>

\* LoginWithToken looks at the token alone.
LoginWithToken(c, q) ==
  /\ pc[c] = "idle"
  /\ q \in access
  /\ qqOf' = [qqOf EXCEPT ![c] = q]
  /\ UNCHANGED <<table, given, handler, overtaken, faults>>

-----------------------------------------------------------------------------
(* RefreshToken: the token does not change, and its row is not written.  It  *)
(* compares what is sent with the column, so that the empty token (0) matches*)
(* a row that has none.                                                     *)

MayRefresh(i, t) == refresh[i] = t /\ i \notin stale

RefreshAccess(c, q, t) ==
  /\ pc[c] = "idle"
  /\ \E i \in RowOf(q) : MayRefresh(i, t)
  /\ access' = access \cup {q}
  /\ UNCHANGED <<table, issued, confirmed, handler, qqOf, overtaken, faults>>

-----------------------------------------------------------------------------
(* ChangePassword.                                                         *)

ChangePassword(c, old, new) ==
  /\ pc[c] = "idle"
  /\ \E i \in RowOf(qqOf[c]) : qqOf[c] # 0 /\ password[i] = old /\ Goto(c, "replace", i, qqOf[c], old, new)
  /\ UNCHANGED <<table, given, qqOf, overtaken, faults>>

\* The user is told that the password was changed, with new tokens.
Changed(c) ==
  /\ Issue(row[c], as[c], fresh[c], FALSE)
  /\ confirmed' = [confirmed EXCEPT ![row[c]] = fresh[c]]
  /\ Finish(c)

\* Mutant of NewHash: the hash of the password that was compared is written.
OldHash(c) == proof[c]
NewHash(c) == fresh[c]

\* Mutant of Replaced: the old refresh token stays in the row.
ReplacedPasswordOnly(c) == /\ password' = [password EXCEPT ![row[c]] = NewHash(c)]
                           /\ UNCHANGED <<refresh, stale>>
Replaced(c) == /\ password' = [password EXCEPT ![row[c]] = NewHash(c)]
               /\ StoreRefresh(row[c])

WritePassword(c) ==
  /\ pc[c] = "replace"
  /\ Replaced(c)
  /\ overtaken' = overtaken \cup {d \in Conns \ {c} : pc[d] = "token" /\ row[d] = row[c]}
  /\ Changed(c)
  /\ UNCHANGED <<count, number, qqOf, faults>>

-----------------------------------------------------------------------------
(* Time, disconnections and faults.                                        *)

\* An access token's seconds, or a refresh token's days, are over.
AccessExpires(q) ==
  /\ q \in access
  /\ access' = access \ {q}
  /\ UNCHANGED <<table, issued, confirmed, handler, qqOf, overtaken, faults>>

RefreshExpires(i) ==
  /\ i \in 1..count \ stale
  /\ stale' = stale \cup {i}
  /\ UNCHANGED <<count, number, password, refresh, given, handler, qqOf, overtaken, faults>>

Disconnect(c) ==
  /\ pc[c] = "idle" /\ qqOf[c] # 0
  /\ qqOf' = [qqOf EXCEPT ![c] = 0]
  /\ UNCHANGED <<table, given, handler, overtaken, faults>>

FaultHappens ==
  /\ faults < MaxFaults
  /\ faults' = faults + 1

\* The second statement of a handler fails, and nobody is told.
WriteFails(c) ==
  /\ FaultHappens
  /\ \/ pc[c] = "number" /\ Announce(c) /\ UNCHANGED <<issued, access, qqOf, overtaken>>
     \/ pc[c] = "token" /\ LoggedIn(c) /\ UNCHANGED confirmed
     \/ pc[c] = "replace" /\ Changed(c) /\ UNCHANGED <<qqOf, overtaken>>
  /\ UNCHANGED table

\* The process ends and is started again: the rows, and what was given away,
\* are all that is left.
Restart ==
  /\ FaultHappens
  /\ pc' = [c \in Conns |-> "idle"]
  /\ row' = [c \in Conns |-> 0] /\ as' = [c \in Conns |-> 0]
  /\ proof' = [c \in Conns |-> None] /\ fresh' = [c \in Conns |-> None]
  /\ qqOf' = [c \in Conns |-> 0]
  /\ overtaken' = {}
  /\ access' = IF RandomSecret THEN {} ELSE access
  /\ UNCHANGED <<table, issued, confirmed>>

-----------------------------------------------------------------------------
Handle(c) == RegisterNumber(c) \/ LoginRegistered(c) \/ WriteToken(c) \/ WritePassword(c)

Receive(c) ==
  \/ \E p \in Passwords : RegisterCreate(c, p)
  \/ \E q \in Numbers \cup {0} : \/ \E p \in Passwords : Login(c, q, p)
                                  \/ LoginWithToken(c, q)
                                  \/ \E t \in 0..Len(issued) : RefreshAccess(c, q, t)
  \/ \E old \in Passwords, new \in Passwords : ChangePassword(c, old, new)

Next ==
  \/ \E c \in Conns : Handle(c) \/ Receive(c) \/ Disconnect(c) \/ WriteFails(c)
  \/ \E q \in Numbers \cup {0} : AccessExpires(q)
  \/ \E i \in Ids : RefreshExpires(i)
  \/ Restart

Spec == Init /\ [][Next]_vars

-----------------------------------------------------------------------------
(* Properties.                                                             *)

\* The refresh token in a row was given to somebody who knew the password in
\* that row, so that a password change shuts out whoever knew the old one:
\* Login writes the token long after it compared the password (bcrypt), and
\* ChangePassword may have run in between; only such a login leaves a token
\* that outlives its password.
RefreshFollowsPassword ==
  \A i \in 1..count : refresh[i] # 0 =>
    LET t == issued[refresh[i]] IN
    /\ t.id = i
    /\ t.proof = password[i] \/ t.late

\* Accounts of which a user was told what is not in the table.
Untrue ==
  {i \in 1..count : confirmed[i] # None /\ (number[i] # NumberOf(i) \/ confirmed[i] # password[i])}

\* The number and the password that a user was last told are in the table,
\* although neither Register nor ChangePassword looks at the error of the
\* statement that writes them: each failing statement makes this untrue of at
\* most one account.
ConfirmedCounts == Cardinality(Untrue) <= faults

\* What Register leaves half done goes away with the handler that does it.  A
\* row that has number 0, and with it every registration that is refused because
\* the number is taken, is about to be numbered; a row that has a number and no
\* refresh token, so that the empty one matches it, is about to be logged in.
\* Only a failing statement or a restart leaves either of them behind.
RegistrationOpen ==
  \A i \in 1..count :
    /\ number[i] = 0 =>
         /\ i = count
         /\ faults = 0 => \E c \in Conns : pc[c] = "number" /\ row[c] = i
    /\ number[i] # 0 /\ refresh[i] = 0 /\ faults = 0 =>
         \E c \in Conns : pc[c] \in {"find", "token"} /\ row[c] = i

\* Whoever is logged in, and whoever could log in with a token, does so under a
\* number that a row has: LoginWithToken does not look at the table, so that it
\* depends on every place that signs a token to have done so.  A token can be
\* signed for 0, and be valid when no row has the number 0 any more; nobody who
\* uses it is logged in.
KnownAccounts ==
  \A q \in (access \cup {qqOf[c] : c \in Conns}) \ {0} : \E i \in 1..count : number[i] = q
=============================================================================
