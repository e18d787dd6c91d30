------------------------------- MODULE Client -------------------------------
(***************************************************************************)
(* cmd/client: the terminal's account.  The goroutine that reads the        *)
(* keyboard and the one that reads the connection share the variables       *)
(* myQQNumber, currentQQ and pendingLoginQQ and the files under DATA, and   *)
(* nothing ties an answer to the request it answers.  What is typed, what   *)
(* the server sends and what happens to either process come in any order.   *)
(*                                                                         *)
(* The server's side of one connection is that of internal/handler/ws.go;   *)
(* Accounts has the statements behind it.  The terminal never connects      *)
(* again: somebody has to start it again.                                  *)
(***************************************************************************)
EXTENDS Naturals, Sequences, FiniteSets

CONSTANTS
  QQs,           \* numbers of accounts, in the order of the directories in DATA
  Registered,    \* those that exist at the beginning
  Saved,         \* those of which the terminal has tokens at the beginning
  Passwords, First, \* First is the password of every account at the beginning
  NoPassword,    \* the account does not exist
  Msgs, To,      \* messages, and to whom they are
  MaxCommands,   \* bound on commands typed
  MaxEvents      \* bound on what time, the network and other terminals do

ASSUME ClientAssumption ==
  /\ QQs \subseteq Nat \ {0} /\ IsFiniteSet(QQs)
  /\ Saved \subseteq Registered /\ Registered \subseteq QQs
  /\ First \in Passwords /\ NoPassword \notin Passwords
  /\ To \in [Msgs -> QQs]
  /\ MaxCommands \in Nat /\ MaxEvents \in Nat

VARIABLES
  running, up,                  \* the terminal runs; its connection is open
  myQQ, currentQQ, pending,     \* myQQNumber, currentQQ, pendingLoginQQ
  accessFile, refreshFile,      \* the token files of every directory in DATA
  logs,                         \* which message is in whose log
  requests, responses,          \* what is under way on the connection
  answer,                       \* the answer of a login that was just accepted
  srvQQ, routes,                \* Conn.QQ; the numbers under which h.conns has this connection
  pushed,                       \* messages written to this connection
  password, refreshOf, life,    \* users: password and refresh token; what an access token is worth
  hasty, left, early,           \* history, see the properties
  commands, events              \* how many there were

memory == <<myQQ, currentQQ, pending>>
files == <<accessFile, refreshFile, logs>>
network == <<requests, responses>>
conn == <<answer, srvQQ, routes, pushed>>
users == <<password, refreshOf, life>>
history == <<hasty, left, early>>
bounds == <<commands, events>>
vars == <<running, up, memory, files, network, conn, users, history, bounds>>

\* A token: whom it is for, and the how manieth login it was issued by.
NoToken == [qq |-> 0, n |-> 0]
Token == [qq : QQs, n : 1..Len(life)]
FileContent == Token \cup {NoToken}

\* What a message of protocol/qqgo.proto carries, as far as it matters here.
LoginRequest == [kind : {"login"}, qq : QQs, pw : Passwords]
TokenLogin == [kind : {"tokenLogin"}, qq : QQs \cup {0}, token : Token]
RefreshTokenRequest == [kind : {"refresh"}, qq : QQs, token : Token]
RegisterRequest == [kind : {"register"}, pw : Passwords]
ChangePasswordRequest == [kind : {"change"}, old : Passwords, new : Passwords]
DeliveredAck == [kind : {"delivered"}, msg : Msgs]

LoginResponse ==
  [kind : {"loginOK"}, qq : QQs, access : Token, refresh : FileContent]
    \cup [kind : {"loginFailed"}, why : {"auth failed", "token expired"}]
RefreshTokenResponse == [kind : {"refreshOK"}, access : Token] \cup [kind : {"refreshFailed"}]
ChangePasswordResponse == [kind : {"changed"}, access : Token, refresh : Token]
Shown == [kind : {"shown"}]  \* RegisterResponse and ServerAck, which are only displayed
TextMessage == [kind : {"text"}, msg : Msgs]

Requests == LoginRequest \cup TokenLogin \cup RefreshTokenRequest \cup RegisterRequest
              \cup ChangePasswordRequest \cup DeliveredAck
Responses == LoginResponse \cup RefreshTokenResponse \cup ChangePasswordResponse
               \cup Shown \cup TextMessage

ClientTypeOK ==
  /\ running \in BOOLEAN /\ up \in BOOLEAN
  /\ {myQQ, currentQQ, pending, srvQQ} \subseteq QQs \cup {0}
  /\ accessFile \in [QQs -> FileContent] /\ refreshFile \in [QQs -> FileContent]
  /\ logs \subseteq QQs \X Msgs
  /\ requests \in Seq(Requests) /\ responses \in Seq(Responses)
  /\ answer \in Seq(LoginResponse) /\ Len(answer) <= 1
  /\ routes \subseteq QQs
  /\ pushed \subseteq Msgs
  /\ password \in [QQs -> Passwords \cup {NoPassword}]
  /\ life \in Seq({"valid", "expired", "void"})
  /\ refreshOf \in [QQs -> 0..Len(life)]
  /\ hasty \in BOOLEAN /\ left \subseteq QQs /\ early \subseteq Msgs
  /\ commands \in 0..MaxCommands /\ events \in 0..MaxEvents

\* The token that a saved account was given before the beginning, in the order
\* of the numbers; it is still good.
FirstToken(q) == IF q \in Saved THEN Cardinality({r \in Saved : r <= q}) ELSE 0

Init ==
  LET file == [q \in QQs |-> IF q \in Saved THEN [qq |-> q, n |-> FirstToken(q)] ELSE NoToken] IN
  /\ running = FALSE /\ up = FALSE
  /\ myQQ = 0 /\ currentQQ = 0 /\ pending = 0
  /\ accessFile = file /\ refreshFile = file
  /\ logs = {}
  /\ requests = <<>> /\ responses = <<>>
  /\ answer = <<>> /\ srvQQ = 0 /\ routes = {} /\ pushed = {}
  /\ password = [q \in QQs |-> IF q \in Registered THEN First ELSE NoPassword]
  /\ refreshOf = [q \in QQs |-> FirstToken(q)]
  /\ life = [n \in 1..Cardinality(Saved) |-> "valid"]
  /\ hasty = FALSE /\ left = {} /\ early = {}
  /\ commands = 0 /\ events = 0

-----------------------------------------------------------------------------
(* The network.  A request that cannot be written is logged and forgotten.  *)

Send(request) == requests' = IF up THEN Append(requests, request) ELSE requests

\* The connection closes: requests that were not handled, and answers that
\* were not written, are gone, and the last ones that were may be.
Close ==
  /\ up' = FALSE
  /\ requests' = <<>>
  /\ \E k \in 0..Len(responses) : responses' = SubSeq(responses, 1, k)
  /\ answer' = <<>>

\* Something other than messages is under way.
Outstanding ==
  \/ answer # <<>>
  \/ \E i \in DOMAIN requests : requests[i].kind # "delivered"
  \/ \E i \in DOMAIN responses : responses[i].kind # "text"

-----------------------------------------------------------------------------
(* localstore.go: the files.                                               *)

\* Mutant of WithAccess: there is a directory of nobody.
WithAccessOfNobody(q, t) == [r \in DOMAIN accessFile \cup {q} |-> IF r = q THEN t ELSE accessFile[r]]
WithAccess(q, t) == IF q = 0 THEN accessFile ELSE [accessFile EXCEPT ![q] = t]
WithRefresh(q, t) == IF q = 0 \/ t = NoToken THEN refreshFile ELSE [refreshFile EXCEPT ![q] = t]

SaveTokens(q, access, refresh) ==
  /\ accessFile' = WithAccess(q, access)
  /\ refreshFile' = WithRefresh(q, refresh)
  /\ UNCHANGED logs

RemoveTokens(q) ==
  /\ accessFile' = WithAccess(q, NoToken)
  /\ refreshFile' = IF q = 0 THEN refreshFile ELSE [refreshFile EXCEPT ![q] = NoToken]
  /\ UNCHANGED logs

\* findSavedQQ: the directories with an access token.
SavedQQs == {q \in QQs : accessFile[q] # NoToken}

\* The log of account q with message m, unless nobody is logged in.
Logged(q, m) == IF q = 0 THEN logs ELSE logs \cup {<<q, m>>}

-----------------------------------------------------------------------------
(* Starting the terminal, and the commands.                                *)

\* main: a new connection, and a login with the saved token of the first
\* directory that has one.
Start ==
  /\ ~running
  /\ running' = TRUE /\ up' = TRUE
  /\ myQQ' = 0 /\ currentQQ' = 0
  /\ IF SavedQQs = {} THEN pending' = 0 /\ requests' = <<>>
       ELSE \E q \in SavedQQs :
              /\ \A r \in SavedQQs : q <= r
              /\ pending' = q
              /\ requests' = <<[kind |-> "tokenLogin", qq |-> q, token |-> accessFile[q]]>>
  /\ responses' = <<>>
  /\ answer' = <<>> /\ srvQQ' = 0 /\ routes' = {} /\ pushed' = {}
  /\ left' = {} /\ early' = {}
  /\ UNCHANGED <<files, users, hasty, bounds>>

\* Somebody types a command about the account; he is in a hurry if he has not
\* seen the answer to what he, or main, has asked before.
Type ==
  /\ running
  /\ commands < MaxCommands
  /\ commands' = commands + 1
  /\ hasty' = (hasty \/ Outstanding)
  /\ UNCHANGED <<running, up, responses, conn, users, early, events>>

TypeLogin(q, p) ==
  /\ Type
  /\ pending' = q
  /\ Send([kind |-> "login", qq |-> q, pw |-> p])
  /\ UNCHANGED <<myQQ, currentQQ, files, left>>

TypeRegister(p) ==
  /\ Type
  /\ pending' = 0
  /\ Send([kind |-> "register", pw |-> p])
  /\ UNCHANGED <<myQQ, currentQQ, files, left>>

TypeChangePassword(old, new) ==
  /\ Type
  /\ Send([kind |-> "change", old |-> old, new |-> new])
  /\ UNCHANGED <<memory, files, left>>

\* The server is not told.
TypeLogout ==
  /\ myQQ # 0
  /\ Type
  /\ RemoveTokens(myQQ)
  /\ left' = left \cup {myQQ}
  /\ myQQ' = 0 /\ currentQQ' = 0
  /\ UNCHANGED <<pending, requests>>

-----------------------------------------------------------------------------
(* The server handles one request after the other.                         *)

Serve(kind) ==
  /\ up /\ answer = <<>>
  /\ requests # <<>> /\ requests[1].kind = kind
  /\ UNCHANGED <<running, memory, files, pushed, history, bounds>>

Reply(response) ==
  /\ requests' = Tail(requests)
  /\ responses' = Append(responses, response)
  /\ UNCHANGED <<up, answer>>

\* Account q gets the next tokens; its row has only the last refresh token.
NextToken(q) == [qq |-> q, n |-> Len(life) + 1]
IssueTo(q) ==
  /\ life' = Append(life, "valid")
  /\ refreshOf' = [refreshOf EXCEPT ![q] = Len(life) + 1]

\* The connection becomes that of number q, before the answer is written.  If it
\* had been that already, it is the old connection that is closed, and the
\* answer is written to a closed channel.
Bind(q, access, refresh) ==
  /\ srvQQ' = q
  /\ routes' = routes \cup {q}
  /\ IF q \in routes THEN Close
     ELSE /\ requests' = Tail(requests)
          /\ answer' = <<[kind |-> "loginOK", qq |-> q, access |-> access, refresh |-> refresh]>>
          /\ UNCHANGED <<up, responses>>

LoginFailed(why) == Reply([kind |-> "loginFailed", why |-> why]) /\ UNCHANGED <<srvQQ, routes, users>>

ServeLogin ==
  LET r == requests[1] IN
  /\ Serve("login")
  /\ IF password[r.qq] = r.pw
       THEN IssueTo(r.qq) /\ Bind(r.qq, NextToken(r.qq), NextToken(r.qq)) /\ UNCHANGED password
       ELSE LoginFailed("auth failed")

ServeTokenLogin ==
  LET r == requests[1] IN
  /\ Serve("tokenLogin")
  /\ IF life[r.token.n] = "valid" /\ r.token.qq = r.qq
       THEN Bind(r.qq, r.token, NoToken) /\ UNCHANGED users
       ELSE LoginFailed(IF life[r.token.n] = "expired" THEN "token expired" ELSE "auth failed")

\* The refresh token stays what it is.
ServeRefresh ==
  LET r == requests[1] IN
  /\ Serve("refresh")
  /\ IF r.token.qq = r.qq /\ refreshOf[r.qq] = r.token.n
       THEN /\ life' = Append(life, "valid")
            /\ Reply([kind |-> "refreshOK", access |-> NextToken(r.qq)])
       ELSE Reply([kind |-> "refreshFailed"]) /\ UNCHANGED life
  /\ UNCHANGED <<srvQQ, routes, password, refreshOf>>

\* handleRegister answers, and goes on with a login of its own.
ServeRegister(q) ==
  /\ password[q] = NoPassword
  /\ Serve("register")
  /\ password' = [password EXCEPT ![q] = requests[1].pw]
  /\ IssueTo(q)
  /\ srvQQ' = q /\ routes' = routes \cup {q}
  /\ requests' = Tail(requests)
  /\ responses' = Append(responses, [kind |-> "shown"])
  /\ answer' = <<[kind |-> "loginOK", qq |-> q, access |-> NextToken(q), refresh |-> NextToken(q)]>>
  /\ UNCHANGED up

ServeRegisterRefused ==
  /\ Serve("register")
  /\ Reply([kind |-> "shown"])
  /\ UNCHANGED <<srvQQ, routes, users>>

ServeChangePassword ==
  LET r == requests[1] IN
  /\ Serve("change")
  /\ IF srvQQ # 0 /\ password[srvQQ] = r.old
       THEN /\ IssueTo(srvQQ)
            /\ password' = [password EXCEPT ![srvQQ] = r.new]
            /\ Reply([kind |-> "changed", access |-> NextToken(srvQQ), refresh |-> NextToken(srvQQ)])
       ELSE Reply([kind |-> "shown"]) /\ UNCHANGED users
  /\ UNCHANGED <<srvQQ, routes>>

ServeDelivered ==
  /\ Serve("delivered")
  /\ requests' = Tail(requests)
  /\ UNCHANGED <<up, responses, answer, srvQQ, routes, users>>

\* The login's answer is written at last.
Answer ==
  /\ up /\ answer # <<>>
  /\ responses' = responses \o answer
  /\ answer' = <<>>
  /\ UNCHANGED <<running, up, memory, files, requests, srvQQ, routes, pushed, users, history, bounds>>

\* A message is written to the connection, by whoever sends it or by the
\* goroutine that sends what was stored before the login.
Push(m) ==
  /\ up /\ To[m] \in routes /\ m \notin pushed
  /\ responses' = Append(responses, [kind |-> "text", msg |-> m])
  /\ pushed' = pushed \cup {m}
  /\ early' = IF answer # <<>> /\ answer[1].qq = To[m] THEN early \cup {m} ELSE early
  /\ UNCHANGED <<running, up, memory, files, requests, answer, srvQQ, routes, users, hasty, left, bounds>>

-----------------------------------------------------------------------------
(* The goroutine that reads the connection.                                *)

Read(kind) ==
  /\ running
  /\ responses # <<>> /\ responses[1].kind = kind
  /\ responses' = Tail(responses)
  /\ UNCHANGED <<up, conn, users, hasty, early, bounds>>

\* handleLoginResponse.

\* Mutant of LoggedInAs: the number that was asked for, if there was one.
LoggedInAsAsked(r) == IF pending # 0 THEN pending ELSE myQQ
LoggedInAs(r) == r.qq

LogIn(r) ==
  /\ currentQQ' = IF pending # 0 THEN pending ELSE currentQQ
  /\ pending' = 0
  /\ myQQ' = LoggedInAs(r)
  /\ left' = IF myQQ \in {0, r.qq} THEN left ELSE left \cup {myQQ}

ReadLoginOK ==
  LET r == responses[1] IN
  /\ Read("loginOK")
  /\ LogIn(r)
  /\ SaveTokens(r.qq, r.access, r.refresh)
  /\ UNCHANGED <<running, requests>>

\* The terminal ends between the two files.
ReadLoginCrash ==
  LET r == responses[1] IN
  /\ Read("loginOK") /\ r.refresh # NoToken
  /\ running' = FALSE
  /\ SaveTokens(r.qq, r.access, NoToken)
  /\ UNCHANGED <<memory, requests, left>>

\* Mutant of Expired: an expired token is taken for a refused one.
NeverExpired(r) == FALSE
Expired(r) == r.why = "token expired"

\* Mutant of KeepSession: a login that fails ends the session there is.
EndSession == myQQ' = 0 /\ currentQQ' = 0
KeepSession == UNCHANGED <<myQQ, currentQQ>>

ReadLoginFailed ==
  LET r == responses[1] IN
  /\ Read("loginFailed")
  /\ IF pending # 0 /\ Expired(r) /\ refreshFile[pending] # NoToken
       THEN /\ Send([kind |-> "refresh", qq |-> pending, token |-> refreshFile[pending]])
            /\ UNCHANGED <<files, pending>>
       ELSE /\ RemoveTokens(pending)
            /\ pending' = 0
            /\ UNCHANGED requests
  /\ KeepSession
  /\ UNCHANGED <<running, left>>

\* handleRefreshTokenResponse: the token is saved, and used, for whoever is
\* logging in now.
ReadRefreshOK ==
  LET r == responses[1] IN
  /\ Read("refreshOK")
  /\ SaveTokens(pending, r.access, NoToken)
  /\ Send([kind |-> "tokenLogin", qq |-> pending, token |-> r.access])
  /\ UNCHANGED <<running, memory, left>>

ReadRefreshFailed ==
  /\ Read("refreshFailed")
  /\ RemoveTokens(pending)
  /\ pending' = 0
  /\ UNCHANGED <<running, requests, myQQ, currentQQ, left>>

\* handleChangePasswordResponse.

\* Mutant of Changer: the number that was logged in with a command.
ChangerByCommand == currentQQ
Changer == myQQ

ReadChanged ==
  LET r == responses[1] IN
  /\ Read("changed")
  /\ SaveTokens(Changer, r.access, r.refresh)
  /\ UNCHANGED <<running, memory, requests, left>>

ReadShown == Read("shown") /\ UNCHANGED <<running, memory, files, requests, left>>

\* handleTextMessage: the message goes to the log of who is logged in, if
\* anybody is, and is acknowledged.
ReadText ==
  LET m == responses[1].msg IN
  /\ Read("text")
  /\ logs' = Logged(myQQ, m)
  /\ Send([kind |-> "delivered", msg |-> m])
  /\ UNCHANGED <<running, memory, accessFile, refreshFile, left>>

-----------------------------------------------------------------------------
(* Time, the network and other terminals.                                  *)

Event ==
  /\ events < MaxEvents
  /\ events' = events + 1
  /\ UNCHANGED <<memory, files, pushed, history, commands>>

\* An access token is valid for 15 minutes, a refresh token for 7 days.
AccessExpires(n) ==
  /\ Event
  /\ life[n] = "valid"
  /\ life' = [life EXCEPT ![n] = "expired"]
  /\ UNCHANGED <<running, up, network, answer, srvQQ, routes, password, refreshOf>>

RefreshExpires(q) ==
  /\ Event
  /\ refreshOf[q] # 0
  /\ refreshOf' = [refreshOf EXCEPT ![q] = 0]
  /\ UNCHANGED <<running, up, network, answer, srvQQ, routes, password, life>>

\* Another terminal logs in, perhaps to change the password; the connection of
\* the first one is closed.
OtherTerminal(q, p) ==
  /\ Event
  /\ password[q] # NoPassword
  /\ password' = [password EXCEPT ![q] = p]
  /\ IssueTo(q)
  /\ IF up /\ q \in routes THEN Close ELSE UNCHANGED <<up, network, answer>>
  /\ UNCHANGED <<running, srvQQ, routes>>

ConnectionLost ==
  /\ up
  /\ Event
  /\ Close
  /\ UNCHANGED <<running, srvQQ, routes, users>>

\* The server is started again, and draws a new JWT secret if it has none.
ServerRestart ==
  /\ Event
  /\ Close
  /\ life' = [n \in DOMAIN life |-> "void"]
  /\ UNCHANGED <<running, srvQQ, routes, password, refreshOf>>

\* The terminal ends, by /quit or otherwise.
Stop ==
  /\ running
  /\ Event
  /\ running' = FALSE
  /\ Close
  /\ UNCHANGED <<srvQQ, routes, users>>

-----------------------------------------------------------------------------
Handler ==
  \/ ServeLogin \/ ServeTokenLogin \/ ServeRefresh \/ ServeRegisterRefused
  \/ (\E q \in QQs : ServeRegister(q))
  \/ ServeChangePassword \/ ServeDelivered \/ Answer

Reader ==
  \/ ReadLoginOK \/ ReadLoginFailed \/ ReadRefreshOK \/ ReadRefreshFailed
  \/ ReadChanged \/ ReadShown \/ ReadText

Keyboard ==
  \/ \E q \in QQs, p \in Passwords : TypeLogin(q, p)
  \/ \E p \in Passwords : TypeRegister(p)
  \/ \E old \in Passwords, new \in Passwords : TypeChangePassword(old, new)
  \/ TypeLogout

Environment ==
  \/ \E n \in DOMAIN life : AccessExpires(n)
  \/ \E q \in QQs : RefreshExpires(q) \/ (\E p \in Passwords : OtherTerminal(q, p))
  \/ ConnectionLost \/ ServerRestart \/ Stop \/ ReadLoginCrash

Next == Start \/ Keyboard \/ Handler \/ Reader \/ Environment \/ \E m \in Msgs : Push(m)

Spec == Init /\ [][Next]_vars
FairSpec == Spec /\ WF_vars(Handler) /\ WF_vars(Reader)

-----------------------------------------------------------------------------
(* Properties.  left: accounts this terminal was logged into and has left.  *)

\* A token file has tokens of the account it is named after, as long as nobody
\* types a command about the account before the last one was answered:
\* handleRefreshTokenResponse saves the token of whoever asked for it in the
\* directory of whoever is logging in when it arrives.
FilesAreOwn ==
  ~hasty => \A q \in QQs : {accessFile[q].qq, refreshFile[q].qq} \subseteq {q, 0}

\* Once everything is answered, the terminal is logged into the account that
\* the server has its connection under, even after commands typed in a hurry;
\* only /logout makes them differ, since the server is not told of it.
SessionAgrees ==
  running /\ up /\ ~Outstanding => myQQ = srvQQ \/ (myQQ = 0 /\ srvQQ \in left)

\* A message that the terminal acknowledges, so that the server will not send
\* it again, is in the log of the account it was sent to.  The exceptions are a
\* message for an account that the terminal has left while the server still has
\* the connection under it, and one that overtakes the answer of the login:
\* handleLogin registers the connection before it writes the answer.
LoggedAsAcked ==
  [][\A m \in Msgs :
       requests' = Append(requests, [kind |-> "delivered", msg |-> m])
         => <<To[m], m>> \in logs' \/ To[m] \in left \/ m \in early]_vars

\* The refresh token of q that the terminal began with is good, and still there.
MayRefresh(q) == refreshOf[q] = FirstToken(q)
HasFirst(q) == refreshFile[q] = [qq |-> q, n |-> FirstToken(q)] /\ accessFile[q].qq = q

\* A terminal that is started with a refresh token that is still good gets back
\* in by itself, whether or not its access token has expired and however often
\* that happens again on the way, unless the connection closes, the token is
\* revoked or somebody types a command in the meantime.
LogsInByItself ==
  \A q \in Saved :
    (running /\ up /\ pending = q /\ commands = 0 /\ HasFirst(q) /\ MayRefresh(q)
       /\ life[accessFile[q].n] # "void")
      ~> (myQQ = q \/ ~running \/ ~up \/ commands > 0 \/ ~MayRefresh(q))
=============================================================================
