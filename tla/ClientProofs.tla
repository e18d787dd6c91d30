------------------------------ MODULE ClientProofs ------------------------------
(***************************************************************************)
(* Theorems about Client.tla, for any accounts, tokens and messages, and    *)
(* every order of commands, answers and failures.                          *)
(***************************************************************************)
EXTENDS Client, FiniteSetTheorems, SequenceTheorems, TLAPS

-----------------------------------------------------------------------------
(* The types.                                                              *)

LEMMA RequestKinds ==
  ASSUME NEW r \in Requests
  PROVE  /\ r.kind = "login" => r.qq \in QQs /\ r.pw \in Passwords
         /\ r.kind = "tokenLogin" => r.qq \in QQs \cup {0} /\ r.token \in Token
         /\ r.kind = "refresh" => r.qq \in QQs /\ r.token \in Token
         /\ r.kind = "register" => r.pw \in Passwords
         /\ r.kind = "change" => r.old \in Passwords /\ r.new \in Passwords
BY DEF Requests, LoginRequest, TokenLogin, RefreshTokenRequest, RegisterRequest, ChangePasswordRequest, DeliveredAck

LEMMA ResponseKinds ==
  ASSUME NEW r \in Responses
  PROVE  /\ r.kind = "loginOK" => r.qq \in QQs /\ r.access \in Token /\ r.refresh \in FileContent
         /\ r.kind = "refreshOK" => r.access \in Token
         /\ r.kind = "changed" => r.access \in Token /\ r.refresh \in Token
         /\ r.kind = "text" => r.msg \in Msgs
BY DEF Responses, LoginResponse, RefreshTokenResponse, ChangePasswordResponse, Shown, TextMessage

\* Tokens stay tokens when more are issued.
LEMMA TypesGrow ==
  ASSUME life \in Seq({"valid", "expired", "void"}), life' \in Seq({"valid", "expired", "void"}),
         Len(life) <= Len(life')
  PROVE  /\ Token \subseteq Token' /\ FileContent \subseteq FileContent'
         /\ Requests \subseteq Requests' /\ Responses \subseteq Responses' /\ LoginResponse \subseteq LoginResponse'
<1>1. Len(life) \in Nat /\ Len(life') \in Nat
  BY LenProperties
<1>2. 1..Len(life) \subseteq 1..Len(life')
  BY <1>1
<1>3. Token \subseteq Token'
  BY <1>2 DEF Token
<1>4. FileContent \subseteq FileContent'
  BY <1>3 DEF FileContent
<1>5. Requests \subseteq Requests'
  BY <1>3 DEF Requests, LoginRequest, TokenLogin, RefreshTokenRequest, RegisterRequest, ChangePasswordRequest,
           DeliveredAck
<1>6. LoginResponse \subseteq LoginResponse'
  BY <1>3, <1>4 DEF LoginResponse
<1>7. Responses \subseteq Responses'
  BY <1>3, <1>6 DEF Responses, RefreshTokenResponse, ChangePasswordResponse, Shown, TextMessage
<1> QED BY <1>3, <1>4, <1>5, <1>6, <1>7

\* The server's accounts, and what tokens are worth.
UserTypes ==
  /\ password \in [QQs -> Passwords \cup {NoPassword}]
  /\ life \in Seq({"valid", "expired", "void"})
  /\ refreshOf \in [QQs -> 0..Len(life)]

LEMMA IssueTypes ==
  ASSUME UserTypes, NEW q \in QQs, IssueTo(q)
  PROVE  /\ life' \in Seq({"valid", "expired", "void"}) /\ Len(life) \in Nat /\ Len(life') = Len(life) + 1
         /\ refreshOf' \in [QQs -> 0..Len(life')]
<1>1. life' \in Seq({"valid", "expired", "void"}) /\ Len(life') = Len(life) + 1 /\ Len(life) \in Nat
  BY AppendProperties, LenProperties DEF UserTypes, IssueTo
<1>2. 0..Len(life) \subseteq 0..Len(life') /\ Len(life) + 1 \in 0..Len(life')
  BY <1>1
<1>3. refreshOf' = [refreshOf EXCEPT ![q] = Len(life) + 1]
  BY DEF IssueTo
<1> QED BY <1>1, <1>2, <1>3 DEF UserTypes

LEMMA SameInterval ==
  ASSUME NEW a \in Nat, NEW b \in Nat, 1..a = 1..b
  PROVE  a = b
<1>1. a # 0 => a \in 1..b
  OBVIOUS
<1>2. b # 0 => b \in 1..a
  OBVIOUS
<1> QED BY <1>1, <1>2

LEMMA UsersStep ==
  ASSUME ClientTypeOK, [Next]_vars
  PROVE  UserTypes' /\ Len(life) <= Len(life')
<1> DEFINE Goal == UserTypes' /\ Len(life) <= Len(life')
<1>1. UserTypes /\ Len(life) \in Nat /\ DOMAIN life = 1..Len(life)
  BY LenProperties DEF ClientTypeOK, UserTypes
<1>2. CASE UNCHANGED users
  BY <1>1, <1>2 DEF users, UserTypes
<1>3. requests \in Seq(Requests)
  BY DEF ClientTypeOK
<1>4. ASSUME NEW kind, Serve(kind) PROVE requests[1] \in Requests /\ requests[1].kind = kind
  <2>1. requests # <<>> /\ requests[1].kind = kind
    BY <1>4 DEF Serve
  <2>2. 1 \in 1..Len(requests)
    BY <1>3, <2>1, EmptySeq
  <2> QED BY <1>3, <2>1, <2>2, ElementOfSeq
<1>5. ASSUME NEW q \in QQs, NEW p \in Passwords, IssueTo(q),
             password' = password \/ password' = [password EXCEPT ![q] = p]
      PROVE  Goal
  <2>1. password' \in [QQs -> Passwords \cup {NoPassword}]
    BY <1>1, <1>5 DEF UserTypes
  <2> QED BY <1>1, <1>5, <2>1, IssueTypes DEF UserTypes
<1>6. CASE ServeLogin
  <2>1. requests[1].qq \in QQs
    BY <1>4, <1>6, RequestKinds DEF ServeLogin
  <2>2. CASE password[requests[1].qq] = requests[1].pw
    BY <1>5, <1>6, <2>1, <2>2, ClientAssumption DEF ServeLogin
  <2>3. CASE password[requests[1].qq] # requests[1].pw
    BY <1>2, <1>6, <2>3 DEF ServeLogin, LoginFailed
  <2> QED BY <2>2, <2>3
<1>7. CASE ServeTokenLogin
  BY <1>2, <1>7 DEF ServeTokenLogin, LoginFailed
<1>8. CASE ServeRefresh
  <2>1. UNCHANGED <<password, refreshOf>> /\ (life' = life \/ life' = Append(life, "valid"))
    BY <1>8 DEF ServeRefresh
  <2>2. CASE life' = Append(life, "valid")
    <3>1. life' \in Seq({"valid", "expired", "void"}) /\ Len(life') = Len(life) + 1
      BY <1>1, <2>2, AppendProperties DEF UserTypes
    <3>2. 0..Len(life) \subseteq 0..Len(life') /\ Len(life) <= Len(life')
      BY <1>1, <3>1
    <3> QED BY <1>1, <2>1, <3>1, <3>2 DEF UserTypes
  <2> QED BY <1>2, <2>1, <2>2 DEF users
<1>9. ASSUME NEW q \in QQs, ServeRegister(q) PROVE Goal
  <2>1. requests[1].pw \in Passwords
    BY <1>4, <1>9, RequestKinds DEF ServeRegister
  <2> QED BY <1>5, <1>9, <2>1 DEF ServeRegister
<1>10. CASE ServeChangePassword
  <2>1. requests[1].new \in Passwords
    BY <1>4, <1>10, RequestKinds DEF ServeChangePassword
  <2>2. CASE srvQQ # 0 /\ password[srvQQ] = requests[1].old
    <3>1. srvQQ \in QQs
      BY <2>2 DEF ClientTypeOK
    <3> QED BY <1>5, <1>10, <2>1, <2>2, <3>1 DEF ServeChangePassword
  <2>3. CASE ~(srvQQ # 0 /\ password[srvQQ] = requests[1].old)
    BY <1>2, <1>10, <2>3 DEF ServeChangePassword
  <2> QED BY <2>2, <2>3
<1>11. ASSUME NEW n \in DOMAIN life, AccessExpires(n) PROVE Goal
  <2>1. life' = [life EXCEPT ![n] = "expired"] /\ UNCHANGED <<password, refreshOf>>
    BY <1>11 DEF AccessExpires
  <2>2. life' \in Seq({"valid", "expired", "void"}) /\ Len(life') = Len(life)
    BY <1>1, <2>1, ExceptSeq DEF UserTypes
  <2> QED BY <1>1, <2>1, <2>2 DEF UserTypes
<1>12. ASSUME NEW q \in QQs, RefreshExpires(q) PROVE Goal
  <2>1. refreshOf' = [refreshOf EXCEPT ![q] = 0] /\ UNCHANGED <<password, life>>
    BY <1>12 DEF RefreshExpires
  <2>2. 0 \in 0..Len(life)
    BY <1>1
  <2> QED BY <1>1, <2>1, <2>2 DEF UserTypes
<1>13. ASSUME NEW q \in QQs, NEW p \in Passwords, OtherTerminal(q, p) PROVE Goal
  BY <1>5, <1>13 DEF OtherTerminal
<1>14. CASE ServerRestart
  <2>1. life' = [n \in 1..Len(life) |-> "void"] /\ UNCHANGED <<password, refreshOf>>
    BY <1>1, <1>14 DEF ServerRestart
  <2>2. life' \in [1..Len(life) -> {"valid", "expired", "void"}]
    BY <2>1
  <2>3. life' \in Seq({"valid", "expired", "void"})
    BY <1>1, <2>2, SeqDef
  <2>4. Len(life') = Len(life)
    <3>1. DOMAIN life' = 1..Len(life') /\ DOMAIN life' = 1..Len(life) /\ Len(life') \in Nat
      BY <2>1, <2>3, LenProperties
    <3> QED BY <1>1, <3>1, SameInterval
  <2> QED BY <1>1, <2>1, <2>3, <2>4 DEF UserTypes
<1>15. CASE Handler
  BY <1>2, <1>6, <1>7, <1>8, <1>9, <1>10, <1>15 DEF Handler, ServeRegisterRefused, ServeDelivered, Answer
<1>16. CASE Keyboard
  BY <1>2, <1>16 DEF Keyboard, TypeLogin, TypeRegister, TypeChangePassword, TypeLogout, Type
<1>17. CASE Reader
  BY <1>2, <1>17 DEF Reader, ReadLoginOK, ReadLoginFailed, ReadRefreshOK, ReadRefreshFailed, ReadChanged,
       ReadShown, ReadText, Read
<1>18. CASE Environment
  BY <1>2, <1>11, <1>12, <1>13, <1>14, <1>18 DEF Environment, ConnectionLost, Stop, ReadLoginCrash, Read
<1>19. CASE Start \/ UNCHANGED vars \/ \E m \in Msgs : Push(m)
  BY <1>2, <1>19 DEF Start, Push, vars
<1> QED BY <1>15, <1>16, <1>17, <1>18, <1>19 DEF Next

\* What is under way.
LEMMA SendTypes ==
  ASSUME requests \in Seq(Requests'), NEW r \in Requests', Send(r)
  PROVE  requests' \in Seq(Requests')
BY AppendProperties DEF Send

LEMMA CloseTypes ==
  ASSUME responses \in Seq(Responses'), Close
  PROVE  /\ requests' \in Seq(Requests') /\ responses' \in Seq(Responses')
         /\ answer' \in Seq(LoginResponse') /\ Len(answer') <= 1
<1>1. PICK k \in 0..Len(responses) : responses' = SubSeq(responses, 1, k)
  BY DEF Close
<1>2. Len(responses) \in Nat
  BY LenProperties
<1>3. \A i \in 1..k : responses[i] \in Responses'
  <2> SUFFICES ASSUME NEW i \in 1..k PROVE responses[i] \in Responses'
    OBVIOUS
  <2>1. i \in 1..Len(responses)
    BY <1>2
  <2> QED BY <2>1, ElementOfSeq
<1>4. responses' \in Seq(Responses')
  <2>1. 1 \in Int /\ k \in Int
    BY <1>2
  <2>2. SubSeq(responses, 1, k) \in Seq(Responses')
    BY <1>3, <2>1, SubSeqProperties
  <2> QED BY <1>1, <2>2
<1>5. requests' = <<>> /\ answer' = <<>>
  BY DEF Close
<1>6. requests' \in Seq(Requests') /\ answer' \in Seq(LoginResponse') /\ Len(answer') = 0
  BY <1>5, EmptySeq
<1> QED BY <1>4, <1>6

NetworkTypes == /\ requests \in Seq(Requests) /\ responses \in Seq(Responses)
                /\ answer \in Seq(LoginResponse) /\ Len(answer) <= 1

LEMMA NetworkStep ==
  ASSUME ClientTypeOK, [Next]_vars
  PROVE  NetworkTypes'
<1> DEFINE R == Requests'
           S == Responses'
           L == LoginResponse'
           T == Token'
           Goal == requests' \in Seq(R) /\ responses' \in Seq(S) /\ answer' \in Seq(L) /\ Len(answer') <= 1
<1> SUFFICES Goal
  BY DEF NetworkTypes
<1>1. /\ Token \subseteq T /\ FileContent \subseteq T \cup {NoToken}
      /\ Requests \subseteq R /\ Responses \subseteq S /\ LoginResponse \subseteq L
  <2>1. life \in Seq({"valid", "expired", "void"}) /\ life' \in Seq({"valid", "expired", "void"})
        /\ Len(life) <= Len(life')
    BY UsersStep DEF ClientTypeOK, UserTypes
  <2> QED BY <2>1, TypesGrow DEF FileContent
<1>2. /\ requests \in Seq(R) /\ responses \in Seq(S) /\ answer \in Seq(L) /\ Len(answer) <= 1
      /\ requests \in Seq(Requests) /\ responses \in Seq(Responses)
  BY <1>1, SeqMonotonic DEF ClientTypeOK
<1>3. /\ \A q \in QQs, p \in Passwords : [kind |-> "login", qq |-> q, pw |-> p] \in R
      /\ \A q \in QQs \cup {0}, t \in T : [kind |-> "tokenLogin", qq |-> q, token |-> t] \in R
      /\ \A q \in QQs, t \in T : [kind |-> "refresh", qq |-> q, token |-> t] \in R
      /\ \A p \in Passwords : [kind |-> "register", pw |-> p] \in R
      /\ \A p, n \in Passwords : [kind |-> "change", old |-> p, new |-> n] \in R
      /\ \A m \in Msgs : [kind |-> "delivered", msg |-> m] \in R
  BY DEF Requests, LoginRequest, TokenLogin, RefreshTokenRequest, RegisterRequest, ChangePasswordRequest,
         DeliveredAck
<1>4. /\ \A q \in QQs, t \in T, u \in T \cup {NoToken} :
           [kind |-> "loginOK", qq |-> q, access |-> t, refresh |-> u] \in L
      /\ \A w \in {"auth failed", "token expired"} : [kind |-> "loginFailed", why |-> w] \in S
      /\ \A t \in T : [kind |-> "refreshOK", access |-> t] \in S
      /\ [kind |-> "refreshFailed"] \in S
      /\ \A t, u \in T : [kind |-> "changed", access |-> t, refresh |-> u] \in S
      /\ [kind |-> "shown"] \in S
      /\ \A m \in Msgs : [kind |-> "text", msg |-> m] \in S
      /\ L \subseteq S
  BY DEF Responses, LoginResponse, FileContent, RefreshTokenResponse, ChangePasswordResponse, Shown, TextMessage
<1>5. ASSUME NEW kind, Serve(kind)
      PROVE  requests[1] \in Requests /\ requests[1].kind = kind /\ Tail(requests) \in Seq(R)
  <2>1. requests # <<>> /\ requests[1].kind = kind
    BY <1>5 DEF Serve
  <2>2. 1 \in 1..Len(requests)
    BY <1>2, <2>1, EmptySeq
  <2>3. Tail(requests) \in Seq(R)
    BY <1>2, <2>1, HeadTailProperties
  <2> QED BY <1>2, <2>1, <2>2, <2>3, ElementOfSeq
<1>6. ASSUME NEW kind, Read(kind)
      PROVE  /\ responses[1] \in Responses /\ responses[1].kind = kind /\ responses' \in Seq(S)
             /\ UNCHANGED answer
  <2>1. responses # <<>> /\ responses[1].kind = kind /\ responses' = Tail(responses) /\ answer' = answer
    BY <1>6 DEF Read, conn
  <2>2. 1 \in 1..Len(responses)
    BY <1>2, <2>1, EmptySeq
  <2>3. Tail(responses) \in Seq(S)
    BY <1>2, <2>1, HeadTailProperties
  <2> QED BY <1>2, <2>1, <2>2, <2>3, ElementOfSeq
<1>7. ASSUME NEW q \in QQs, life' = Append(life, "valid") PROVE NextToken(q) \in T
  <2>1. Len(life) \in Nat /\ Len(life') = Len(life) + 1
    BY <1>7, LenProperties, AppendProperties DEF ClientTypeOK
  <2>2. Len(life) + 1 \in 1..Len(life')
    BY <2>1
  <2> QED BY <2>2 DEF NextToken, Token
<1>8. Close => Goal
  BY <1>2, CloseTypes
<1>9. CASE UNCHANGED <<network, answer>>
  BY <1>2, <1>9 DEF network
<1> HIDE DEF R, S, L, T
<1>10. ASSUME NEW r \in S, NEW kind, Serve(kind), Reply(r) PROVE Goal
  <2>1. requests' = Tail(requests) /\ responses' = Append(responses, r) /\ answer' = answer
    BY <1>10 DEF Reply
  <2>2. Append(responses, r) \in Seq(S)
    BY <1>2, AppendProperties
  <2> QED BY <1>2, <1>5, <1>10, <2>1, <2>2
<1>11. ASSUME NEW q \in QQs, NEW t \in T, NEW u \in T \cup {NoToken}, NEW kind, Serve(kind), Bind(q, t, u) PROVE Goal
  <2>1. CASE q \in routes
    BY <1>8, <1>11, <2>1 DEF Bind
  <2>2. CASE q \notin routes
    <3> DEFINE a == [kind |-> "loginOK", qq |-> q, access |-> t, refresh |-> u]
    <3>1. requests' = Tail(requests) /\ answer' = <<a>> /\ responses' = responses
      BY <1>11, <2>2 DEF Bind
    <3>2. a \in L
      BY <1>4, <1>11
    <3> HIDE DEF a
    <3>3. answer' \in Seq(L) /\ Len(answer') = 1
      BY <3>1, <3>2
    <3> QED BY <1>2, <1>5, <1>11, <3>1, <3>3
  <2> QED BY <2>1, <2>2
<1>12. ASSUME NEW kind, Serve(kind), NEW w \in {"auth failed", "token expired"}, LoginFailed(w) PROVE Goal
  BY <1>4, <1>10, <1>12 DEF LoginFailed
<1>13. CASE ServeLogin
  <2>1. requests[1].qq \in QQs
    BY <1>5, <1>13, RequestKinds DEF ServeLogin
  <2>2. CASE password[requests[1].qq] = requests[1].pw
    <3>1. IssueTo(requests[1].qq) /\ Bind(requests[1].qq, NextToken(requests[1].qq), NextToken(requests[1].qq))
          /\ Serve("login")
      BY <1>13, <2>2 DEF ServeLogin
    <3>2. NextToken(requests[1].qq) \in T
      BY <1>7, <2>1, <3>1 DEF IssueTo
    <3> QED BY <1>11, <2>1, <3>1, <3>2
  <2>3. CASE password[requests[1].qq] # requests[1].pw
    BY <1>12, <1>13, <2>3 DEF ServeLogin
  <2> QED BY <2>2, <2>3
<1>14. CASE ServeTokenLogin
  <2>1. Serve("tokenLogin") /\ requests[1].token \in Token /\ requests[1].token \in T
    <3>1. Serve("tokenLogin")
      BY <1>14 DEF ServeTokenLogin
    <3>2. requests[1] \in Requests /\ requests[1].kind = "tokenLogin"
      BY <1>5, <3>1
    <3>3. requests[1].token \in Token
      BY <3>2, RequestKinds
    <3> QED BY <1>1, <3>1, <3>3
  <2>2. CASE life[requests[1].token.n] = "valid" /\ requests[1].token.qq = requests[1].qq
    <3>1. requests[1].qq \in QQs
      BY <2>1, <2>2 DEF Token
    <3> QED BY <1>11, <1>14, <2>1, <2>2, <3>1 DEF ServeTokenLogin
  <2>3. CASE ~(life[requests[1].token.n] = "valid" /\ requests[1].token.qq = requests[1].qq)
    <3>1. \E w \in {"auth failed", "token expired"} : LoginFailed(w)
      BY <1>14, <2>3 DEF ServeTokenLogin
    <3> QED BY <1>12, <2>1, <3>1
  <2> QED BY <2>2, <2>3
<1>15. CASE ServeRefresh
  <2>1. requests[1].qq \in QQs /\ Serve("refresh")
    BY <1>5, <1>15, RequestKinds DEF ServeRefresh
  <2>2. \/ life' = Append(life, "valid") /\ Reply([kind |-> "refreshOK", access |-> NextToken(requests[1].qq)])
        \/ Reply([kind |-> "refreshFailed"])
    BY <1>15 DEF ServeRefresh
  <2> QED BY <1>4, <1>7, <1>10, <2>1, <2>2
<1>16. ASSUME NEW q \in QQs, ServeRegister(q) PROVE Goal
  <2> DEFINE a == [kind |-> "loginOK", qq |-> q, access |-> NextToken(q), refresh |-> NextToken(q)]
  <2>1. /\ requests' = Tail(requests) /\ responses' = Append(responses, [kind |-> "shown"])
        /\ answer' = <<a>> /\ Serve("register") /\ IssueTo(q)
    BY <1>16 DEF ServeRegister
  <2>2. NextToken(q) \in T
    BY <1>7, <2>1 DEF IssueTo
  <2>3. a \in L
    BY <1>4, <2>2
  <2> HIDE DEF a
  <2>4. answer' \in Seq(L) /\ Len(answer') = 1
    BY <2>1, <2>3
  <2>5. Append(responses, [kind |-> "shown"]) \in Seq(S)
    BY <1>2, <1>4, AppendProperties
  <2> QED BY <1>5, <2>1, <2>4, <2>5
<1>17. CASE ServeRegisterRefused
  BY <1>4, <1>10, <1>17 DEF ServeRegisterRefused
<1>18. CASE ServeChangePassword
  <2>1. Serve("change")
    BY <1>18 DEF ServeChangePassword
  <2>2. CASE srvQQ # 0 /\ password[srvQQ] = requests[1].old
    <3>1. srvQQ \in QQs
      BY <2>2 DEF ClientTypeOK
    <3>2. IssueTo(srvQQ) /\ Reply([kind |-> "changed", access |-> NextToken(srvQQ), refresh |-> NextToken(srvQQ)])
      BY <1>18, <2>2 DEF ServeChangePassword
    <3>3. NextToken(srvQQ) \in T
      BY <1>7, <3>1, <3>2 DEF IssueTo
    <3> QED BY <1>4, <1>10, <2>1, <3>2, <3>3
  <2>3. CASE ~(srvQQ # 0 /\ password[srvQQ] = requests[1].old)
    BY <1>4, <1>10, <1>18, <2>1, <2>3 DEF ServeChangePassword
  <2> QED BY <2>2, <2>3
<1>19. CASE ServeDelivered
  BY <1>2, <1>5, <1>19 DEF ServeDelivered
<1>20. CASE Answer
  <2>1. responses' = responses \o answer /\ answer' = <<>> /\ requests' = requests
    BY <1>20 DEF Answer
  <2>2. answer \in Seq(S)
    BY <1>2, <1>4, SeqMonotonic
  <2>3. responses \o answer \in Seq(S)
    BY <1>2, <2>2, ConcatProperties
  <2>4. answer' \in Seq(L) /\ Len(answer') = 0
    BY <2>1, EmptySeq
  <2> QED BY <1>2, <2>1, <2>3, <2>4
<1>21. ASSUME NEW m \in Msgs, Push(m) PROVE Goal
  <2>1. responses' = Append(responses, [kind |-> "text", msg |-> m]) /\ UNCHANGED <<requests, answer>>
    BY <1>21 DEF Push
  <2>2. Append(responses, [kind |-> "text", msg |-> m]) \in Seq(S)
    BY <1>2, <1>4, AppendProperties
  <2> QED BY <1>2, <2>1, <2>2
<1>22. ASSUME NEW r \in R, Send(r) PROVE requests' \in Seq(R)
  BY <1>2, <1>22, AppendProperties DEF Send
<1>23. CASE Start
  <2>1. responses' = <<>> /\ answer' = <<>>
    BY <1>23 DEF Start
  <2>2. responses' \in Seq(S) /\ answer' \in Seq(L) /\ Len(answer') = 0
    BY <2>1, EmptySeq
  <2>3. CASE requests' = <<>>
    BY <2>2, <2>3, EmptySeq
  <2>4. CASE \E q \in SavedQQs : requests' = <<[kind |-> "tokenLogin", qq |-> q, token |-> accessFile[q]]>>
    <3>1. PICK q \in SavedQQs : requests' = <<[kind |-> "tokenLogin", qq |-> q, token |-> accessFile[q]]>>
      BY <2>4
    <3>2. q \in QQs /\ accessFile[q] \in T
      BY <1>1 DEF SavedQQs, ClientTypeOK, FileContent
    <3>3. [kind |-> "tokenLogin", qq |-> q, token |-> accessFile[q]] \in R
      BY <1>3, <3>2
    <3> QED BY <2>2, <3>1, <3>3
  <2> QED BY <1>23, <2>3, <2>4 DEF Start
<1>24. CASE Keyboard
  <2>1. responses' = responses /\ answer' = answer
    BY <1>24 DEF Keyboard, TypeLogin, TypeRegister, TypeChangePassword, TypeLogout, Type, conn
  <2>2. requests' = requests \/ \E r \in R : Send(r)
    BY <1>3, <1>24 DEF Keyboard, TypeLogin, TypeRegister, TypeChangePassword, TypeLogout
  <2> QED BY <1>2, <1>22, <2>1, <2>2
<1>25. ASSUME NEW kind, Read(kind), requests' = requests \/ \E r \in R : Send(r) PROVE Goal
  BY <1>2, <1>6, <1>22, <1>25
<1>26. CASE ReadLoginOK \/ ReadLoginCrash \/ ReadRefreshFailed \/ ReadChanged \/ ReadShown
  BY <1>25, <1>26 DEF ReadLoginOK, ReadLoginCrash, ReadRefreshFailed, ReadChanged, ReadShown
<1>27. CASE ReadLoginFailed
  <2>1. CASE pending # 0 /\ refreshFile[pending] # NoToken
    <3>1. pending \in QQs /\ refreshFile[pending] \in T
      BY <1>1, <2>1 DEF ClientTypeOK, FileContent
    <3>2. [kind |-> "refresh", qq |-> pending, token |-> refreshFile[pending]] \in R
      BY <1>3, <3>1
    <3> QED BY <1>25, <1>27, <3>2 DEF ReadLoginFailed
  <2>2. CASE ~(pending # 0 /\ refreshFile[pending] # NoToken)
    BY <1>25, <1>27, <2>2 DEF ReadLoginFailed
  <2> QED BY <2>1, <2>2
<1>28. CASE ReadRefreshOK
  <2>1. responses[1].access \in T /\ pending \in QQs \cup {0}
    BY <1>1, <1>6, <1>28, ResponseKinds DEF ReadRefreshOK, ClientTypeOK
  <2>2. [kind |-> "tokenLogin", qq |-> pending, token |-> responses[1].access] \in R
    BY <1>3, <2>1
  <2> QED BY <1>25, <1>28, <2>2 DEF ReadRefreshOK
<1>29. CASE ReadText
  <2>1. responses[1].msg \in Msgs
    BY <1>6, <1>29, ResponseKinds DEF ReadText
  <2>2. [kind |-> "delivered", msg |-> responses[1].msg] \in R
    BY <1>3, <2>1
  <2> QED BY <1>25, <1>29, <2>2 DEF ReadText
<1>30. CASE Reader
  BY <1>26, <1>27, <1>28, <1>29, <1>30 DEF Reader
<1>31. CASE Handler
  BY <1>13, <1>14, <1>15, <1>16, <1>17, <1>18, <1>19, <1>20, <1>31 DEF Handler
<1>32. CASE Environment
  BY <1>8, <1>9, <1>26, <1>32 DEF Environment, AccessExpires, RefreshExpires, OtherTerminal, ConnectionLost,
       ServerRestart, Stop, network
<1>33. CASE UNCHANGED vars
  BY <1>9, <1>33 DEF vars, conn
<1> QED
  BY <1>21, <1>23, <1>24, <1>30, <1>31, <1>32, <1>33 DEF Next

\* The first response, and the rest.
LEMMA ReadFirst ==
  ASSUME responses \in Seq(Responses), NEW kind, Read(kind)
  PROVE  /\ Len(responses) \in Nat \ {0} /\ Len(responses') = Len(responses) - 1
         /\ DOMAIN responses = 1..Len(responses) /\ DOMAIN responses' = 1..(Len(responses) - 1)
         /\ \A i \in DOMAIN responses' : i + 1 \in DOMAIN responses /\ responses'[i] = responses[i + 1]
         /\ 1 \in DOMAIN responses /\ responses[1] \in Responses /\ responses[1].kind = kind
         /\ running /\ UNCHANGED <<up, conn, users, hasty, early, bounds>>
<1>1. responses # <<>> /\ responses' = Tail(responses) /\ responses[1].kind = kind
      /\ running /\ UNCHANGED <<up, conn, users, hasty, early, bounds>>
  BY DEF Read
<1>2. Len(responses) \in Nat \ {0} /\ DOMAIN responses = 1..Len(responses)
  BY <1>1, EmptySeq, LenProperties
<1>3. /\ Tail(responses) \in Seq(Responses) /\ Len(Tail(responses)) = Len(responses) - 1
      /\ \A i \in 1..(Len(responses) - 1) : Tail(responses)[i] = responses[i + 1]
  BY <1>1, HeadTailProperties
<1>4. DOMAIN responses' = 1..(Len(responses) - 1)
  BY <1>1, <1>3, LenProperties
<1>5. 1 \in 1..Len(responses) /\ \A i \in 1..(Len(responses) - 1) : i + 1 \in 1..Len(responses)
  BY <1>2
<1> QED BY <1>1, <1>2, <1>3, <1>4, <1>5, ElementOfSeq

MemoryTypes ==
  /\ running \in BOOLEAN /\ up \in BOOLEAN
  /\ {myQQ, currentQQ, pending, srvQQ} \subseteq QQs \cup {0}
  /\ routes \subseteq QQs /\ pushed \subseteq Msgs
  /\ hasty \in BOOLEAN /\ left \subseteq QQs /\ early \subseteq Msgs
  /\ commands \in 0..MaxCommands /\ events \in 0..MaxEvents

LEMMA MemoryStep ==
  ASSUME ClientTypeOK, [Next]_vars
  PROVE  MemoryTypes'
<1>1. MemoryTypes /\ requests \in Seq(Requests) /\ responses \in Seq(Responses)
  BY DEF ClientTypeOK, MemoryTypes
<1> USE DEF MemoryTypes
<1>2. UNCHANGED <<running, up, memory, srvQQ, routes, pushed, history, bounds>> => MemoryTypes'
  BY <1>1 DEF memory, history, bounds
<1>3. CASE Start
  <2>1. pending' \in QQs \cup {0}
    BY <1>3 DEF Start, SavedQQs
  <2>2. running' \in BOOLEAN /\ up' \in BOOLEAN /\ hasty' \in BOOLEAN
    BY <1>1, <1>3 DEF Start
  <2>3. /\ myQQ' = 0 /\ currentQQ' = 0 /\ srvQQ' = 0 /\ routes' = {} /\ pushed' = {} /\ left' = {} /\ early' = {}
        /\ UNCHANGED bounds
    BY <1>3 DEF Start
  <2> QED BY <1>1, <2>1, <2>2, <2>3 DEF bounds
<1>4. ASSUME Type, myQQ' \in QQs \cup {0}, currentQQ' \in QQs \cup {0}, pending' \in QQs \cup {0}, left' \subseteq QQs
      PROVE  MemoryTypes'
  <2>1. hasty' \in BOOLEAN
    BY <1>4, Zenon DEF Type, Outstanding
  <2>2. commands' \in 0..MaxCommands
    BY <1>1, <1>4, ClientAssumption DEF Type
  <2>3. UNCHANGED <<running, up, srvQQ, routes, pushed, early, events>>
    BY <1>4 DEF Type, conn
  <2> QED BY <1>1, <1>4, <2>1, <2>2, <2>3
<1>5. CASE Keyboard
  <2>1. myQQ \in QQs \cup {0} /\ currentQQ \in QQs \cup {0} /\ pending \in QQs \cup {0} /\ left \subseteq QQs
    BY <1>1
  <2>2. ASSUME NEW q \in QQs, NEW p \in Passwords, TypeLogin(q, p) PROVE MemoryTypes'
    <3>1. Type /\ pending' = q /\ myQQ' = myQQ /\ currentQQ' = currentQQ /\ left' = left
      BY <2>2 DEF TypeLogin
    <3> QED BY <1>4, <2>1, <3>1
  <2>3. ASSUME NEW p \in Passwords, TypeRegister(p) PROVE MemoryTypes'
    <3>1. Type /\ pending' = 0 /\ myQQ' = myQQ /\ currentQQ' = currentQQ /\ left' = left
      BY <2>3 DEF TypeRegister
    <3> QED BY <1>4, <2>1, <3>1
  <2>4. ASSUME NEW old \in Passwords, NEW new \in Passwords, TypeChangePassword(old, new) PROVE MemoryTypes'
    <3>1. Type /\ pending' = pending /\ myQQ' = myQQ /\ currentQQ' = currentQQ /\ left' = left
      BY <2>4 DEF TypeChangePassword, memory
    <3> QED BY <1>4, <2>1, <3>1
  <2>5. CASE TypeLogout
    <3>1. Type /\ pending' = pending /\ myQQ' = 0 /\ currentQQ' = 0 /\ left' = left \cup {myQQ} /\ myQQ # 0
      BY <2>5 DEF TypeLogout
    <3>2. left' \subseteq QQs
      BY <2>1, <3>1
    <3> QED BY <1>4, <2>1, <3>1, <3>2
  <2> QED BY <1>5, <2>2, <2>3, <2>4, <2>5 DEF Keyboard
<1>6. ASSUME UNCHANGED <<running, memory, pushed, history, bounds>>, up' \in BOOLEAN, srvQQ' \in QQs \cup {0},
             routes' \subseteq QQs
      PROVE  MemoryTypes'
  BY <1>1, <1>6 DEF memory, history, bounds
<1>7. ASSUME NEW kind, Serve(kind)
      PROVE  /\ UNCHANGED <<running, memory, pushed, history, bounds>>
             /\ requests[1] \in Requests /\ requests[1].kind = kind
  <2>1. requests # <<>> /\ requests[1].kind = kind
    BY <1>7 DEF Serve
  <2>2. 1 \in 1..Len(requests)
    BY <1>1, <2>1, EmptySeq
  <2> QED BY <1>1, <1>7, <2>1, <2>2, ElementOfSeq DEF Serve
<1>8. ASSUME NEW q \in QQs, NEW a, NEW r, Bind(q, a, r) PROVE srvQQ' \in QQs \cup {0} /\ routes' \subseteq QQs /\ up' \in BOOLEAN
  BY <1>1, <1>8 DEF Bind, Close
<1>9. ASSUME NEW w, LoginFailed(w) PROVE srvQQ' \in QQs \cup {0} /\ routes' \subseteq QQs /\ up' \in BOOLEAN
  BY <1>1, <1>9 DEF LoginFailed, Reply
<1>10. CASE ServeLogin
  <2>1. requests[1].qq \in QQs
    BY <1>7, <1>10, RequestKinds DEF ServeLogin
  <2> QED BY <1>6, <1>7, <1>8, <1>9, <1>10, <2>1 DEF ServeLogin
<1>11. CASE ServeTokenLogin
  <2>1. Serve("tokenLogin") /\ requests[1].token \in Token
    BY <1>7, <1>11, RequestKinds DEF ServeTokenLogin
  <2>2. requests[1].token.qq \in QQs
    BY <2>1 DEF Token
  <2> QED BY <1>6, <1>7, <1>8, <1>9, <1>11, <2>1, <2>2 DEF ServeTokenLogin
<1>12. CASE ServeRefresh \/ ServeRegisterRefused \/ ServeChangePassword \/ ServeDelivered
  <2>1. \E kind : Serve(kind)
    BY <1>12 DEF ServeRefresh, ServeRegisterRefused, ServeChangePassword, ServeDelivered
  <2>2. UNCHANGED <<srvQQ, routes, up>>
    BY <1>12 DEF ServeRefresh, ServeRegisterRefused, ServeChangePassword, ServeDelivered, Reply
  <2> QED BY <1>1, <1>6, <1>7, <2>1, <2>2
<1>13. ASSUME NEW q \in QQs, ServeRegister(q) PROVE MemoryTypes'
  BY <1>1, <1>6, <1>7, <1>13 DEF ServeRegister
<1>14. CASE Answer
  BY <1>2, <1>14 DEF Answer
<1>15. CASE Handler
  BY <1>10, <1>11, <1>12, <1>13, <1>14, <1>15 DEF Handler
<1>16. ASSUME NEW kind, Read(kind), running' \in BOOLEAN, myQQ' \in QQs \cup {0}, currentQQ' \in QQs \cup {0},
              pending' \in QQs \cup {0}, left' \subseteq QQs
       PROVE  MemoryTypes'
  BY <1>1, <1>16 DEF Read, conn, bounds
<1>17. CASE ReadLoginOK
  <2>1. Read("loginOK") /\ responses[1].qq \in QQs
    BY <1>1, <1>17, ReadFirst, ResponseKinds DEF ReadLoginOK
  <2>2. /\ myQQ' \in QQs \cup {0} /\ currentQQ' \in QQs \cup {0} /\ pending' \in QQs \cup {0}
        /\ left' \subseteq QQs /\ running' \in BOOLEAN
    BY <1>1, <1>17, <2>1 DEF ReadLoginOK, LogIn, LoggedInAs
  <2> QED BY <1>16, <2>1, <2>2
<1>18. CASE ReadLoginCrash
  BY <1>1, <1>16, <1>18 DEF ReadLoginCrash, memory
<1>19. CASE ReadLoginFailed \/ ReadRefreshFailed
  <2>1. \E kind : Read(kind)
    BY <1>19 DEF ReadLoginFailed, ReadRefreshFailed
  <2>2. UNCHANGED <<running, myQQ, currentQQ, left>> /\ pending' \in {pending, 0}
    BY <1>19 DEF ReadLoginFailed, ReadRefreshFailed, KeepSession
  <2> QED BY <1>1, <1>16, <2>1, <2>2
<1>20. CASE ReadRefreshOK \/ ReadChanged \/ ReadShown \/ ReadText
  <2>1. \E kind : Read(kind)
    BY <1>20 DEF ReadRefreshOK, ReadChanged, ReadShown, ReadText
  <2>2. UNCHANGED <<running, myQQ, currentQQ, pending, left>>
    BY <1>20 DEF ReadRefreshOK, ReadChanged, ReadShown, ReadText, memory
  <2> QED BY <1>1, <1>16, <2>1, <2>2
<1>21. CASE Reader
  BY <1>17, <1>19, <1>20, <1>21 DEF Reader
<1>22. ASSUME Event, running' \in BOOLEAN, up' \in BOOLEAN, UNCHANGED <<srvQQ, routes>> PROVE MemoryTypes'
  <2>1. events' \in 0..MaxEvents /\ commands' = commands
    BY <1>1, <1>22, ClientAssumption DEF Event
  <2>2. UNCHANGED <<memory, pushed, history>>
    BY <1>22 DEF Event
  <2> QED BY <1>1, <1>22, <2>1, <2>2 DEF memory, history
<1>23. CASE Environment
  BY <1>1, <1>18, <1>22, <1>23 DEF Environment, AccessExpires, RefreshExpires, OtherTerminal, ConnectionLost,
       ServerRestart, Stop, Close
<1>24. ASSUME NEW m \in Msgs, Push(m) PROVE MemoryTypes'
  BY <1>1, <1>24 DEF Push, memory, bounds
<1>25. CASE UNCHANGED vars
  BY <1>2, <1>25 DEF vars, conn
<1> QED BY <1>3, <1>5, <1>15, <1>21, <1>23, <1>24, <1>25 DEF Next

FileTypes ==
  /\ accessFile \in [QQs -> FileContent] /\ refreshFile \in [QQs -> FileContent]
  /\ logs \subseteq QQs \X Msgs

LEMMA FilesStep ==
  ASSUME ClientTypeOK, [Next]_vars
  PROVE  FileTypes'
<1>1. FileContent \subseteq FileContent' /\ Token \subseteq FileContent' /\ NoToken \in FileContent'
  <2>1. life \in Seq({"valid", "expired", "void"}) /\ life' \in Seq({"valid", "expired", "void"})
        /\ Len(life) <= Len(life')
    BY UsersStep DEF ClientTypeOK, UserTypes
  <2>2. Token \subseteq FileContent
    BY DEF FileContent
  <2>3. FileContent \subseteq FileContent'
    BY <2>1, TypesGrow
  <2>4. NoToken \in FileContent'
    BY DEF FileContent, NoToken
  <2> QED BY <2>2, <2>3, <2>4
<1> DEFINE F == FileContent'
<1>2. /\ accessFile \in [QQs -> F] /\ refreshFile \in [QQs -> F] /\ logs \subseteq QQs \X Msgs
      /\ {myQQ, pending} \subseteq QQs \cup {0} /\ responses \in Seq(Responses)
  BY <1>1 DEF ClientTypeOK
<1> DEFINE Goal == accessFile' \in [QQs -> F] /\ refreshFile' \in [QQs -> F] /\ logs' \subseteq QQs \X Msgs
<1> SUFFICES Goal
  BY DEF FileTypes
<1>3. FileContent \subseteq F /\ Token \subseteq F /\ NoToken \in F
  BY <1>1
<1> HIDE DEF F
<1>4. CASE UNCHANGED files
  BY <1>2, <1>4 DEF files
<1>5. ASSUME NEW q \in QQs \cup {0}, RemoveTokens(q) PROVE Goal
  BY <1>2, <1>3, <1>5 DEF RemoveTokens, WithAccess
<1>6. ASSUME NEW q \in QQs \cup {0}, NEW t \in F, NEW u \in F, SaveTokens(q, t, u) PROVE Goal
  BY <1>2, <1>3, <1>6 DEF SaveTokens, WithAccess, WithRefresh
<1>7. CASE TypeLogout
  BY <1>2, <1>5, <1>7 DEF TypeLogout
<1>8. CASE ReadLoginOK \/ ReadLoginCrash
  <2>1. Read("loginOK")
    BY <1>8 DEF ReadLoginOK, ReadLoginCrash
  <2>2. responses[1] \in Responses /\ responses[1].kind = "loginOK"
    BY <1>2, <2>1, ReadFirst
  <2>3. responses[1].qq \in QQs /\ responses[1].access \in F /\ responses[1].refresh \in F
    BY <1>3, <2>2, ResponseKinds
  <2>4. \E u \in F : SaveTokens(responses[1].qq, responses[1].access, u)
    BY <1>3, <1>8, <2>3 DEF ReadLoginOK, ReadLoginCrash
  <2> QED BY <1>6, <2>3, <2>4
<1>9. CASE ReadLoginFailed \/ ReadRefreshFailed
  <2>1. UNCHANGED files \/ RemoveTokens(pending)
    BY <1>9 DEF ReadLoginFailed, ReadRefreshFailed
  <2> QED BY <1>2, <1>4, <1>5, <2>1
<1>10. CASE ReadRefreshOK
  <2>1. Read("refreshOK") /\ SaveTokens(pending, responses[1].access, NoToken)
    BY <1>10 DEF ReadRefreshOK
  <2>2. responses[1] \in Responses /\ responses[1].kind = "refreshOK"
    BY <1>2, <2>1, ReadFirst
  <2>3. responses[1].access \in F
    BY <1>3, <2>2, ResponseKinds
  <2> QED BY <1>2, <1>3, <1>6, <2>1, <2>3
<1>11. CASE ReadChanged
  <2>1. Read("changed") /\ SaveTokens(myQQ, responses[1].access, responses[1].refresh)
    BY <1>11 DEF ReadChanged, Changer
  <2>2. responses[1] \in Responses /\ responses[1].kind = "changed"
    BY <1>2, <2>1, ReadFirst
  <2>3. responses[1].access \in F /\ responses[1].refresh \in F
    BY <1>3, <2>2, ResponseKinds
  <2> QED BY <1>2, <1>6, <2>1, <2>3
<1>12. CASE ReadText
  <2>1. responses[1] \in Responses /\ responses[1].kind = "text"
    BY <1>2, <1>12, ReadFirst DEF ReadText
  <2>2. responses[1].msg \in Msgs
    BY <2>1, ResponseKinds
  <2> QED BY <1>2, <1>12, <2>2 DEF ReadText, Logged
<1>13. CASE ReadShown
  BY <1>4, <1>13 DEF ReadShown
<1>14. CASE Keyboard
  BY <1>4, <1>7, <1>14 DEF Keyboard, TypeLogin, TypeRegister, TypeChangePassword
<1>15. CASE Handler
  BY <1>4, <1>15 DEF Handler, ServeLogin, ServeTokenLogin, ServeRefresh, ServeRegisterRefused, ServeRegister,
       ServeChangePassword, ServeDelivered, Answer, Serve
<1>16. CASE Environment
  BY <1>4, <1>8, <1>16 DEF Environment, AccessExpires, RefreshExpires, OtherTerminal, ConnectionLost,
       ServerRestart, Stop, Event
<1>17. CASE Start \/ (\E m \in Msgs : Push(m)) \/ UNCHANGED vars
  BY <1>4, <1>17 DEF Start, Push, vars
<1> QED
  BY <1>8, <1>9, <1>10, <1>11, <1>12, <1>13, <1>14, <1>15, <1>16, <1>17 DEF Next, Reader

LEMMA TypeStep == ClientTypeOK /\ [Next]_vars => ClientTypeOK'
<1> SUFFICES ASSUME ClientTypeOK, [Next]_vars PROVE ClientTypeOK'
  OBVIOUS
<1>1. UserTypes' /\ NetworkTypes' /\ MemoryTypes' /\ FileTypes'
  BY UsersStep, NetworkStep, MemoryStep, FilesStep
<1> QED BY <1>1 DEF UserTypes, NetworkTypes, MemoryTypes, FileTypes, ClientTypeOK

\* The accounts that are saved have a place each.
LEMMA FirstTokens ==
  /\ IsFiniteSet(Saved) /\ Cardinality(Saved) \in Nat
  /\ \A q \in QQs : FirstToken(q) \in 0..Cardinality(Saved)
  /\ \A q \in Saved : FirstToken(q) \in 1..Cardinality(Saved)
<1>1. IsFiniteSet(Saved) /\ Cardinality(Saved) \in Nat
  BY ClientAssumption, FS_Subset, FS_CardinalityType
<1>2. ASSUME NEW q \in Saved PROVE FirstToken(q) \in 1..Cardinality(Saved)
  <2> DEFINE S == {r \in Saved : r <= q}
  <2>1. S \in SUBSET Saved /\ q \in S
    BY ClientAssumption
  <2>2. IsFiniteSet(S) /\ Cardinality(S) <= Cardinality(Saved)
    BY <1>1, <2>1, FS_Subset
  <2>3. Cardinality(S) \in Nat /\ Cardinality(S) # 0
    BY <2>1, <2>2, FS_CardinalityType, FS_EmptySet
  <2> HIDE DEF S
  <2>4. Cardinality(S) \in 1..Cardinality(Saved)
    BY <1>1, <2>2, <2>3
  <2> QED BY <2>4 DEF FirstToken, S
<1>3. \A q \in QQs : q \notin Saved => FirstToken(q) = 0
  BY DEF FirstToken
<1>4. \A q \in QQs : FirstToken(q) \in 0..Cardinality(Saved)
  BY <1>1, <1>2, <1>3
<1> QED BY <1>1, <1>2, <1>4

LEMMA TypeInit == Init => ClientTypeOK
<1> SUFFICES ASSUME Init PROVE ClientTypeOK
  OBVIOUS
<1> DEFINE c == Cardinality(Saved)
<1>1. c \in Nat
  BY FirstTokens
<1>2. life = [n \in 1..c |-> "valid"]
  BY DEF Init
<1>3. life \in Seq({"valid", "expired", "void"}) /\ Len(life) = c
  <2>1. life \in [1..c -> {"valid", "expired", "void"}]
    BY <1>2
  <2>2. life \in Seq({"valid", "expired", "void"})
    BY <1>1, <2>1, SeqDef
  <2>3. DOMAIN life = 1..Len(life) /\ DOMAIN life = 1..c /\ Len(life) \in Nat
    BY <1>2, <2>2, LenProperties
  <2> QED BY <1>1, <2>2, <2>3, SameInterval
<1>4. refreshOf \in [QQs -> 0..Len(life)]
  <2>1. refreshOf = [q \in QQs |-> FirstToken(q)]
    BY DEF Init
  <2> QED BY <1>3, <2>1, FirstTokens
<1>5. \A q \in Saved : [qq |-> q, n |-> FirstToken(q)] \in Token
  BY <1>3, FirstTokens, ClientAssumption DEF Token
<1>6. accessFile \in [QQs -> FileContent] /\ refreshFile \in [QQs -> FileContent]
  BY <1>5 DEF Init, FileContent
<1>7. password \in [QQs -> Passwords \cup {NoPassword}]
  BY ClientAssumption DEF Init
<1>8. /\ requests \in Seq(Requests) /\ responses \in Seq(Responses)
      /\ answer \in Seq(LoginResponse) /\ Len(answer) = 0
  BY EmptySeq DEF Init
<1>9. /\ running \in BOOLEAN /\ up \in BOOLEAN
      /\ {myQQ, currentQQ, pending, srvQQ} \subseteq QQs \cup {0}
      /\ logs \subseteq QQs \X Msgs /\ routes \subseteq QQs /\ pushed \subseteq Msgs
      /\ hasty \in BOOLEAN /\ left \subseteq QQs /\ early \subseteq Msgs
  BY DEF Init
<1>10. commands \in 0..MaxCommands /\ events \in 0..MaxEvents
  BY ClientAssumption DEF Init
<1> HIDE DEF c
<1> QED BY <1>1, <1>3, <1>4, <1>6, <1>7, <1>8, <1>9, <1>10 DEF ClientTypeOK

\* What the terminal, the server and the messages under way hold keeps its types:
\* no token has a number that was never given, and no file or log is nobody's.
THEOREM ClientTypeCorrect == Spec => []ClientTypeOK
BY TypeInit, TypeStep, PTL DEF Spec

-----------------------------------------------------------------------------
(* What a step does to the answers and messages under way, as far as the    *)
(* connection is open and the terminal runs afterwards.                     *)

Done == "loginOK"
Session == <<running, up, answer, srvQQ, routes, myQQ, left, early>>

Began == responses' = <<>> /\ answer' = <<>> /\ srvQQ' = 0 /\ routes' = {} /\ myQQ' = 0

\* Something is written that is neither a login's answer nor a message.
Spoken == /\ \E r : r.kind \notin {Done, "text"} /\ responses' = Append(responses, r)
          /\ UNCHANGED Session

Accepted == /\ answer = <<>> /\ Len(answer') = 1 /\ answer' # <<>>
            /\ answer'[1].kind = Done /\ answer'[1].qq = srvQQ' /\ routes' = routes \cup {srvQQ'}
            /\ responses' = responses \/ responses' = Append(responses, [kind |-> "shown"])
            /\ UNCHANGED <<running, up, myQQ, left, early>>

Written == /\ answer # <<>> /\ responses' = Append(responses, answer[1]) /\ answer' = <<>>
             /\ UNCHANGED <<running, up, srvQQ, routes, myQQ, left, early>>

\* Something is read that is not a login's answer.
Heard == /\ \E kind : kind # Done /\ Read(kind)
         /\ UNCHANGED Session

LoggedOut == /\ myQQ # 0 /\ myQQ' = 0 /\ left' = left \cup {myQQ}
             /\ UNCHANGED <<running, up, responses, answer, srvQQ, routes, early>>

Happens ==
  \/ Began \/ Spoken \/ Accepted \/ Written \/ Heard \/ LoggedOut \/ ReadLoginOK
  \/ \E m \in Msgs : Push(m)
  \/ UNCHANGED <<responses, Session>>

\* There is one answer at most.
LEMMA AnswerAppended ==
  ASSUME responses \in Seq(Responses), answer \in Seq(LoginResponse), Len(answer) <= 1, answer # <<>>
  PROVE  responses \o answer = Append(responses, answer[1]) /\ DOMAIN answer = {1} /\ answer[1] \in LoginResponse
<1>1. Len(answer) = 1
  <2> DEFINE n == Len(answer)
  <2>1. n \in Nat /\ n # 0 /\ n <= 1
    BY EmptySeq
  <2> HIDE DEF n
  <2>2. n = 1
    BY <2>1
  <2> QED BY <2>2 DEF n
<1>2. 1 \in 1..Len(answer) /\ DOMAIN answer = 1..Len(answer)
  BY <1>1, LenProperties
<1>3. answer[1] \in LoginResponse
  BY <1>2, ElementOfSeq
<1>4. <<answer[1]>> \in Seq(LoginResponse) /\ Len(<<answer[1]>>) = 1
  BY <1>3
<1>5. \A i \in 1..Len(answer) : answer[i] = <<answer[1]>>[i]
  BY <1>1
<1>6. answer = <<answer[1]>>
  BY <1>1, <1>3, <1>4, <1>5, SeqEqual
<1>7. answer[1] \in Responses
  BY <1>3 DEF Responses
<1>8. Append(responses, answer[1]) = responses \o <<answer[1]>>
  BY <1>7, AppendIsConcat
<1>9. DOMAIN answer = {1}
  BY <1>1, <1>2
<1>10. responses \o answer = responses \o <<answer[1]>>
  BY <1>6
<1> QED BY <1>3, <1>8, <1>9, <1>10

LEMMA WhatHappens ==
  ASSUME ClientTypeOK, [Next]_vars, running', up'
  PROVE  Happens
<1>1. /\ requests \in Seq(Requests) /\ responses \in Seq(Responses)
      /\ answer \in Seq(LoginResponse) /\ Len(answer) <= 1
  BY DEF ClientTypeOK
<1>2. ASSUME NEW r, r.kind \notin {Done, "text"}, Reply(r), UNCHANGED <<running, srvQQ, routes, myQQ, left, early>>
      PROVE  Spoken
  BY <1>2 DEF Reply, Spoken, Session
<1>3. ASSUME NEW kind, Serve(kind) PROVE UNCHANGED <<running, myQQ, left, early>> /\ answer = <<>>
  BY <1>3 DEF Serve, memory, history
<1>4. ASSUME NEW q, NEW t, NEW u, NEW kind, Serve(kind), Bind(q, t, u) PROVE Accepted
  <2>1. q \notin routes
    BY <1>4 DEF Bind, Close
  <2>2. /\ answer' = <<[kind |-> Done, qq |-> q, access |-> t, refresh |-> u]>>
        /\ srvQQ' = q /\ routes' = routes \cup {q} /\ responses' = responses /\ up' = up
    BY <1>4, <2>1 DEF Bind, Done
  <2>3. Len(answer') = 1 /\ answer' # <<>> /\ answer'[1] = [kind |-> Done, qq |-> q, access |-> t, refresh |-> u]
    BY <2>2
  <2> QED BY <1>3, <1>4, <2>2, <2>3 DEF Accepted
<1>5. ASSUME NEW w, NEW kind, Serve(kind), LoginFailed(w) PROVE Spoken
  <2> DEFINE r == [kind |-> "loginFailed", why |-> w]
  <2>1. r.kind \notin {Done, "text"} /\ Reply(r) /\ UNCHANGED <<srvQQ, routes>>
    BY <1>5 DEF LoginFailed, Done
  <2> HIDE DEF r
  <2> QED BY <1>2, <1>3, <1>5, <2>1
<1>6. CASE ServeLogin
  BY <1>4, <1>5, <1>6 DEF ServeLogin, Happens
<1>7. CASE ServeTokenLogin
  BY <1>4, <1>5, <1>7 DEF ServeTokenLogin, Happens
<1>8. CASE ServeRefresh
  <2>1. Serve("refresh") /\ UNCHANGED <<srvQQ, routes>>
    BY <1>8 DEF ServeRefresh
  <2>2. \E r : r.kind \notin {Done, "text"} /\ Reply(r)
    BY <1>8 DEF ServeRefresh, Done
  <2> QED BY <1>2, <1>3, <2>1, <2>2 DEF Happens
<1>9. CASE ServeRegisterRefused
  <2>1. Serve("register") /\ UNCHANGED <<srvQQ, routes>>
    BY <1>9 DEF ServeRegisterRefused
  <2>2. \E r : r.kind \notin {Done, "text"} /\ Reply(r)
    BY <1>9 DEF ServeRegisterRefused, Done
  <2> QED BY <1>2, <1>3, <2>1, <2>2 DEF Happens
<1>10. CASE ServeChangePassword
  <2>1. Serve("change") /\ UNCHANGED <<srvQQ, routes>>
    BY <1>10 DEF ServeChangePassword
  <2>2. \E r : r.kind \notin {Done, "text"} /\ Reply(r)
    BY <1>10 DEF ServeChangePassword, Done
  <2> QED BY <1>2, <1>3, <2>1, <2>2 DEF Happens
<1>11. ASSUME NEW q \in QQs, ServeRegister(q) PROVE Accepted
  <2> DEFINE a == [kind |-> Done, qq |-> q, access |-> NextToken(q), refresh |-> NextToken(q)]
  <2>1. /\ answer' = <<a>> /\ srvQQ' = q /\ routes' = routes \cup {q} /\ up' = up
        /\ responses' = Append(responses, [kind |-> "shown"]) /\ Serve("register")
    BY <1>11 DEF ServeRegister, Done
  <2>2. a.kind = Done /\ a.qq = q
    OBVIOUS
  <2> HIDE DEF a
  <2>3. Len(answer') = 1 /\ answer' # <<>> /\ answer'[1] = a
    BY <2>1
  <2> QED BY <1>3, <2>1, <2>2, <2>3 DEF Accepted
<1>12. CASE ServeDelivered
  BY <1>3, <1>12 DEF ServeDelivered, Happens, Session
<1>13. CASE Answer
  <2>1. answer # <<>> /\ responses' = responses \o answer /\ answer' = <<>>
        /\ UNCHANGED <<running, up, srvQQ, routes, myQQ, left, early>>
    BY <1>13 DEF Answer, memory, history
  <2>2. responses' = Append(responses, answer[1])
    BY <1>1, <2>1, AnswerAppended
  <2> QED BY <2>1, <2>2 DEF Written, Happens
<1>14. CASE Handler
  BY <1>6, <1>7, <1>8, <1>9, <1>10, <1>11, <1>12, <1>13, <1>14 DEF Handler, Happens
<1>15. ASSUME NEW kind, kind # Done, Read(kind), UNCHANGED <<running, myQQ, left>> PROVE Heard
  BY <1>15 DEF Heard, Read, Session, conn
<1>16. CASE ReadLoginFailed \/ ReadRefreshFailed
  <2>1. \E kind : kind # Done /\ Read(kind)
    BY <1>16 DEF ReadLoginFailed, ReadRefreshFailed, Done
  <2>2. UNCHANGED <<running, myQQ, left>>
    BY <1>16 DEF ReadLoginFailed, ReadRefreshFailed, KeepSession
  <2> QED BY <1>15, <2>1, <2>2 DEF Happens
<1>17. CASE ReadRefreshOK \/ ReadChanged \/ ReadShown \/ ReadText
  <2>1. \E kind : kind # Done /\ Read(kind)
    BY <1>17 DEF ReadRefreshOK, ReadChanged, ReadShown, ReadText, Done
  <2>2. UNCHANGED <<running, myQQ, left>>
    BY <1>17 DEF ReadRefreshOK, ReadChanged, ReadShown, ReadText, memory
  <2> QED BY <1>15, <2>1, <2>2 DEF Happens
<1>18. CASE Reader
  BY <1>16, <1>17, <1>18 DEF Reader, Happens
<1>19. CASE TypeLogout
  BY <1>19 DEF TypeLogout, Type, LoggedOut, Happens, conn
<1>20. CASE Keyboard
  <2>1. CASE ~TypeLogout
    BY <1>20, <2>1 DEF Keyboard, TypeLogin, TypeRegister, TypeChangePassword, Type, Happens, Session, conn, memory
  <2> QED BY <1>19, <2>1
<1>21. CASE Environment
  <2>1. ~ConnectionLost /\ ~ServerRestart /\ ~Stop /\ ~ReadLoginCrash
    BY DEF ConnectionLost, ServerRestart, Stop, ReadLoginCrash, Close
  <2>2. ASSUME NEW q \in QQs, NEW p \in Passwords, OtherTerminal(q, p) PROVE UNCHANGED <<responses, Session>>
    BY <2>2 DEF OtherTerminal, Event, Close, Session, memory, history, network
  <2>3. ASSUME NEW n \in DOMAIN life, AccessExpires(n) PROVE UNCHANGED <<responses, Session>>
    BY <2>3 DEF AccessExpires, Event, Session, memory, history, network
  <2>4. ASSUME NEW q \in QQs, RefreshExpires(q) PROVE UNCHANGED <<responses, Session>>
    BY <2>4 DEF RefreshExpires, Event, Session, memory, history, network
  <2> QED BY <1>21, <2>1, <2>2, <2>3, <2>4 DEF Environment, Happens
<1>22. CASE Start
  BY <1>22 DEF Start, Began, Happens
<1>23. CASE UNCHANGED vars
  BY <1>23 DEF vars, Happens, Session, conn, memory, history, network
<1> QED BY <1>14, <1>18, <1>20, <1>21, <1>22, <1>23 DEF Next, Happens

-----------------------------------------------------------------------------
(* The session of the terminal and that of the server.                     *)

\* The last login that the server accepted is still to be answered or read, or
\* the terminal has read it.
LoginIsLast(i) ==
  /\ responses[i].kind = Done /\ responses[i].qq = srvQQ
  /\ \A j \in DOMAIN responses : i < j => responses[j].kind # Done

SessionInv ==
  running /\ up =>
    \/ answer # <<>> /\ answer[1].kind = Done /\ answer[1].qq = srvQQ
    \/ answer = <<>> /\ \E i \in DOMAIN responses : LoginIsLast(i)
    \/ /\ answer = <<>>
       /\ \A i \in DOMAIN responses : responses[i].kind # Done
       /\ myQQ = srvQQ \/ (myQQ = 0 /\ srvQQ \in left)

\* The terminal has been logged into account q, or will have been when it has read
\* the first n responses.
Visits(q, n) ==
  \/ q = myQQ \/ q \in left
  \/ \E i \in DOMAIN responses : i <= n /\ responses[i].kind = Done /\ responses[i].qq = q

\* The server has the connection under such numbers only, and sends the messages
\* of no other after the answer to the login.
RoutesInv ==
  running /\ up =>
    \A q \in routes : Visits(q, Len(responses)) \/ (answer # <<>> /\ answer[1].qq = q)

TextInv ==
  running /\ up =>
    \A i \in DOMAIN responses : responses[i].kind = "text" =>
      responses[i].msg \in early \/ Visits(To[responses[i].msg], i)

LEMMA Appended ==
  ASSUME NEW S, NEW s \in Seq(S), NEW e
  PROVE  /\ Len(s) \in Nat /\ DOMAIN s = 1..Len(s)
         /\ Len(Append(s, e)) = Len(s) + 1 /\ DOMAIN Append(s, e) = 1..(Len(s) + 1)
         /\ \A i \in DOMAIN s : Append(s, e)[i] = s[i]
         /\ Append(s, e)[Len(s) + 1] = e
<1>1. s \in Seq(S \cup {e})
  BY SeqMonotonic
<1>2. Append(s, e) \in Seq(S \cup {e})
  BY <1>1, AppendProperties
<1> QED BY <1>1, <1>2, AppendProperties, LenProperties

LEMMA SessionAppend ==
  ASSUME responses \in Seq(Responses), NEW r, responses' = Append(responses, r)
  PROVE  /\ r.kind # Done => \A i \in DOMAIN responses :
              /\ srvQQ' = srvQQ /\ LoginIsLast(i) => LoginIsLast(i)' /\ i \in DOMAIN responses'
         /\ r.kind # Done /\ (\A i \in DOMAIN responses : responses[i].kind # Done)
              => \A i \in DOMAIN responses' : responses'[i].kind # Done
         /\ r.kind = Done /\ r.qq = srvQQ' => \E i \in DOMAIN responses' : LoginIsLast(i)'
<1> DEFINE n == Len(responses)
           new == responses'
           qq == srvQQ'
<1>1. /\ n \in Nat /\ DOMAIN responses = 1..n /\ DOMAIN new = 1..(n + 1)
      /\ \A i \in DOMAIN responses : new[i] = responses[i]
      /\ new[n + 1] = r
  BY Appended
<1>2. ASSUME NEW i
      PROVE  LoginIsLast(i)' <=> /\ new[i].kind = Done /\ new[i].qq = qq
                                 /\ \A j \in DOMAIN new : i < j => new[j].kind # Done
  BY DEF LoginIsLast
<1> HIDE DEF n, new, qq
<1>3. \A i \in 1..(n + 1) : i \in 1..n \/ i = n + 1
  BY <1>1
<1>4. ASSUME r.kind # Done, NEW i \in DOMAIN responses, qq = srvQQ, LoginIsLast(i)
      PROVE  LoginIsLast(i)' /\ i \in DOMAIN new
  <2>1. i \in DOMAIN new
    BY <1>1
  <2>2. ASSUME NEW j \in DOMAIN new, i < j PROVE new[j].kind # Done
    BY <1>1, <1>3, <1>4, <2>2 DEF LoginIsLast
  <2> QED BY <1>1, <1>2, <1>4, <2>1, <2>2 DEF LoginIsLast
<1>5. ASSUME r.kind = Done, r.qq = qq PROVE \E i \in DOMAIN new : LoginIsLast(i)'
  <2>1. n + 1 \in DOMAIN new /\ \A j \in DOMAIN new : ~(n + 1 < j)
    BY <1>1
  <2> QED BY <1>1, <1>2, <1>5, <2>1
<1>6. r.kind # Done /\ (\A i \in DOMAIN responses : responses[i].kind # Done)
        => \A i \in DOMAIN new : new[i].kind # Done
  BY <1>1, <1>3
<1> QED BY <1>4, <1>5, <1>6 DEF new, qq

LEMMA SessionRead ==
  ASSUME responses \in Seq(Responses), NEW kind, Read(kind), srvQQ' = srvQQ
  PROVE  /\ (\E i \in DOMAIN responses : LoginIsLast(i)) =>
              \/ \E i \in DOMAIN responses' : LoginIsLast(i)'
              \/ /\ kind = Done /\ responses[1].qq = srvQQ
                 /\ \A i \in DOMAIN responses' : responses'[i].kind # Done
         /\ (\A i \in DOMAIN responses : responses[i].kind # Done)
              => kind # Done /\ \A i \in DOMAIN responses' : responses'[i].kind # Done
<1> DEFINE n == Len(responses)
           new == responses'
<1>1. /\ n \in Nat \ {0} /\ DOMAIN responses = 1..n /\ DOMAIN new = 1..(n - 1)
      /\ \A i \in DOMAIN new : i + 1 \in DOMAIN responses /\ new[i] = responses[i + 1]
      /\ 1 \in DOMAIN responses /\ responses[1].kind = kind
  BY ReadFirst
<1>2. ASSUME NEW i
      PROVE  LoginIsLast(i)' <=> /\ new[i].kind = Done /\ new[i].qq = srvQQ
                                 /\ \A j \in DOMAIN new : i < j => new[j].kind # Done
  BY DEF LoginIsLast
<1> HIDE DEF n, new
<1>3. ASSUME NEW i \in DOMAIN responses, LoginIsLast(i)
      PROVE  \/ \E k \in DOMAIN new : LoginIsLast(k)'
             \/ kind = Done /\ responses[1].qq = srvQQ /\ \A k \in DOMAIN new : new[k].kind # Done
  <2>1. CASE i = 1
    <3>1. \A k \in DOMAIN new : 1 < k + 1
      BY <1>1
    <3> QED BY <1>1, <1>3, <2>1, <3>1 DEF LoginIsLast
  <2>2. CASE i # 1
    <3>1. i - 1 \in DOMAIN new /\ (i - 1) + 1 = i
      BY <1>1, <2>2
    <3>2. \A j \in DOMAIN new : i - 1 < j => i < j + 1
      BY <1>1, <3>1
    <3> QED BY <1>1, <1>2, <1>3, <3>1, <3>2 DEF LoginIsLast
  <2> QED BY <2>1, <2>2
<1> QED BY <1>1, <1>3 DEF new

LEMMA SessionStep ==
  ASSUME ClientTypeOK, SessionInv, [Next]_vars
  PROVE  SessionInv'
<1> DEFINE A == answer # <<>> /\ answer[1].kind = Done /\ answer[1].qq = srvQQ
           B == answer = <<>> /\ \E i \in DOMAIN responses : LoginIsLast(i)
           None == \A i \in DOMAIN responses : responses[i].kind # Done
           Same == myQQ = srvQQ \/ (myQQ = 0 /\ srvQQ \in left)
           Agree == A \/ B \/ (answer = <<>> /\ None /\ Same)
<1> SUFFICES ASSUME running', up' PROVE Agree'
  BY DEF SessionInv
<1>1. Happens /\ responses \in Seq(Responses)
  BY WhatHappens DEF ClientTypeOK
<1>2. running /\ up => Agree
  BY DEF SessionInv
<1>3. A' <=> answer' # <<>> /\ answer'[1].kind = Done /\ answer'[1].qq = srvQQ'
  OBVIOUS
<1>4. B' <=> answer' = <<>> /\ \E i \in DOMAIN responses' : LoginIsLast(i)'
  OBVIOUS
<1>5. None' <=> \A i \in DOMAIN responses' : responses'[i].kind # Done
  OBVIOUS
<1>6. Same' <=> myQQ' = srvQQ' \/ (myQQ' = 0 /\ srvQQ' \in left')
  OBVIOUS
<1>7. CASE Began
  BY <1>7 DEF Began
<1>8. CASE UNCHANGED <<responses, Session>>
  <2>1. B => B'
    BY <1>4, <1>8 DEF Session, LoginIsLast
  <2>2. None => None'
    BY <1>5, <1>8
  <2> QED BY <1>2, <1>3, <1>6, <1>8, <2>1, <2>2 DEF Session
<1>9. ASSUME running, up, UNCHANGED <<answer, srvQQ, myQQ, left>>, NEW r, r.kind # Done, responses' = Append(responses, r)
      PROVE  Agree'
  <2>1. B => B'
    BY <1>1, <1>4, <1>9, SessionAppend
  <2>2. None => None'
    BY <1>1, <1>5, <1>9, SessionAppend
  <2> QED BY <1>2, <1>3, <1>6, <1>9, <2>1, <2>2
<1>10. CASE Spoken
  BY <1>9, <1>10 DEF Spoken, Session
<1>11. ASSUME NEW m \in Msgs, Push(m) PROVE Agree'
  <2> DEFINE r == [kind |-> "text", msg |-> m]
  <2>1. r.kind # Done /\ responses' = Append(responses, r) /\ running /\ up /\ UNCHANGED <<answer, srvQQ, myQQ, left>>
    BY <1>11 DEF Push, memory, Done
  <2> HIDE DEF r
  <2> QED BY <1>9, <2>1
<1>12. CASE Accepted
  BY <1>3, <1>12 DEF Accepted
<1>13. CASE Written
  <2>1. answer[1].kind = Done /\ answer[1].qq = srvQQ'
    BY <1>2, <1>13 DEF Written
  <2>2. \E i \in DOMAIN responses' : LoginIsLast(i)'
    BY <1>1, <1>13, <2>1, SessionAppend DEF Written
  <2> QED BY <1>4, <1>13, <2>2 DEF Written
<1>14. CASE Heard
  <2>1. PICK kind : kind # Done /\ Read(kind)
    BY <1>14 DEF Heard
  <2>2. running /\ up /\ UNCHANGED <<answer, srvQQ, myQQ, left>>
    BY <1>14 DEF Heard, Session
  <2>3. B => B'
    BY <1>1, <1>4, <2>1, <2>2, SessionRead
  <2>4. None => None'
    BY <1>1, <1>5, <2>1, <2>2, SessionRead
  <2> QED BY <1>2, <1>3, <1>6, <2>2, <2>3, <2>4
<1>15. CASE LoggedOut
  <2>1. B => B'
    BY <1>4, <1>15 DEF LoggedOut, LoginIsLast
  <2>2. None => None'
    BY <1>5, <1>15 DEF LoggedOut
  <2>3. Same => Same'
    BY <1>6, <1>15 DEF LoggedOut
  <2> QED BY <1>2, <1>3, <1>15, <2>1, <2>2, <2>3 DEF LoggedOut
<1>16. CASE ReadLoginOK
  <2>1. Read(Done) /\ myQQ' = responses[1].qq /\ running' = running
    BY <1>16 DEF ReadLoginOK, LogIn, LoggedInAs, Done
  <2>2. UNCHANGED <<up, answer, srvQQ>>
    BY <2>1 DEF Read, conn
  <2>3. B => B' \/ (answer' = <<>> /\ None' /\ Same')
    BY <1>1, <1>4, <1>5, <1>6, <2>1, <2>2, SessionRead
  <2>4. None => FALSE
    BY <1>1, <2>1, <2>2, SessionRead
  <2>5. A => A'
    BY <1>3, <2>2
  <2> QED BY <1>2, <2>1, <2>2, <2>3, <2>4, <2>5
<1> QED BY <1>1, <1>7, <1>8, <1>10, <1>11, <1>12, <1>13, <1>14, <1>15, <1>16 DEF Happens

\* Once everything is answered, the terminal is logged into the account that the
\* server has its connection under, or has logged out: the last login accepted is
\* the last one read, however many commands were typed meanwhile.
THEOREM SessionAgreesHolds == Spec => []SessionAgrees
<1>1. Init => SessionInv
  BY DEF Init, SessionInv
<1>2. SessionInv => SessionAgrees
  <2> SUFFICES ASSUME SessionInv, running, up, ~Outstanding PROVE myQQ = srvQQ \/ (myQQ = 0 /\ srvQQ \in left)
    BY DEF SessionAgrees
  <2>1. answer = <<>> /\ \A i \in DOMAIN responses : responses[i].kind = "text"
    BY DEF Outstanding
  <2>2. \A i \in DOMAIN responses : responses[i].kind # Done
    BY <2>1 DEF Done
  <2> QED BY <2>1, <2>2 DEF SessionInv, LoginIsLast
<1>3. ClientTypeOK /\ SessionInv /\ [Next]_vars => SessionInv'
  BY SessionStep
<1> QED BY <1>1, <1>2, <1>3, ClientTypeCorrect, PTL DEF Spec

-----------------------------------------------------------------------------
(* Whose messages are on the way, and in whose log they end.               *)

\* What the terminal visits, it still does after a step: an account that is left
\* is in left.
LEMMA VisitsAppend ==
  ASSUME responses \in Seq(Responses), NEW r, responses' = Append(responses, r), UNCHANGED <<myQQ, left>>, NEW q
  PROVE  /\ \A n \in Nat : Visits(q, n) => Visits(q, n)'
         /\ Len(responses) \in Nat /\ Len(responses') = Len(responses) + 1
         /\ Visits(q, Len(responses)) => Visits(q, Len(responses))'
         /\ r.kind = Done /\ r.qq = q => Visits(q, Len(responses))'
<1> DEFINE n == Len(responses)
           new == responses'
           len == Len(responses')
<1>1. /\ n \in Nat /\ DOMAIN responses = 1..n /\ DOMAIN new = 1..(n + 1) /\ len = n + 1
      /\ \A i \in DOMAIN responses : new[i] = responses[i]
      /\ new[n + 1] = r
  BY Appended
<1>2. ASSUME NEW k
      PROVE  Visits(q, k)' <=> \/ q = myQQ \/ q \in left
                               \/ \E i \in DOMAIN new : i <= k /\ new[i].kind = Done /\ new[i].qq = q
  BY DEF Visits
<1>3. Visits(q, Len(responses))' <=> \/ q = myQQ \/ q \in left
                               \/ \E i \in DOMAIN new : i <= len /\ new[i].kind = Done /\ new[i].qq = q
  BY DEF Visits
<1> HIDE DEF n, new, len
<1>4. DOMAIN responses \subseteq DOMAIN new
  BY <1>1
<1>5. ASSUME NEW k \in Nat, Visits(q, k) PROVE Visits(q, k)'
  BY <1>1, <1>2, <1>4, <1>5 DEF Visits
<1>6. ASSUME Visits(q, n) PROVE Visits(q, Len(responses))'
  <2>1. CASE q = myQQ \/ q \in left
    BY <1>3, <2>1
  <2>2. CASE \E i \in DOMAIN responses : i <= n /\ responses[i].kind = Done /\ responses[i].qq = q
    <3>1. PICK i \in DOMAIN responses : i <= n /\ responses[i].kind = Done /\ responses[i].qq = q
      BY <2>2
    <3>2. i \in DOMAIN new /\ i <= len
      BY <1>1, <3>1
    <3> QED BY <1>1, <1>3, <3>1, <3>2
  <2> QED BY <1>6, <2>1, <2>2 DEF Visits
<1>7. ASSUME r.kind = Done, r.qq = q PROVE Visits(q, Len(responses))'
  <2>1. n + 1 \in DOMAIN new /\ n + 1 <= len
    BY <1>1
  <2> QED BY <1>1, <1>3, <1>7, <2>1
<1> QED BY <1>1, <1>5, <1>6, <1>7 DEF n, len

\* Reading the first response moves the others up by one.
LEMMA VisitsRead ==
  ASSUME responses \in Seq(Responses), NEW kind, Read(kind), NEW q,
         q = myQQ => q = myQQ' \/ q \in left', q \in left => q \in left',
         kind = Done /\ q = responses[1].qq => q = myQQ'
  PROVE  /\ \A n \in Nat : Visits(q, n + 1) => Visits(q, n)'
         /\ Visits(q, Len(responses)) => Visits(q, Len(responses))'
<1> DEFINE n == Len(responses)
           new == responses'
           my == myQQ'
           gone == left'
           len == Len(responses')
<1>1. /\ n \in Nat \ {0} /\ DOMAIN responses = 1..n /\ DOMAIN new = 1..(n - 1) /\ len = n - 1
      /\ \A i \in DOMAIN new : new[i] = responses[i + 1]
      /\ responses[1].kind = kind
  BY ReadFirst
<1>2. ASSUME NEW k
      PROVE  Visits(q, k)' <=> \/ q = my \/ q \in gone
                               \/ \E i \in DOMAIN new : i <= k /\ new[i].kind = Done /\ new[i].qq = q
  BY DEF Visits
<1>3. Visits(q, Len(responses))' <=> \/ q = my \/ q \in gone
                               \/ \E i \in DOMAIN new : i <= len /\ new[i].kind = Done /\ new[i].qq = q
  BY DEF Visits
<1>4. /\ q = myQQ => q = my \/ q \in gone
      /\ q \in left => q \in gone
      /\ kind = Done /\ q = responses[1].qq => q = my
  OBVIOUS
<1> HIDE DEF n, new, my, gone, len
<1>5. ASSUME NEW k \in Nat, NEW i \in DOMAIN responses, i <= k + 1, responses[i].kind = Done, responses[i].qq = q
      PROVE  q = my \/ \E j \in DOMAIN new : j <= k /\ new[j].kind = Done /\ new[j].qq = q
  <2>1. CASE i = 1
    BY <1>1, <1>4, <1>5, <2>1
  <2>2. CASE i # 1
    <3>1. i - 1 \in DOMAIN new /\ (i - 1) + 1 = i /\ i - 1 <= k
      BY <1>1, <1>5, <2>2
    <3> QED BY <1>1, <1>5, <3>1
  <2> QED BY <2>1, <2>2
<1>6. ASSUME NEW k \in Nat, Visits(q, k + 1) PROVE Visits(q, k)'
  BY <1>2, <1>4, <1>5, <1>6 DEF Visits
<1>7. ASSUME Visits(q, n) PROVE Visits(q, Len(responses))'
  <2>1. len \in Nat /\ n = len + 1
    BY <1>1
  <2> QED BY <1>3, <1>4, <1>5, <1>7, <2>1 DEF Visits
<1> QED BY <1>6, <1>7 DEF n

\* No account is forgotten that the terminal was logged into.
LEMMA Leaves ==
  ASSUME ClientTypeOK, ReadLoginOK \/ LoggedOut, NEW q \in QQs
  PROVE  /\ q = myQQ => q = myQQ' \/ q \in left'
         /\ q \in left => q \in left'
         /\ ReadLoginOK => Read(Done) /\ (q = responses[1].qq => q = myQQ') /\ running' = running
<1>1. q # 0
  BY ClientAssumption
<1> QED BY <1>1 DEF ReadLoginOK, LogIn, LoggedInAs, LoggedOut, Done

LEMMA RoutesStep ==
  ASSUME ClientTypeOK, SessionInv, RoutesInv, [Next]_vars
  PROVE  RoutesInv'
<1> DEFINE Known(q) == Visits(q, Len(responses)) \/ (answer # <<>> /\ answer[1].qq = q)
<1> SUFFICES ASSUME running', up' PROVE \A q \in routes' : Known(q)'
  BY DEF RoutesInv
<1>1. Happens /\ responses \in Seq(Responses) /\ routes \subseteq QQs
  BY WhatHappens DEF ClientTypeOK
<1>2. running /\ up => \A q \in routes : Known(q)
  BY DEF RoutesInv
<1>3. \A q : Known(q)' <=> Visits(q, Len(responses))' \/ (answer' # <<>> /\ answer'[1].qq = q)
  BY DEF Visits
<1> HIDE DEF Known
<1>4. CASE Began
  BY <1>4 DEF Began
<1>5. CASE UNCHANGED <<responses, Session>>
  <2>1. \A q : Known(q) => Known(q)'
    BY <1>5 DEF Session, Known, Visits
  <2> QED BY <1>2, <1>5, <2>1 DEF Session
<1>6. ASSUME UNCHANGED <<answer, myQQ, left>>, NEW r, responses' = Append(responses, r)
      PROVE  \A q : Known(q) => Known(q)'
  BY <1>1, <1>3, <1>6, VisitsAppend DEF Known
<1>7. CASE Spoken
  BY <1>2, <1>6, <1>7 DEF Spoken, Session
<1>8. ASSUME NEW m \in Msgs, Push(m) PROVE \A q \in routes' : Known(q)'
  BY <1>2, <1>6, <1>8 DEF Push, memory
<1>9. CASE Accepted
  <2>1. \A q : Visits(q, Len(responses)) => Visits(q, Len(responses))'
    <3>1. CASE responses' = responses
      BY <1>9, <3>1 DEF Accepted, Visits
    <3>2. CASE responses' = Append(responses, [kind |-> "shown"])
      BY <1>1, <1>9, <3>2, VisitsAppend DEF Accepted
    <3> QED BY <1>9, <3>1, <3>2 DEF Accepted
  <2>2. \A q \in routes : Visits(q, Len(responses))
    BY <1>2, <1>9 DEF Accepted, Known
  <2> QED BY <1>3, <1>9, <2>1, <2>2 DEF Accepted
<1>10. CASE Written
  <2>1. answer[1].kind = Done
    BY <1>10 DEF Written, SessionInv
  <2>2. \A q : Known(q) => Visits(q, Len(responses))'
    BY <1>1, <1>10, <2>1, VisitsAppend DEF Written, Known
  <2> QED BY <1>2, <1>3, <1>10, <2>2 DEF Written
<1>11. ASSUME NEW q \in routes, NEW kind, Read(kind), Known(q), UNCHANGED answer,
              q = myQQ => q = myQQ' \/ q \in left', q \in left => q \in left',
              kind = Done /\ q = responses[1].qq => q = myQQ'
       PROVE  Known(q)'
  <2>1. Visits(q, Len(responses)) => Visits(q, Len(responses))'
    BY <1>1, <1>11, VisitsRead
  <2> QED BY <1>3, <1>11, <2>1 DEF Known
<1>12. CASE Heard
  <2>1. PICK kind : kind # Done /\ Read(kind)
    BY <1>12 DEF Heard
  <2>2. UNCHANGED <<running, up, answer, routes, myQQ, left>>
    BY <1>12 DEF Heard, Session
  <2> QED BY <1>2, <1>11, <2>1, <2>2
<1>13. CASE ReadLoginOK
  <2>1. Read(Done) /\ running' = running
    BY <1>13 DEF ReadLoginOK, Done
  <2>2. UNCHANGED <<up, answer, routes>>
    BY <2>1 DEF Read, conn
  <2> QED BY <1>1, <1>2, <1>11, <1>13, <2>1, <2>2, Leaves
<1>14. CASE LoggedOut
  <2>1. \A q \in QQs : Visits(q, Len(responses)) => Visits(q, Len(responses))'
    BY <1>14, Leaves DEF LoggedOut, Visits
  <2> QED BY <1>1, <1>2, <1>3, <1>14, <2>1 DEF LoggedOut, Known
<1> QED BY <1>1, <1>4, <1>5, <1>7, <1>8, <1>9, <1>10, <1>12, <1>13, <1>14 DEF Happens

LEMMA TextStep ==
  ASSUME ClientTypeOK, SessionInv, RoutesInv, TextInv, [Next]_vars
  PROVE  TextInv'
<1> DEFINE new == responses'
           soon == early'
           Mine(i) == responses[i].kind = "text" => responses[i].msg \in early \/ Visits(To[responses[i].msg], i)
<1> SUFFICES ASSUME running', up' PROVE \A i \in DOMAIN new : Mine(i)'
  BY DEF TextInv
<1>1. /\ Happens /\ responses \in Seq(Responses)
      /\ Len(responses) \in Nat /\ DOMAIN responses = 1..Len(responses)
  BY WhatHappens, LenProperties DEF ClientTypeOK
<1> PICK size \in Nat : size = Len(responses)
  BY <1>1
<1>2. running /\ up => \A i \in DOMAIN responses : Mine(i)
  BY DEF TextInv
<1>3. \A i : Mine(i)' <=> (new[i].kind = "text" => new[i].msg \in soon \/ \E q : q = To[new[i].msg] /\ Visits(q, i)')
  BY DEF Visits
<1> HIDE DEF Mine
<1>4. \A i \in DOMAIN responses : responses[i].kind = "text" => To[responses[i].msg] \in QQs
  BY <1>1, ElementOfSeq, ResponseKinds, ClientAssumption
<1>5. CASE Began
  BY <1>5 DEF Began
<1>6. CASE UNCHANGED <<responses, Session>>
  <2>1. \A i : Mine(i) => Mine(i)'
    BY <1>6 DEF Session, Mine, Visits
  <2> QED BY <1>2, <1>6, <2>1 DEF Session
<1>7. ASSUME running, up, UNCHANGED <<myQQ, left>>, early \subseteq soon, NEW r, responses' = Append(responses, r)
      PROVE  \A i \in DOMAIN new : i = size + 1 \/ Mine(i)'
  <2>1. /\ size \in Nat /\ DOMAIN responses = 1..size /\ DOMAIN new = 1..(size + 1)
        /\ \A i \in DOMAIN responses : new[i] = responses[i]
    BY <1>1, <1>7, Appended
  <2>2. \A q, i : i \in Nat /\ Visits(q, i) => Visits(q, i)'
    BY <1>1, <1>7, VisitsAppend
  <2> HIDE DEF new, soon
  <2>3. \A i \in DOMAIN new : i = size + 1 \/ (i \in DOMAIN responses /\ i \in Nat)
    BY <2>1
  <2>4. ASSUME NEW i \in DOMAIN responses, i \in Nat PROVE Mine(i)'
    BY <1>2, <1>3, <1>7, <2>1, <2>2, <2>4 DEF Mine
  <2> QED BY <2>3, <2>4
<1>8. ASSUME NEW r, responses' = Append(responses, r) PROVE new[size + 1] = r
  BY <1>1, <1>8, Appended
<1>9. CASE Spoken
  <2>1. PICK r : r.kind # "text" /\ responses' = Append(responses, r)
    BY <1>9 DEF Spoken
  <2>2. UNCHANGED <<running, up, myQQ, left, early>>
    BY <1>9 DEF Spoken, Session
  <2>3. \A i \in DOMAIN new : i = size + 1 \/ Mine(i)'
    BY <1>7, <2>1, <2>2
  <2>4. Mine(size + 1)'
    BY <1>3, <1>8, <2>1
  <2> QED BY <2>3, <2>4
<1>10. CASE Accepted
  <2>1. UNCHANGED <<running, up, myQQ, left, early>>
    BY <1>10 DEF Accepted
  <2>2. CASE responses' = responses
    <3>1. \A i : Mine(i) => Mine(i)'
      BY <2>1, <2>2 DEF Mine, Visits
    <3> QED BY <1>2, <2>1, <2>2, <3>1
  <2>3. CASE responses' = Append(responses, [kind |-> "shown"])
    <3>1. \A i \in DOMAIN new : i = size + 1 \/ Mine(i)'
      BY <1>7, <2>1, <2>3
    <3>2. Mine(size + 1)'
      BY <1>3, <1>8, <2>3
    <3> QED BY <3>1, <3>2
  <2> QED BY <1>10, <2>2, <2>3 DEF Accepted
<1>11. CASE Written
  <2>1. answer[1].kind = Done
    BY <1>11 DEF Written, SessionInv
  <2>2. \A i \in DOMAIN new : i = size + 1 \/ Mine(i)'
    BY <1>7, <1>11 DEF Written
  <2>3. Mine(size + 1)'
    BY <1>3, <1>8, <1>11, <2>1 DEF Written, Done
  <2> QED BY <2>2, <2>3
<1>12. ASSUME NEW m \in Msgs, Push(m) PROVE \A i \in DOMAIN new : Mine(i)'
  <2> DEFINE r == [kind |-> "text", msg |-> m]
  <2>1. /\ To[m] \in routes /\ running /\ up /\ UNCHANGED <<answer, myQQ, left>> /\ responses' = Append(responses, r)
        /\ early \subseteq soon
        /\ (answer # <<>> /\ answer[1].qq = To[m] => m \in soon)
    BY <1>12 DEF Push, memory
  <2>2. r.kind = "text" /\ r.msg = m
    OBVIOUS
  <2> HIDE DEF r
  <2>3. \A i \in DOMAIN new : i = size + 1 \/ Mine(i)'
    BY <1>7, <2>1
  <2>4. Visits(To[m], size) \/ m \in soon
    BY <2>1 DEF RoutesInv
  <2>5. Visits(To[m], size) => Visits(To[m], size + 1)'
    <3>1. Len(responses') = size + 1 /\ (Visits(To[m], Len(responses)) => Visits(To[m], Len(responses))')
      BY <1>1, <2>1, VisitsAppend
    <3>2. Visits(To[m], Len(responses))' => Visits(To[m], size + 1)'
      BY <3>1 DEF Visits
    <3> QED BY <3>1, <3>2
  <2>6. new[size + 1].msg \in soon \/ \E q : q = To[new[size + 1].msg] /\ Visits(q, size + 1)'
    <3>1. new[size + 1].msg = m
      BY <1>8, <2>1, <2>2
    <3>2. CASE m \in soon
      BY <3>1, <3>2
    <3>3. CASE Visits(To[m], size)
      <4>1. PICK q : q = To[m]
        OBVIOUS
      <4>2. Visits(q, size + 1)'
        BY <2>5, <3>3, <4>1
      <4> QED BY <3>1, <4>1, <4>2
    <3> QED BY <2>4, <3>2, <3>3
  <2>7. Mine(size + 1)'
    BY <1>3, <2>6
  <2> QED BY <2>3, <2>7
<1>13. ASSUME NEW kind, Read(kind), running, up, early' = early,
              \A q \in QQs : /\ q = myQQ => q = myQQ' \/ q \in left'
                             /\ q \in left => q \in left'
                             /\ kind = Done /\ q = responses[1].qq => q = myQQ'
       PROVE  \A i \in DOMAIN new : Mine(i)'
  <2>1. ASSUME NEW i \in DOMAIN new PROVE i \in Nat /\ i + 1 \in DOMAIN responses /\ new[i] = responses[i + 1]
    <3>1. i + 1 \in DOMAIN responses /\ new[i] = responses[i + 1] /\ DOMAIN new = 1..(Len(responses) - 1)
      BY <1>1, <1>13, ReadFirst
    <3> QED BY <1>1, <3>1
  <2>2. ASSUME NEW q \in QQs, NEW i \in Nat, Visits(q, i + 1) PROVE Visits(q, i)'
    BY <1>1, <1>13, <2>2, VisitsRead
  <2> SUFFICES ASSUME NEW i \in DOMAIN new, new[i].kind = "text" PROVE new[i].msg \in soon \/ \E q : q = To[new[i].msg] /\ Visits(q, i)'
    BY <1>3
  <2>3. Mine(i + 1) /\ To[new[i].msg] \in QQs /\ i \in Nat /\ new[i] = responses[i + 1]
    BY <1>2, <1>4, <1>13, <2>1
  <2> QED BY <1>13, <2>2, <2>3 DEF Mine
<1>14. CASE Heard
  <2>1. PICK kind : kind # Done /\ Read(kind)
    BY <1>14 DEF Heard
  <2>2. UNCHANGED <<running, up, myQQ, left, early>>
    BY <1>14 DEF Heard, Session
  <2> QED BY <1>13, <2>1, <2>2
<1>15. CASE ReadLoginOK
  <2>1. Read(Done) /\ running' = running
    BY <1>15 DEF ReadLoginOK, Done
  <2>2. UNCHANGED <<up, early>>
    BY <2>1 DEF Read
  <2>3. \A q \in QQs : /\ q = myQQ => q = myQQ' \/ q \in left'
                       /\ q \in left => q \in left'
                       /\ Done = Done /\ q = responses[1].qq => q = myQQ'
    BY <1>15, Leaves
  <2> QED BY <1>13, <2>1, <2>2, <2>3
<1>16. CASE LoggedOut
  <2>1. \A q \in QQs : \A i : Visits(q, i) => Visits(q, i)'
    BY <1>16, Leaves DEF LoggedOut, Visits
  <2> QED BY <1>2, <1>3, <1>4, <1>16, <2>1 DEF LoggedOut, Mine
<1> QED BY <1>1, <1>5, <1>6, <1>9, <1>10, <1>11, <1>12, <1>14, <1>15, <1>16 DEF Happens

\* Only a message that is read is acknowledged.
LEMMA Acks ==
  ASSUME ClientTypeOK, [Next]_vars, NEW m \in Msgs,
         requests' = Append(requests, [kind |-> "delivered", msg |-> m])
  PROVE  ReadText /\ up /\ responses[1].msg = m
<1> DEFINE d == [kind |-> "delivered", msg |-> m]
           n == Len(requests)
           new == requests'
<1>1. d.kind = "delivered" /\ d.msg = m /\ requests \in Seq(Requests)
  BY DEF ClientTypeOK
<1>2. requests' = Append(requests, d)
  OBVIOUS
<1> HIDE DEF d
<1>3. n \in Nat /\ Len(new) = n + 1 /\ new[n + 1] = d
  BY <1>1, <1>2, Appended
<1>4. requests' # requests /\ requests' # <<>>
  BY <1>1, <1>2, <1>3, EmptySeq
<1>5. ASSUME NEW r, r.kind # "delivered" PROVE requests' # <<r>> /\ ~Send(r)
  <2>1. ASSUME requests' = <<r>> PROVE FALSE
    <3> DEFINE one == <<r>>
    <3>1. Len(one) = 1 /\ one[1] = r
      OBVIOUS
    <3> HIDE DEF one
    <3>2. new = one
      BY <2>1 DEF one
    <3> QED BY <1>1, <1>3, <1>5, <3>1, <3>2
  <2>2. ASSUME Send(r) PROVE FALSE
    <3>1. requests' = Append(requests, r)
      BY <1>4, <2>2 DEF Send
    <3>2. new[n + 1] = r
      BY <1>1, <3>1, Appended
    <3> QED BY <1>1, <1>3, <1>5, <3>2
  <2> QED BY <2>1, <2>2
<1>6. requests # <<>> => requests' # Tail(requests)
  <2>1. requests # <<>> => Len(Tail(requests)) = n - 1
    BY <1>1, HeadTailProperties
  <2> HIDE DEF n
  <2> QED BY <1>3, <2>1
<1> HIDE DEF n, new
<1>7. ~Close
  BY <1>4 DEF Close
<1>8. ~Start
  <2>1. ASSUME NEW q, NEW t PROVE requests' # <<[kind |-> "tokenLogin", qq |-> q, token |-> t]>>
    BY <1>5
  <2> QED BY <1>4, <2>1 DEF Start
<1>9. ~Keyboard
  <2>1. ASSUME NEW q, NEW p PROVE ~TypeLogin(q, p)
    BY <1>5 DEF TypeLogin
  <2>2. ASSUME NEW p PROVE ~TypeRegister(p)
    BY <1>5 DEF TypeRegister
  <2>3. ASSUME NEW p, NEW q PROVE ~TypeChangePassword(p, q)
    BY <1>5 DEF TypeChangePassword
  <2> QED BY <1>4, <2>1, <2>2, <2>3 DEF Keyboard, TypeLogout
<1>10. ~Handler
  <2>1. \A kind : ~(Serve(kind) /\ requests' = Tail(requests))
    BY <1>6 DEF Serve
  <2> QED BY <1>4, <1>7, <2>1 DEF Handler, ServeLogin, ServeTokenLogin, ServeRefresh, ServeRegisterRefused, ServeRegister,
           ServeChangePassword, ServeDelivered, Answer, Reply, LoginFailed, Bind
<1>11. ~Environment
  BY <1>4, <1>7 DEF Environment, AccessExpires, RefreshExpires, OtherTerminal, ConnectionLost, ServerRestart, Stop,
         ReadLoginCrash, network
<1>12. ~ReadLoginFailed
  <2>1. ASSUME NEW q, NEW t PROVE ~Send([kind |-> "refresh", qq |-> q, token |-> t])
    BY <1>5
  <2> QED BY <1>4, <2>1 DEF ReadLoginFailed
<1>13. ~ReadRefreshOK
  <2>1. ASSUME NEW q, NEW t PROVE ~Send([kind |-> "tokenLogin", qq |-> q, token |-> t])
    BY <1>5
  <2> QED BY <2>1 DEF ReadRefreshOK
<1>14. ~ReadLoginOK /\ ~ReadRefreshFailed /\ ~ReadChanged /\ ~ReadShown
  BY <1>4 DEF ReadLoginOK, ReadRefreshFailed, ReadChanged, ReadShown
<1>15. ~UNCHANGED vars /\ \A k \in Msgs : ~Push(k)
  BY <1>4 DEF vars, network, Push
<1>16. ReadText
  BY <1>8, <1>9, <1>10, <1>11, <1>12, <1>13, <1>14, <1>15 DEF Next, Reader
<1>17. Send([kind |-> "delivered", msg |-> responses[1].msg])
  BY <1>16 DEF ReadText
<1>18. up /\ requests' = Append(requests, [kind |-> "delivered", msg |-> responses[1].msg])
  BY <1>4, <1>17 DEF Send
<1>19. [kind |-> "delivered", msg |-> responses[1].msg] = d
  <2> DEFINE e == [kind |-> "delivered", msg |-> responses[1].msg]
  <2> HIDE DEF e
  <2>1. new[n + 1] = e
    BY <1>1, <1>18, Appended DEF e, n, new
  <2> QED BY <1>3, <2>1 DEF e
<1>20. responses[1].msg = d.msg
  BY <1>19
<1> QED BY <1>1, <1>16, <1>18, <1>20

LEMMA AckedStep ==
  ASSUME ClientTypeOK, TextInv, [Next]_vars, NEW m \in Msgs,
         requests' = Append(requests, [kind |-> "delivered", msg |-> m])
  PROVE  <<To[m], m>> \in logs' \/ To[m] \in left \/ m \in early
<1>1. ReadText /\ up /\ responses[1].msg = m
  BY Acks
<1>2. running /\ 1 \in DOMAIN responses /\ responses[1].kind = "text" /\ logs' = Logged(myQQ, m)
  BY <1>1, ReadFirst DEF ReadText, ClientTypeOK
<1>3. m \in early \/ Visits(To[m], 1)
  BY <1>1, <1>2 DEF TextInv
<1>4. \A i \in DOMAIN responses : i <= 1 => i = 1
  BY LenProperties DEF ClientTypeOK
<1>5. m \in early \/ To[m] = myQQ \/ To[m] \in left
  BY <1>2, <1>3, <1>4 DEF Visits, Done
<1>6. To[m] # 0
  BY ClientAssumption
<1> QED BY <1>2, <1>5, <1>6 DEF Logged

\* A message is acknowledged only once it is in the log of the account it was sent
\* to, except for an account that the terminal has left, and for a message that
\* overtook the answer to the login.
THEOREM LoggedAsAckedHolds == Spec => LoggedAsAcked
<1>1. Init => SessionInv /\ RoutesInv /\ TextInv
  BY DEF Init, SessionInv, RoutesInv, TextInv
<1>2. ClientTypeOK /\ SessionInv /\ RoutesInv /\ TextInv /\ [Next]_vars => SessionInv' /\ RoutesInv' /\ TextInv'
  BY SessionStep, RoutesStep, TextStep
<1>3. ClientTypeOK /\ TextInv /\ [Next]_vars =>
        [\A m \in Msgs : requests' = Append(requests, [kind |-> "delivered", msg |-> m])
           => <<To[m], m>> \in logs' \/ To[m] \in left \/ m \in early]_vars
  BY AckedStep
<1> QED BY <1>1, <1>2, <1>3, ClientTypeCorrect, PTL DEF Spec, LoggedAsAcked

-----------------------------------------------------------------------------
(* Whose tokens are in the files.                                          *)

AskedKinds == {"login", "tokenLogin", "refresh", "register", "change"}
AnsweredKinds == {"loginOK", "loginFailed", "refreshOK", "refreshFailed", "changed"}

\* Sequence s has none, or at most one, of these kinds.
None(s, K) == \A i \in DOMAIN s : s[i].kind \notin K
One(s, K) == \E i \in Nat : \A j \in DOMAIN s : s[j].kind \in K => j = i

\* A refresh is asked for, and answered, for number p; the password that was changed
\* is that of q, unless nobody is logged in any more.
RefreshesFor(s, p) == \A i \in DOMAIN s : s[i].kind = "refresh" => s[i].qq = p
AnswersFor(s, p, q) ==
  \A i \in DOMAIN s :
    /\ s[i].kind = "refreshOK" => s[i].access.qq = p
    /\ s[i].kind = "changed" => s[i].access.qq = s[i].refresh.qq /\ q \in {0, s[i].access.qq}

\* One thing at a time is asked or answered.
Calm(req, res, ans, p, q) ==
  /\ One(req, AskedKinds) /\ One(res, AnsweredKinds)
  /\ None(req, AskedKinds) \/ None(res, AnsweredKinds)
  /\ ans # <<>> => None(req, AskedKinds) /\ None(res, AnsweredKinds)
  /\ RefreshesFor(req, p) /\ AnswersFor(res, p, q)

\* A login's answer has tokens of the account that it logs into.
OwnLogins(s) ==
  \A i \in DOMAIN s : s[i].kind = "loginOK" => s[i].access.qq = s[i].qq /\ s[i].refresh.qq \in {s[i].qq, 0}

OwnFiles(access, refresh) == \A q \in QQs : access[q].qq \in {q, 0} /\ refresh[q].qq \in {q, 0}

LoginInv == OwnLogins(responses) /\ OwnLogins(answer)
OwnInv == ~hasty => OwnFiles(accessFile, refreshFile) /\ (running => Calm(requests, responses, answer, pending, myQQ))

\* Sequences that lose their first element, get one more or end early.
LEMMA NoneOfTail ==
  ASSUME NEW S, NEW s \in Seq(S), s # <<>>, NEW K
  PROVE  /\ None(s, K) => None(Tail(s), K) /\ s[1].kind \notin K
         /\ One(s, K) => One(Tail(s), K)
         /\ One(s, K) /\ s[1].kind \in K => None(Tail(s), K)
<1> DEFINE n == Len(s)
           t == Tail(s)
<1>1. /\ n \in Nat \ {0} /\ DOMAIN s = 1..n /\ DOMAIN t = 1..(n - 1)
      /\ \A i \in DOMAIN t : t[i] = s[i + 1]
  BY EmptySeq, LenProperties, HeadTailProperties
<1> HIDE DEF n, t
<1>2. 1 \in DOMAIN s /\ \A i \in DOMAIN t : i \in Nat \ {0} /\ i + 1 \in DOMAIN s /\ t[i] = s[i + 1]
  BY <1>1
<1>3. None(s, K) => None(t, K) /\ s[1].kind \notin K
  BY <1>2 DEF None
<1>4. ASSUME NEW i \in Nat, \A j \in DOMAIN s : s[j].kind \in K => j = i
      PROVE  One(t, K) /\ (s[1].kind \in K => None(t, K))
  <2>1. \A j \in DOMAIN t : t[j].kind \in K => j + 1 = i
    BY <1>2, <1>4
  <2>2. ASSUME NEW j \in DOMAIN t, t[j].kind \in K PROVE i # 0 /\ i # 1 /\ j = i - 1
    BY <1>2, <1>4, <2>1, <2>2
  <2>3. One(t, K)
    <3>1. CASE i = 0
      BY <2>2, <3>1 DEF One
    <3>2. CASE i # 0
      <4>1. i - 1 \in Nat
        BY <1>4, <3>2
      <4> QED BY <2>2, <4>1 DEF One
    <3> QED BY <3>1, <3>2
  <2>4. s[1].kind \in K => i = 1
    BY <1>2, <1>4
  <2> QED BY <2>2, <2>3, <2>4 DEF None
<1> QED BY <1>3, <1>4 DEF One, t

LEMMA NoneOfAppend ==
  ASSUME NEW S, NEW s \in Seq(S), NEW r, NEW K
  PROVE  /\ r.kind \notin K /\ None(s, K) => None(Append(s, r), K)
         /\ r.kind \notin K /\ One(s, K) => One(Append(s, r), K)
         /\ None(s, K) => One(s, K) /\ One(Append(s, r), K)
<1> DEFINE n == Len(s)
           t == Append(s, r)
<1>1. /\ n \in Nat /\ DOMAIN s = 1..n /\ DOMAIN t = 1..(n + 1)
      /\ \A i \in DOMAIN s : t[i] = s[i]
      /\ t[n + 1] = r
  BY Appended
<1> HIDE DEF n, t
<1>2. \A i \in DOMAIN t : (i \in DOMAIN s /\ t[i] = s[i]) \/ (i = n + 1 /\ t[i] = r)
  BY <1>1
<1>3. n + 1 \in Nat
  BY <1>1
<1> QED BY <1>2, <1>3 DEF None, One, t

LEMMA NoneOfPrefix ==
  ASSUME NEW s, NEW t, NEW K, DOMAIN t \subseteq DOMAIN s, \A i \in DOMAIN t : t[i] = s[i]
  PROVE  /\ None(s, K) => None(t, K)
         /\ One(s, K) => One(t, K)
         /\ OwnLogins(s) => OwnLogins(t)
         /\ \A p, q : AnswersFor(s, p, q) => AnswersFor(t, p, q)
BY DEF None, One, OwnLogins, AnswersFor

LEMMA OwnTail ==
  ASSUME NEW S, NEW s \in Seq(S), s # <<>>, NEW p, NEW q
  PROVE  /\ RefreshesFor(s, p) => RefreshesFor(Tail(s), p) /\ (s[1].kind = "refresh" => s[1].qq = p)
         /\ AnswersFor(s, p, q) =>
              /\ AnswersFor(Tail(s), p, q)
              /\ s[1].kind = "refreshOK" => s[1].access.qq = p
              /\ s[1].kind = "changed" => s[1].access.qq = s[1].refresh.qq /\ q \in {0, s[1].access.qq}
         /\ OwnLogins(s) =>
              /\ OwnLogins(Tail(s))
              /\ s[1].kind = "loginOK" => s[1].access.qq = s[1].qq /\ s[1].refresh.qq \in {s[1].qq, 0}
<1> DEFINE n == Len(s)
           t == Tail(s)
<1>1. /\ n \in Nat \ {0} /\ DOMAIN s = 1..n /\ DOMAIN t = 1..(n - 1)
      /\ \A i \in DOMAIN t : t[i] = s[i + 1]
  BY EmptySeq, LenProperties, HeadTailProperties
<1> HIDE DEF n, t
<1>2. 1 \in DOMAIN s /\ \A i \in DOMAIN t : i + 1 \in DOMAIN s /\ t[i] = s[i + 1]
  BY <1>1
<1>3. RefreshesFor(s, p) => RefreshesFor(t, p) /\ (s[1].kind = "refresh" => s[1].qq = p)
  BY <1>2 DEF RefreshesFor
<1>4. AnswersFor(s, p, q) => AnswersFor(t, p, q)
  BY <1>2 DEF AnswersFor
<1>5. AnswersFor(s, p, q) =>
              /\ s[1].kind = "refreshOK" => s[1].access.qq = p
              /\ s[1].kind = "changed" => s[1].access.qq = s[1].refresh.qq /\ q \in {0, s[1].access.qq}
  BY <1>2 DEF AnswersFor
<1>6. OwnLogins(s) =>
              /\ OwnLogins(t)
              /\ s[1].kind = "loginOK" => s[1].access.qq = s[1].qq /\ s[1].refresh.qq \in {s[1].qq, 0}
  BY <1>2 DEF OwnLogins
<1> QED BY <1>3, <1>4, <1>5, <1>6 DEF t

LEMMA OwnAppend ==
  ASSUME NEW S, NEW s \in Seq(S), NEW r, NEW p, NEW q
  PROVE  /\ RefreshesFor(s, p) /\ (r.kind = "refresh" => r.qq = p) => RefreshesFor(Append(s, r), p)
         /\ /\ AnswersFor(s, p, q)
            /\ r.kind = "refreshOK" => r.access.qq = p
            /\ r.kind = "changed" => r.access.qq = r.refresh.qq /\ q \in {0, r.access.qq}
            => AnswersFor(Append(s, r), p, q)
         /\ /\ OwnLogins(s)
            /\ r.kind = "loginOK" => r.access.qq = r.qq /\ r.refresh.qq \in {r.qq, 0}
            => OwnLogins(Append(s, r))
<1> DEFINE n == Len(s)
           t == Append(s, r)
<1>1. /\ n \in Nat /\ DOMAIN s = 1..n /\ DOMAIN t = 1..(n + 1)
      /\ \A i \in DOMAIN s : t[i] = s[i]
      /\ t[n + 1] = r
  BY Appended
<1> HIDE DEF n, t
<1>2. \A i \in DOMAIN t : (i \in DOMAIN s /\ t[i] = s[i]) \/ (i = n + 1 /\ t[i] = r)
  BY <1>1
<1>3. RefreshesFor(s, p) /\ (r.kind = "refresh" => r.qq = p) => RefreshesFor(t, p)
  BY <1>2 DEF RefreshesFor
<1>4. (/\ AnswersFor(s, p, q)
       /\ r.kind = "refreshOK" => r.access.qq = p
       /\ r.kind = "changed" => r.access.qq = r.refresh.qq /\ q \in {0, r.access.qq}) => AnswersFor(t, p, q)
  BY <1>2 DEF AnswersFor
<1>5. (/\ OwnLogins(s)
       /\ r.kind = "loginOK" => r.access.qq = r.qq /\ r.refresh.qq \in {r.qq, 0}) => OwnLogins(t)
  BY <1>2 DEF OwnLogins
<1> QED BY <1>3, <1>4, <1>5 DEF t

\* Where nothing is asked or answered, it is for whoever one likes.
LEMMA NoneIsOwn ==
  ASSUME NEW s, NEW p, NEW q
  PROVE  /\ None(s, AskedKinds) => RefreshesFor(s, p)
         /\ None(s, AnsweredKinds) => AnswersFor(s, p, q)
BY DEF None, AskedKinds, AnsweredKinds, RefreshesFor, AnswersFor

\* What Close leaves of the responses.
LEMMA ClosePrefix ==
  ASSUME responses \in Seq(Responses), Close
  PROVE  /\ DOMAIN responses' \subseteq DOMAIN responses
         /\ \A i \in DOMAIN responses' : responses'[i] = responses[i]
<1>1. PICK k \in 0..Len(responses) : responses' = SubSeq(responses, 1, k)
  BY DEF Close
<1>2. Len(responses) \in Nat /\ DOMAIN responses = 1..Len(responses)
  BY LenProperties
<1>3. k \in Nat /\ k <= Len(responses) /\ 1..k \subseteq 1..Len(responses)
  BY <1>2
<1>4. \A i \in 1..k : responses[i] \in Responses
  BY <1>2, <1>3, ElementOfSeq
<1> DEFINE t == SubSeq(responses, 1, k)
<1>5. /\ t \in Seq(Responses) /\ Len(t) = IF 1 <= k THEN k - 1 + 1 ELSE 0
      /\ \A i \in 1..(k - 1 + 1) : t[i] = responses[1 + i - 1]
  BY <1>3, <1>4, SubSeqProperties
<1>6. DOMAIN t = 1..Len(t)
  BY <1>5, LenProperties
<1> HIDE DEF t
<1>7. DOMAIN t = 1..k /\ \A i \in 1..k : t[i] = responses[i]
  BY <1>3, <1>5, <1>6
<1> QED BY <1>1, <1>2, <1>3, <1>7 DEF t

LEMMA CalmAgain ==
  ASSUME NEW req, NEW res, NEW ans, NEW p, NEW q, NEW S, req \in Seq(S), NEW T, res \in Seq(T),
         None(req, AskedKinds), None(res, AnsweredKinds)
  PROVE  Calm(req, res, ans, p, q)
BY NoneOfAppend, NoneIsOwn DEF Calm

\* A request is served.
LEMMA CalmServe ==
  ASSUME NEW req, NEW res, NEW p, NEW q, NEW S, req \in Seq(S), NEW T, res \in Seq(T), req # <<>>,
         NEW ans, Calm(req, res, ans, p, q), req[1].kind \in AskedKinds
  PROVE  /\ None(Tail(req), AskedKinds) /\ None(res, AnsweredKinds)
         /\ req[1].kind = "refresh" => req[1].qq = p
<1>1. One(req, AskedKinds) /\ RefreshesFor(req, p) /\ (None(req, AskedKinds) \/ None(res, AnsweredKinds))
  BY DEF Calm
<1>2. ~None(req, AskedKinds) /\ None(Tail(req), AskedKinds)
  BY <1>1, NoneOfTail
<1>3. req[1].kind = "refresh" => req[1].qq = p
  BY <1>1, OwnTail
<1> QED BY <1>1, <1>2, <1>3

\* A request is answered.
LEMMA CalmReply ==
  ASSUME NEW req, NEW res, NEW p, NEW q, NEW S, req \in Seq(S), NEW T, res \in Seq(T), NEW r,
         None(req, AskedKinds), None(res, AnsweredKinds),
         r.kind = "refreshOK" => r.access.qq = p,
         r.kind = "changed" => r.access.qq = r.refresh.qq /\ q \in {0, r.access.qq}
  PROVE  Calm(req, Append(res, r), <<>>, p, q)
<1>1. One(req, AskedKinds) /\ One(Append(res, r), AnsweredKinds)
  BY NoneOfAppend
<1>2. RefreshesFor(req, p) /\ AnswersFor(res, p, q)
  BY NoneIsOwn
<1>3. AnswersFor(Append(res, r), p, q)
  BY <1>2, OwnAppend
<1> QED BY <1>1, <1>2, <1>3 DEF Calm

\* Something is asked.
LEMMA CalmSend ==
  ASSUME NEW req, NEW res, NEW p, NEW q, NEW S, req \in Seq(S), NEW T, res \in Seq(T), NEW r,
         None(req, AskedKinds), None(res, AnsweredKinds), r.kind = "refresh" => r.qq = p
  PROVE  Calm(Append(req, r), res, <<>>, p, q)
<1>1. One(Append(req, r), AskedKinds) /\ One(res, AnsweredKinds)
  BY NoneOfAppend
<1>2. RefreshesFor(req, p) /\ AnswersFor(res, p, q)
  BY NoneIsOwn
<1>3. RefreshesFor(Append(req, r), p)
  BY <1>2, OwnAppend
<1> QED BY <1>1, <1>2, <1>3 DEF Calm

\* An answer is read.
LEMMA CalmRead ==
  ASSUME NEW req, NEW res, NEW ans, NEW p, NEW q, NEW S, req \in Seq(S), NEW T, res \in Seq(T), res # <<>>,
         Calm(req, res, ans, p, q), res[1].kind \in AnsweredKinds
  PROVE  /\ None(req, AskedKinds) /\ None(Tail(res), AnsweredKinds) /\ ans = <<>>
         /\ res[1].kind = "refreshOK" => res[1].access.qq = p
         /\ res[1].kind = "changed" => res[1].access.qq = res[1].refresh.qq /\ q \in {0, res[1].access.qq}
<1>1. /\ One(res, AnsweredKinds) /\ AnswersFor(res, p, q) /\ (None(req, AskedKinds) \/ None(res, AnsweredKinds))
      /\ ans # <<>> => None(res, AnsweredKinds)
  BY DEF Calm
<1>2. ~None(res, AnsweredKinds) /\ None(Tail(res), AnsweredKinds)
  BY <1>1, NoneOfTail
<1>3. /\ res[1].kind = "refreshOK" => res[1].access.qq = p
      /\ res[1].kind = "changed" => res[1].access.qq = res[1].refresh.qq /\ q \in {0, res[1].access.qq}
  BY <1>1, OwnTail
<1> QED BY <1>1, <1>2, <1>3

\* Messages and acknowledgements disturb nothing.
LEMMA CalmPush ==
  ASSUME NEW req, NEW res, NEW ans, NEW p, NEW q, NEW T, res \in Seq(T), Calm(req, res, ans, p, q),
         NEW r, r.kind \in {"text", "shown"}
  PROVE  Calm(req, Append(res, r), ans, p, q)
<1>1. r.kind \notin AnsweredKinds
  BY DEF AnsweredKinds
<1>2. (None(res, AnsweredKinds) => None(Append(res, r), AnsweredKinds)) /\ One(Append(res, r), AnsweredKinds)
  BY <1>1, NoneOfAppend DEF Calm
<1>3. AnswersFor(Append(res, r), p, q)
  BY OwnAppend DEF Calm
<1> QED BY <1>2, <1>3 DEF Calm

LEMMA CalmHeard ==
  ASSUME NEW req, NEW res, NEW ans, NEW p, NEW q, NEW T, res \in Seq(T), res # <<>>, Calm(req, res, ans, p, q)
  PROVE  Calm(req, Tail(res), ans, p, q)
<1>1. (None(res, AnsweredKinds) => None(Tail(res), AnsweredKinds)) /\ One(Tail(res), AnsweredKinds)
  BY NoneOfTail DEF Calm
<1>2. AnswersFor(Tail(res), p, q)
  BY OwnTail DEF Calm
<1> QED BY <1>1, <1>2 DEF Calm

LEMMA CalmAck ==
  ASSUME NEW req, NEW res, NEW ans, NEW p, NEW q, NEW S, req \in Seq(S), Calm(req, res, ans, p, q),
         NEW r, r.kind = "delivered"
  PROVE  Calm(Append(req, r), res, ans, p, q)
<1>1. r.kind \notin AskedKinds
  BY DEF AskedKinds
<1>2. (None(req, AskedKinds) => None(Append(req, r), AskedKinds)) /\ One(Append(req, r), AskedKinds)
  BY <1>1, NoneOfAppend DEF Calm
<1>3. RefreshesFor(Append(req, r), p)
  BY OwnAppend DEF Calm
<1> QED BY <1>2, <1>3 DEF Calm

LEMMA CalmAcked ==
  ASSUME NEW req, NEW res, NEW ans, NEW p, NEW q, NEW S, req \in Seq(S), req # <<>>, Calm(req, res, ans, p, q)
  PROVE  Calm(Tail(req), res, ans, p, q)
<1>1. (None(req, AskedKinds) => None(Tail(req), AskedKinds)) /\ One(Tail(req), AskedKinds)
  BY NoneOfTail DEF Calm
<1>2. RefreshesFor(Tail(req), p)
  BY OwnTail DEF Calm
<1> QED BY <1>1, <1>2 DEF Calm

\* The connection closes.
LEMMA CalmClose ==
  ASSUME requests \in Seq(Requests), responses \in Seq(Responses), Calm(requests, responses, answer, pending, myQQ),
         Close, UNCHANGED <<pending, myQQ>>
  PROVE  Calm(requests', responses', answer', pending', myQQ')
<1>1. DOMAIN responses' \subseteq DOMAIN responses /\ \A i \in DOMAIN responses' : responses'[i] = responses[i]
  BY ClosePrefix
<1>2. requests' = <<>> /\ answer' = <<>>
  BY DEF Close
<1>3. None(requests', AskedKinds) /\ One(requests', AskedKinds) /\ RefreshesFor(requests', pending')
  BY <1>2 DEF None, One, RefreshesFor
<1>4. One(responses, AnsweredKinds) /\ AnswersFor(responses, pending, myQQ)
  BY DEF Calm
<1>5. One(responses', AnsweredKinds) /\ AnswersFor(responses', pending, myQQ)
  BY <1>1, <1>4, NoneOfPrefix
<1> QED BY <1>2, <1>3, <1>5 DEF Calm

LEMMA LoginStep ==
  ASSUME ClientTypeOK, LoginInv, [Next]_vars
  PROVE  LoginInv'
<1> DEFINE Goal == OwnLogins(responses') /\ OwnLogins(answer')
<1> SUFFICES Goal
  BY DEF LoginInv, OwnLogins
<1>1. /\ OwnLogins(responses) /\ OwnLogins(answer) /\ responses \in Seq(Responses)
      /\ requests \in Seq(Requests) /\ answer \in Seq(LoginResponse)
  BY DEF LoginInv, ClientTypeOK
<1>2. OwnLogins(<<>>)
  BY DEF OwnLogins
<1>3. CASE UNCHANGED <<responses, answer>>
  BY <1>1, <1>3
<1>4. CASE Close
  <2>1. OwnLogins(responses')
    BY <1>1, <1>4, ClosePrefix, NoneOfPrefix
  <2> QED BY <1>2, <1>4, <2>1 DEF Close
<1>5. CASE Start
  BY <1>2, <1>5 DEF Start
<1>6. ASSUME NEW kind, Read(kind) PROVE Goal
  <2>1. responses # <<>> /\ responses' = Tail(responses) /\ answer' = answer
    BY <1>6 DEF Read, conn
  <2> QED BY <1>1, <2>1, OwnTail
<1>7. CASE Reader \/ ReadLoginCrash
  BY <1>6, <1>7 DEF Reader, ReadLoginOK, ReadLoginCrash, ReadLoginFailed, ReadRefreshOK, ReadRefreshFailed, ReadChanged,
       ReadShown, ReadText
<1>8. CASE Keyboard
  BY <1>3, <1>8 DEF Keyboard, TypeLogin, TypeRegister, TypeChangePassword, TypeLogout, Type, conn
<1>9. ASSUME NEW r, r.kind # "loginOK", responses' = Append(responses, r), answer' = answer PROVE Goal
  BY <1>1, <1>9, OwnAppend
<1>10. ASSUME NEW r, r.kind # "loginOK", Reply(r) PROVE Goal
  BY <1>9, <1>10 DEF Reply
<1>11. ASSUME NEW m \in Msgs, Push(m) PROVE Goal
  <2> DEFINE r == [kind |-> "text", msg |-> m]
  <2>1. r.kind # "loginOK" /\ responses' = Append(responses, r) /\ answer' = answer
    BY <1>11 DEF Push
  <2> HIDE DEF r
  <2> QED BY <1>9, <2>1
<1>12. ASSUME NEW q, NEW t, NEW u, t.qq = q, u.qq \in {q, 0}
       PROVE  OwnLogins(<<[kind |-> "loginOK", qq |-> q, access |-> t, refresh |-> u]>>)
  <2> DEFINE a == [kind |-> "loginOK", qq |-> q, access |-> t, refresh |-> u]
  <2>1. a.access.qq = a.qq /\ a.refresh.qq \in {a.qq, 0}
    BY <1>12
  <2> HIDE DEF a
  <2>2. DOMAIN <<a>> = {1} /\ <<a>>[1] = a
    OBVIOUS
  <2>3. OwnLogins(<<a>>)
    BY <2>1, <2>2 DEF OwnLogins
  <2> QED BY <2>3 DEF a
<1>13. ASSUME NEW q, NEW t, NEW u, t.qq = q, u.qq \in {q, 0}, Bind(q, t, u) PROVE Goal
  <2>1. CASE q \in routes
    BY <1>4, <1>13, <2>1 DEF Bind
  <2>2. CASE q \notin routes
    BY <1>1, <1>12, <1>13, <2>2 DEF Bind
  <2> QED BY <2>1, <2>2
<1>14. ASSUME NEW w, LoginFailed(w) PROVE Goal
  BY <1>10, <1>14 DEF LoginFailed
<1>15. CASE ServeLogin
  <2>1. NextToken(requests[1].qq).qq = requests[1].qq
    BY DEF NextToken
  <2> QED BY <1>13, <1>14, <1>15, <2>1 DEF ServeLogin
<1>16. CASE ServeTokenLogin
  <2>1. NoToken.qq = 0
    BY DEF NoToken
  <2> QED BY <1>13, <1>14, <1>16, <2>1 DEF ServeTokenLogin
<1>17. CASE ServeRefresh \/ ServeRegisterRefused \/ ServeChangePassword
  <2>1. \E r : r.kind # "loginOK" /\ Reply(r)
    BY <1>17 DEF ServeRefresh, ServeRegisterRefused, ServeChangePassword
  <2> QED BY <1>10, <2>1
<1>18. ASSUME NEW q \in QQs, ServeRegister(q) PROVE Goal
  <2>1. NextToken(q).qq = q
    BY DEF NextToken
  <2>2. OwnLogins(answer')
    BY <1>12, <1>18, <2>1 DEF ServeRegister
  <2>3. OwnLogins(responses')
    BY <1>1, <1>18, OwnAppend DEF ServeRegister
  <2> QED BY <2>2, <2>3
<1>19. CASE Answer
  <2>1. answer # <<>> /\ responses' = responses \o answer /\ answer' = <<>>
    BY <1>19 DEF Answer
  <2>2. responses' = Append(responses, answer[1]) /\ 1 \in DOMAIN answer
    BY <1>1, <2>1, AnswerAppended DEF ClientTypeOK
  <2> QED BY <1>1, <1>2, <2>1, <2>2, OwnAppend DEF OwnLogins
<1>20. CASE Handler
  BY <1>3, <1>15, <1>16, <1>17, <1>18, <1>19, <1>20 DEF Handler, ServeDelivered
<1>21. CASE Environment
  BY <1>3, <1>4, <1>7, <1>21 DEF Environment, AccessExpires, RefreshExpires, OtherTerminal, ConnectionLost,
       ServerRestart, Stop, network
<1>22. CASE UNCHANGED vars
  BY <1>3, <1>22 DEF vars, network, conn
<1> QED BY <1>5, <1>7, <1>8, <1>11, <1>20, <1>21, <1>22 DEF Next

\* Nothing is asked or answered when a command is typed without haste.
LEMMA CalmType ==
  ASSUME ClientTypeOK, Type, ~hasty'
  PROVE  ~hasty /\ None(requests, AskedKinds) /\ None(responses, AnsweredKinds) /\ answer = <<>>
<1>1. ~hasty /\ ~Outstanding
  BY Zenon DEF Type
<1>2. \A i \in DOMAIN requests : requests[i].kind = "delivered"
  BY <1>1 DEF Outstanding
<1>3. \A i \in DOMAIN responses : responses[i].kind = "text"
  BY <1>1 DEF Outstanding
<1>4. answer = <<>>
  BY <1>1 DEF Outstanding
<1>5. "delivered" \notin AskedKinds /\ "text" \notin AnsweredKinds
  BY DEF AskedKinds, AnsweredKinds
<1> QED BY <1>1, <1>2, <1>3, <1>4, <1>5 DEF None

LEMMA OwnSave ==
  ASSUME ClientTypeOK, OwnFiles(accessFile, refreshFile), NEW q \in QQs \cup {0}, NEW t, NEW u,
         q # 0 => t.qq \in {q, 0} /\ u.qq \in {q, 0}, SaveTokens(q, t, u)
  PROVE  OwnFiles(accessFile', refreshFile')
<1>1. accessFile \in [QQs -> FileContent] /\ refreshFile \in [QQs -> FileContent]
  BY DEF ClientTypeOK
<1>2. \A r \in QQs : accessFile'[r] = accessFile[r] \/ (q # 0 /\ r = q /\ accessFile'[r] = t)
  BY <1>1 DEF SaveTokens, WithAccess
<1>3. \A r \in QQs : refreshFile'[r] = refreshFile[r] \/ (q # 0 /\ r = q /\ refreshFile'[r] = u)
  BY <1>1 DEF SaveTokens, WithRefresh
<1> QED BY <1>2, <1>3 DEF OwnFiles

LEMMA OwnRemove ==
  ASSUME ClientTypeOK, OwnFiles(accessFile, refreshFile), NEW q \in QQs \cup {0}, RemoveTokens(q)
  PROVE  OwnFiles(accessFile', refreshFile')
<1>1. accessFile \in [QQs -> FileContent] /\ refreshFile \in [QQs -> FileContent] /\ NoToken.qq = 0
  BY DEF ClientTypeOK, NoToken
<1>2. \A r \in QQs : accessFile'[r] = accessFile[r] \/ accessFile'[r] = NoToken
  BY <1>1 DEF RemoveTokens, WithAccess
<1>3. \A r \in QQs : refreshFile'[r] = refreshFile[r] \/ refreshFile'[r] = NoToken
  BY <1>1 DEF RemoveTokens
<1> QED BY <1>1, <1>2, <1>3 DEF OwnFiles

\* The commands.
LEMMA OwnKeyboard ==
  ASSUME ClientTypeOK, OwnInv, Keyboard, ~hasty'
  PROVE  /\ ~hasty /\ OwnFiles(accessFile', refreshFile')
         /\ Calm(requests', responses', answer', pending', myQQ')
<1>1. requests \in Seq(Requests) /\ responses \in Seq(Responses)
  BY DEF ClientTypeOK
<1>2. Type /\ responses' = responses /\ answer' = answer
  BY DEF Keyboard, TypeLogin, TypeRegister, TypeChangePassword, TypeLogout, Type, conn
<1>3. /\ ~hasty /\ None(requests, AskedKinds) /\ None(responses, AnsweredKinds) /\ answer = <<>>
      /\ OwnFiles(accessFile, refreshFile)
  BY <1>2, CalmType DEF OwnInv
<1>4. (\E r : r.kind # "refresh" /\ Send(r)) \/ requests' = requests
  BY DEF Keyboard, TypeLogin, TypeRegister, TypeChangePassword, TypeLogout
<1>5. ASSUME requests' = requests PROVE Calm(requests', responses', answer', pending', myQQ')
  <2> DEFINE p == pending'
             q == myQQ'
  <2> HIDE DEF p, q
  <2>1. Calm(requests, responses, answer, p, q)
    BY <1>1, <1>3, CalmAgain
  <2> QED BY <1>2, <1>5, <2>1 DEF p, q
<1>6. ASSUME NEW r, r.kind # "refresh", requests' = Append(requests, r)
      PROVE  Calm(requests', responses', answer', pending', myQQ')
  BY <1>1, <1>2, <1>3, <1>6, CalmSend
<1>7. Calm(requests', responses', answer', pending', myQQ')
  BY <1>4, <1>5, <1>6 DEF Send
<1>8. OwnFiles(accessFile', refreshFile')
  <2>1. UNCHANGED files \/ RemoveTokens(myQQ)
    BY DEF Keyboard, TypeLogin, TypeRegister, TypeChangePassword, TypeLogout
  <2>2. myQQ \in QQs \cup {0}
    BY DEF ClientTypeOK
  <2> QED BY <1>3, <2>1, <2>2, OwnRemove DEF files
<1> QED BY <1>3, <1>7, <1>8

\* The server.
LEMMA OwnHandler ==
  ASSUME ClientTypeOK, SessionInv, running, Calm(requests, responses, answer, pending, myQQ), Handler
  PROVE  Calm(requests', responses', answer', pending', myQQ')
<1>1. requests \in Seq(Requests) /\ responses \in Seq(Responses) /\ answer \in Seq(LoginResponse) /\ Len(answer) <= 1
  BY DEF ClientTypeOK
<1> DEFINE p == pending'
           q == myQQ'
           Goal == Calm(requests', responses', answer', p, q)
<1> SUFFICES Goal
  OBVIOUS
<1>2. p = pending /\ q = myQQ
  BY DEF Handler, ServeLogin, ServeTokenLogin, ServeRefresh, ServeRegisterRefused, ServeRegister, ServeChangePassword,
         ServeDelivered, Answer, Serve, memory
<1>3. Calm(requests, responses, answer, p, q)
  BY <1>2
<1> HIDE DEF p, q
<1>4. ASSUME NEW kind, Serve(kind) PROVE requests # <<>> /\ requests[1].kind = kind /\ answer = <<>> /\ up
  BY <1>4 DEF Serve
<1>5. ASSUME NEW kind \in AskedKinds, Serve(kind)
      PROVE  /\ None(Tail(requests), AskedKinds) /\ None(responses, AnsweredKinds)
             /\ kind = "refresh" => requests[1].qq = p
             /\ Tail(requests) \in Seq(Requests)
  <2>1. requests # <<>> /\ requests[1].kind = kind /\ answer = <<>>
    BY <1>4, <1>5
  <2>2. Tail(requests) \in Seq(Requests)
    BY <1>1, <2>1, HeadTailProperties
  <2> QED BY <1>1, <1>3, <1>5, <2>1, <2>2, CalmServe
<1>6. ASSUME NEW kind \in AskedKinds, Serve(kind), NEW r, Reply(r), r.kind = "refreshOK" => r.access.qq = p,
             r.kind = "changed" => r.access.qq = r.refresh.qq /\ q \in {0, r.access.qq}
      PROVE  Goal
  <2>1. requests' = Tail(requests) /\ responses' = Append(responses, r) /\ answer' = <<>>
    BY <1>4, <1>6 DEF Reply
  <2> QED BY <1>1, <1>5, <1>6, <2>1, CalmReply
<1>7. CASE Close
  BY <1>1, <1>2, <1>3, <1>7, CalmClose DEF p, q
<1>8. ASSUME NEW kind \in AskedKinds, Serve(kind), NEW k, NEW t, NEW u, Bind(k, t, u) PROVE Goal
  <2>1. CASE k \in routes
    BY <1>7, <1>8, <2>1 DEF Bind
  <2>2. CASE k \notin routes
    <3>1. requests' = Tail(requests) /\ responses' = responses
      BY <1>8, <2>2 DEF Bind
    <3> QED BY <1>1, <1>5, <1>8, <3>1, CalmAgain
  <2> QED BY <2>1, <2>2
<1>9. ASSUME NEW kind \in AskedKinds, Serve(kind), NEW w, LoginFailed(w) PROVE Goal
  <2> DEFINE r == [kind |-> "loginFailed", why |-> w]
  <2>1. r.kind = "loginFailed" /\ Reply(r)
    BY <1>9 DEF LoginFailed
  <2> HIDE DEF r
  <2> QED BY <1>6, <1>9, <2>1
<1>10. {"login", "tokenLogin", "refresh", "register", "change"} \subseteq AskedKinds
  BY DEF AskedKinds
<1>11. CASE ServeLogin
  BY <1>8, <1>9, <1>10, <1>11 DEF ServeLogin
<1>12. CASE ServeTokenLogin
  BY <1>8, <1>9, <1>10, <1>12 DEF ServeTokenLogin
<1>13. CASE ServeRefresh
  <2>1. Serve("refresh")
    BY <1>13 DEF ServeRefresh
  <2>2. requests[1].qq = p
    BY <1>5, <1>10, <2>1
  <2>3. NextToken(requests[1].qq).qq = p
    BY <2>2 DEF NextToken
  <2>4. \E r : Reply(r) /\ r.kind # "changed" /\ (r.kind = "refreshOK" => r.access.qq = p)
    BY <1>13, <2>3 DEF ServeRefresh
  <2> QED BY <1>6, <1>10, <2>1, <2>4
<1>14. CASE ServeRegisterRefused
  <2>1. Serve("register") /\ \E r : Reply(r) /\ r.kind # "changed" /\ r.kind # "refreshOK"
    BY <1>14 DEF ServeRegisterRefused
  <2> QED BY <1>6, <1>10, <2>1
<1>15. CASE ServeChangePassword
  <2>1. Serve("change")
    BY <1>15 DEF ServeChangePassword
  <2>2. answer = <<>> /\ up /\ None(responses, AnsweredKinds)
    BY <1>4, <1>5, <1>10, <2>1
  <2>3. \A i \in DOMAIN responses : responses[i].kind # Done
    BY <2>2 DEF None, AnsweredKinds, Done
  <2>4. q \in {0, srvQQ}
    BY <1>2, <2>2, <2>3 DEF SessionInv, LoginIsLast
  <2>5. NextToken(srvQQ).qq = srvQQ
    BY DEF NextToken
  <2>6. \E r : /\ Reply(r) /\ r.kind # "refreshOK"
               /\ r.kind = "changed" => r.access.qq = r.refresh.qq /\ q \in {0, r.access.qq}
    BY <1>15, <2>4, <2>5 DEF ServeChangePassword
  <2> QED BY <1>6, <1>10, <2>1, <2>6
<1>16. ASSUME NEW k \in QQs, ServeRegister(k) PROVE Goal
  <2> DEFINE r == [kind |-> "shown"]
  <2>1. Serve("register") /\ requests' = Tail(requests) /\ responses' = Append(responses, r)
    BY <1>16 DEF ServeRegister
  <2>2. r.kind = "shown"
    OBVIOUS
  <2> HIDE DEF r
  <2>3. None(Tail(requests), AskedKinds) /\ None(responses, AnsweredKinds) /\ Tail(requests) \in Seq(Requests)
    BY <1>5, <1>10, <2>1
  <2>4. r.kind \notin AnsweredKinds
    BY <2>2 DEF AnsweredKinds
  <2>5. None(responses', AnsweredKinds)
    BY <1>1, <2>1, <2>3, <2>4, NoneOfAppend
  <2>6. responses' \in Seq(Responses \cup {r})
    BY <1>1, <2>1, SeqMonotonic, AppendProperties
  <2> QED BY <2>1, <2>3, <2>5, <2>6, CalmAgain
<1>17. CASE ServeDelivered
  <2>1. Serve("delivered") /\ requests' = Tail(requests) /\ UNCHANGED <<responses, answer>>
    BY <1>17 DEF ServeDelivered
  <2> QED BY <1>1, <1>3, <1>4, <2>1, CalmAcked
<1>18. CASE Answer
  <2>1. answer # <<>> /\ responses' = responses \o answer /\ answer' = <<>> /\ requests' = requests
    BY <1>18 DEF Answer
  <2>2. responses' = Append(responses, answer[1]) /\ answer[1] \in LoginResponse
    BY <1>1, <2>1, AnswerAppended
  <2>3. answer[1].kind \in {"loginOK", "loginFailed"}
    BY <2>2 DEF LoginResponse
  <2>4. None(requests, AskedKinds) /\ None(responses, AnsweredKinds)
    BY <1>3, <2>1 DEF Calm
  <2> QED BY <1>1, <2>1, <2>2, <2>3, <2>4, CalmReply
<1> QED BY <1>11, <1>12, <1>13, <1>14, <1>15, <1>16, <1>17, <1>18 DEF Handler

\* The goroutine that reads the connection.
LEMMA OwnReader ==
  ASSUME ClientTypeOK, LoginInv, Calm(requests, responses, answer, pending, myQQ),
         OwnFiles(accessFile, refreshFile), Reader \/ ReadLoginCrash
  PROVE  /\ OwnFiles(accessFile', refreshFile')
         /\ running' => Calm(requests', responses', answer', pending', myQQ')
<1>1. /\ requests \in Seq(Requests) /\ responses \in Seq(Responses) /\ NoToken.qq = 0
      /\ pending \in QQs \cup {0} /\ myQQ \in QQs \cup {0}
  BY DEF ClientTypeOK, NoToken
<1> DEFINE p == pending'
           q == myQQ'
           Files == OwnFiles(accessFile', refreshFile')
           Quiet == Calm(requests', responses', answer', p, q)
<1> SUFFICES Files /\ (running' => Quiet)
  OBVIOUS
<1>2. ASSUME NEW kind, Read(kind)
      PROVE  /\ responses # <<>> /\ responses[1].kind = kind /\ responses[1] \in Responses
             /\ responses' = Tail(responses) /\ Tail(responses) \in Seq(Responses) /\ answer' = answer
  <2>1. responses # <<>> /\ responses[1].kind = kind /\ responses' = Tail(responses) /\ answer' = answer
    BY <1>2 DEF Read, conn
  <2>2. responses[1] \in Responses
    BY <1>1, <1>2, ReadFirst
  <2> QED BY <1>1, <2>1, <2>2, HeadTailProperties
<1>3. ASSUME NEW kind \in AnsweredKinds, Read(kind)
      PROVE  /\ None(requests, AskedKinds) /\ None(Tail(responses), AnsweredKinds) /\ answer = <<>>
             /\ kind = "refreshOK" => responses[1].access.qq = pending
             /\ kind = "changed" => /\ responses[1].access.qq = responses[1].refresh.qq
                                    /\ myQQ \in {0, responses[1].access.qq}
  <2>1. responses # <<>> /\ responses[1].kind = kind
    BY <1>2, <1>3
  <2> QED BY <1>1, <1>3, <2>1, CalmRead
<1>4. ASSUME NEW kind \in AnsweredKinds, Read(kind), requests' = requests PROVE Quiet
  <2>1. responses' = Tail(responses) /\ Tail(responses) \in Seq(Responses) /\ answer' = answer
    BY <1>2, <1>4
  <2>2. Calm(requests, Tail(responses), answer, p, q)
    BY <1>1, <1>3, <1>4, <2>1, CalmAgain
  <2> QED BY <1>4, <2>1, <2>2
<1>5. ASSUME NEW kind \in AnsweredKinds, Read(kind), NEW r, Send(r), r.kind = "refresh" => r.qq = p PROVE Quiet
  <2>1. responses' = Tail(responses) /\ Tail(responses) \in Seq(Responses) /\ answer' = answer
    BY <1>2, <1>5
  <2>2. CASE requests' = requests
    BY <1>4, <1>5, <2>2
  <2>3. CASE requests' = Append(requests, r)
    <3>1. None(requests, AskedKinds) /\ None(Tail(responses), AnsweredKinds) /\ answer = <<>>
      BY <1>3, <1>5
    <3>2. Calm(Append(requests, r), Tail(responses), <<>>, p, q)
      BY <1>1, <1>5, <2>1, <3>1, CalmSend
    <3> QED BY <2>1, <2>3, <3>1, <3>2
  <2> QED BY <1>5, <2>2, <2>3 DEF Send
<1>6. {"loginOK", "loginFailed", "refreshOK", "refreshFailed", "changed"} \subseteq AnsweredKinds
  BY DEF AnsweredKinds
<1>7. ASSUME NEW t, NEW n \in QQs \cup {0}, n # 0 => t.qq \in {n, 0}, SaveTokens(n, t, NoToken) PROVE Files
  BY <1>1, <1>7, OwnSave
<1>8. ASSUME Read("loginOK")
      PROVE  /\ responses[1].qq \in QQs /\ responses[1].access.qq = responses[1].qq
             /\ responses[1].refresh.qq \in {responses[1].qq, 0}
  <2>1. responses # <<>> /\ responses[1].kind = "loginOK" /\ responses[1] \in Responses
    BY <1>2, <1>8
  <2>2. responses[1].qq \in QQs
    BY <2>1, ResponseKinds
  <2>3. OwnLogins(responses)
    BY DEF LoginInv
  <2> QED BY <1>1, <2>1, <2>2, <2>3, OwnTail
<1>9. CASE ReadLoginOK
  <2>1. Read("loginOK") /\ requests' = requests /\ SaveTokens(responses[1].qq, responses[1].access, responses[1].refresh)
    BY <1>9 DEF ReadLoginOK
  <2>2. Files
    BY <1>8, <2>1, OwnSave
  <2> QED BY <1>4, <1>6, <2>1, <2>2
<1>10. CASE ReadLoginCrash
  <2>1. Read("loginOK") /\ ~running' /\ SaveTokens(responses[1].qq, responses[1].access, NoToken)
    BY <1>10 DEF ReadLoginCrash
  <2> QED BY <1>7, <1>8, <2>1
<1>11. CASE ReadLoginFailed
  <2>1. Read("loginFailed")
    BY <1>11 DEF ReadLoginFailed
  <2>2. CASE UNCHANGED files /\ p = pending /\ Send([kind |-> "refresh", qq |-> pending, token |-> refreshFile[pending]])
    <3> DEFINE r == [kind |-> "refresh", qq |-> pending, token |-> refreshFile[pending]]
    <3>1. r.qq = p /\ Send(r)
      BY <2>2
    <3> HIDE DEF r
    <3>2. Quiet
      BY <1>5, <1>6, <2>1, <3>1
    <3>3. Files
      BY <2>2 DEF files
    <3> QED BY <3>2, <3>3
  <2>3. CASE RemoveTokens(pending) /\ requests' = requests
    <3>1. Files
      BY <1>1, <2>3, OwnRemove
    <3> QED BY <1>4, <1>6, <2>1, <2>3, <3>1
  <2> QED BY <1>11, <2>2, <2>3 DEF ReadLoginFailed
<1>12. CASE ReadRefreshOK
  <2>1. Read("refreshOK") /\ SaveTokens(pending, responses[1].access, NoToken)
    BY <1>12 DEF ReadRefreshOK
  <2>2. \E r : r.kind # "refresh" /\ Send(r)
    BY <1>12 DEF ReadRefreshOK
  <2>3. Quiet
    BY <1>5, <1>6, <2>1, <2>2
  <2>4. responses[1].access.qq = pending
    BY <1>3, <1>6, <2>1
  <2>5. Files
    BY <1>1, <1>7, <2>1, <2>4
  <2> QED BY <2>3, <2>5
<1>13. CASE ReadRefreshFailed
  <2>1. Read("refreshFailed") /\ RemoveTokens(pending) /\ requests' = requests
    BY <1>13 DEF ReadRefreshFailed
  <2>2. Files
    BY <1>1, <2>1, OwnRemove
  <2> QED BY <1>4, <1>6, <2>1, <2>2
<1>14. CASE ReadChanged
  <2>1. Read("changed") /\ requests' = requests /\ SaveTokens(myQQ, responses[1].access, responses[1].refresh)
    BY <1>14 DEF ReadChanged, Changer
  <2>2. responses[1].access.qq = responses[1].refresh.qq /\ myQQ \in {0, responses[1].access.qq}
    BY <1>3, <1>6, <2>1
  <2>3. Files
    BY <1>1, <2>1, <2>2, OwnSave
  <2> QED BY <1>4, <1>6, <2>1, <2>3
<1>15. CASE ReadShown \/ ReadText
  <2>1. \E kind : Read(kind)
    BY <1>15 DEF ReadShown, ReadText
  <2>2. responses # <<>> /\ responses' = Tail(responses) /\ answer' = answer
    BY <1>2, <2>1
  <2>3. UNCHANGED <<accessFile, refreshFile, pending, myQQ>>
    BY <1>15 DEF ReadShown, ReadText, memory, files
  <2>4. Calm(requests, Tail(responses), answer, pending, myQQ)
    BY <1>1, <2>2, CalmHeard
  <2>5. requests' = requests \/ \E r : r.kind = "delivered" /\ requests' = Append(requests, r)
    BY <1>15 DEF ReadShown, ReadText, Send
  <2>6. Calm(requests', Tail(responses), answer, pending, myQQ)
    BY <1>1, <2>4, <2>5, CalmAck
  <2> QED BY <2>2, <2>3, <2>6
<1> QED BY <1>9, <1>10, <1>11, <1>12, <1>13, <1>14, <1>15 DEF Reader

LEMMA OwnStep ==
  ASSUME ClientTypeOK, SessionInv, LoginInv, OwnInv, [Next]_vars
  PROVE  OwnInv'
<1> DEFINE Files == OwnFiles(accessFile', refreshFile')
           Quiet == Calm(requests', responses', answer', pending', myQQ')
<1> SUFFICES ASSUME ~hasty' PROVE Files /\ (running' => Quiet)
  BY DEF OwnInv, OwnFiles, Calm, None, One, RefreshesFor, AnswersFor
<1>1. requests \in Seq(Requests) /\ responses \in Seq(Responses)
  BY DEF ClientTypeOK
<1>2. ~hasty => OwnFiles(accessFile, refreshFile) /\ (running => Calm(requests, responses, answer, pending, myQQ))
  BY DEF OwnInv
<1>3. CASE Keyboard
  BY <1>3, OwnKeyboard
<1>4. ASSUME hasty' = hasty, UNCHANGED files PROVE OwnFiles(accessFile, refreshFile) /\ Files
  BY <1>2, <1>4 DEF files
<1>5. CASE Handler
  <2>1. UNCHANGED <<hasty, files, running>>
    BY <1>5 DEF Handler, ServeLogin, ServeTokenLogin, ServeRefresh, ServeRegisterRefused, ServeRegister,
           ServeChangePassword, ServeDelivered, Answer, Serve, history
  <2> QED BY <1>2, <1>4, <1>5, <2>1, OwnHandler
<1>6. CASE Reader \/ ReadLoginCrash
  <2>1. \E kind : Read(kind)
    BY <1>6 DEF Reader, ReadLoginOK, ReadLoginFailed, ReadRefreshOK, ReadRefreshFailed, ReadChanged, ReadShown,
           ReadText, ReadLoginCrash
  <2>2. hasty' = hasty /\ running
    BY <2>1 DEF Read
  <2> QED BY <1>2, <1>6, <2>2, OwnReader
<1>7. ASSUME Event, running' => running, Close \/ UNCHANGED <<network, answer>> PROVE Files /\ (running' => Quiet)
  <2>1. UNCHANGED <<hasty, files, pending, myQQ>>
    BY <1>7 DEF Event, memory, history
  <2>2. ASSUME running' PROVE Quiet
    <3>1. Calm(requests, responses, answer, pending, myQQ)
      BY <1>2, <1>7, <2>1, <2>2
    <3>2. CASE Close
      BY <1>1, <2>1, <3>1, <3>2, CalmClose
    <3>3. CASE UNCHANGED <<network, answer>>
      BY <2>1, <3>1, <3>3 DEF network
    <3> QED BY <1>7, <3>2, <3>3
  <2> QED BY <1>4, <2>1, <2>2
<1>8. CASE Environment
  BY <1>6, <1>7, <1>8 DEF Environment, AccessExpires, RefreshExpires, OtherTerminal, ConnectionLost, ServerRestart, Stop
<1>9. CASE Start
  <2>1. UNCHANGED <<hasty, files>> /\ responses' = <<>> /\ answer' = <<>>
    BY <1>9 DEF Start
  <2>2. requests' = <<>> \/ \E q, t : requests' = <<[kind |-> "tokenLogin", qq |-> q, token |-> t]>>
    BY <1>9 DEF Start
  <2>3. None(responses', AnsweredKinds) /\ One(responses', AnsweredKinds) /\ AnswersFor(responses', pending', myQQ')
    BY <2>1 DEF None, One, AnswersFor
  <2>4. One(requests', AskedKinds) /\ RefreshesFor(requests', pending')
    <3>1. CASE requests' = <<>>
      BY <3>1 DEF One, RefreshesFor
    <3>2. ASSUME NEW q, NEW t, requests' = <<[kind |-> "tokenLogin", qq |-> q, token |-> t]>>
          PROVE  One(requests', AskedKinds) /\ RefreshesFor(requests', pending')
      <4> DEFINE r == [kind |-> "tokenLogin", qq |-> q, token |-> t]
      <4>1. r.kind = "tokenLogin" /\ requests' = <<r>>
        BY <3>2
      <4> HIDE DEF r
      <4>2. DOMAIN <<r>> = {1} /\ <<r>>[1] = r
        OBVIOUS
      <4>3. One(<<r>>, AskedKinds) /\ RefreshesFor(<<r>>, pending')
        BY <4>1, <4>2 DEF One, RefreshesFor
      <4> QED BY <4>1, <4>3
    <3> QED BY <2>2, <3>1, <3>2
  <2> QED BY <1>4, <2>1, <2>3, <2>4 DEF Calm
<1>10. ASSUME NEW m \in Msgs, Push(m) PROVE Files /\ (running' => Quiet)
  <2> DEFINE r == [kind |-> "text", msg |-> m]
  <2>1. UNCHANGED <<hasty, files, running, requests, answer, pending, myQQ>> /\ responses' = Append(responses, r)
    BY <1>10 DEF Push, memory
  <2>2. r.kind = "text"
    OBVIOUS
  <2> HIDE DEF r
  <2>3. ASSUME running' PROVE Quiet
    <3>1. Calm(requests, responses, answer, pending, myQQ)
      BY <1>2, <2>1, <2>3
    <3>2. Calm(requests, Append(responses, r), answer, pending, myQQ)
      BY <1>1, <2>2, <3>1, CalmPush
    <3> QED BY <2>1, <3>2
  <2> QED BY <1>4, <2>1, <2>3
<1>11. CASE UNCHANGED vars
  BY <1>2, <1>11 DEF vars, history, files, network, conn, memory
<1> QED BY <1>3, <1>5, <1>6, <1>8, <1>9, <1>10, <1>11 DEF Next

\* As long as no command is typed before the last one was answered, the token files
\* of an account have its own tokens: one thing at a time is under way, and the
\* number that waits for an answer is the one it is about.
THEOREM FilesAreOwnHolds == Spec => []FilesAreOwn
<1>1. Init => SessionInv /\ LoginInv /\ OwnInv
  <2> SUFFICES ASSUME Init PROVE SessionInv /\ LoginInv /\ OwnInv
    OBVIOUS
  <2>1. ~running /\ responses = <<>> /\ answer = <<>> /\ NoToken.qq = 0
    BY DEF Init, NoToken
  <2>2. OwnFiles(accessFile, refreshFile)
    BY <2>1 DEF Init, OwnFiles
  <2> QED BY <2>1, <2>2 DEF SessionInv, LoginInv, OwnInv, OwnLogins
<1>2. OwnInv => FilesAreOwn
  BY DEF OwnInv, OwnFiles, FilesAreOwn
<1>3. ClientTypeOK /\ SessionInv /\ LoginInv /\ OwnInv /\ [Next]_vars => SessionInv' /\ LoginInv' /\ OwnInv'
  BY SessionStep, LoginStep, OwnStep
<1> QED BY <1>1, <1>2, <1>3, ClientTypeCorrect, PTL DEF Spec
=============================================================================
