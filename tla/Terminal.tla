------------------------------ MODULE Terminal ------------------------------
(***************************************************************************)
(* cmd/client: the chat of the terminal, of a user who is logged in on a    *)
(* connection that is open (Client has the rest).  The goroutine that reads *)
(* the keyboard and the one that reads the connection share the target, the *)
(* place in the history and the number of unanswered messages; the server   *)
(* (internal/handler/ws.go) handles the requests one after the other.       *)
(*                                                                         *)
(* sentCount and historyOffset are read and written by both goroutines       *)
(* without a lock.  The keyboard's reads, and the reader's of sentCount, are *)
(* therefore steps of their own.                                           *)
(***************************************************************************)
EXTENDS History, Integers

CONSTANTS
  PageSize,     \* 30 in the program
  Stored,       \* the rows at the beginning
  StoredFiles,  \* ids of those that may be files
  Ranges,       \* the ranges one may ask for, as pairs of ids
  MaxRows,      \* bound on rows
  MaxCommands,  \* bound on lines typed
  MaxEvents     \* bound on what others do

Everything == <<1, MaxRows>>

ASSUME TerminalAssumption ==
  /\ PageSize \in Nat \ {0}
  /\ Stored \in Seq(Row) /\ Len(Stored) <= MaxRows /\ StoredFiles \subseteq DOMAIN Stored
  /\ Ranges \subseteq Nat \X Nat
  /\ MaxRows \in Nat /\ MaxCommands \in Nat /\ MaxEvents \in Nat
  /\ Me \notin Peers /\ None \notin Peers \cup Groups /\ Peers \cap Groups = {}

VARIABLES
  loggedIn,                       \* myQQNumber # 0
  targetQQ, targetGroup,          \* whom a line is sent to
  historyQQ, historyGroup,        \* whose history is paged through
  offset, range,                  \* historyOffset; historyFromTime and historyToTime
  sentCount,                      \* messages that were not answered, as the terminal counts
  typing,                         \* what the keyboard's goroutine has read
  acking,                         \* the sentCount that the reader has read
  requests, responses,            \* what is under way
  member,                         \* groups that Me is a member of
  binary,                         \* ids of files whose content is not UTF-8
  counted,                        \* the server's: the rows that Count has found
  page, walk,                     \* history: the last page received, the pages since the first one
  crossed, strayed, raced, skipped, \* history, see the properties
  commands, events                \* how many there were

table == <<rows, kept, recalled, member, binary>>
target == <<targetQQ, targetGroup>>
context == <<historyQQ, historyGroup, offset, range>>
counting == <<sentCount, acking>>
network == <<requests, responses>>
display == <<page, walk>>
observed == <<crossed, strayed, raced, skipped>>
vars == <<loggedIn, target, context, counting, typing, network, table, counted, display, observed, commands,
          events>>

\* What the keyboard's goroutine is about to do with the number it has read.
Idle == [cmd |-> "idle", n |-> 0, ofGroup |-> FALSE]
NotRead == MaxCommands + 1
NoPage == [kind |-> "page", chat |-> None, offset |-> 0, range |-> Everything,
           shown |-> <<>>, more |-> FALSE, all |-> <<>>, counted |-> {}]

\* What the server holds when it is not between Count and Find.
NotCounted == {0}

\* What a message of protocol/qqgo.proto carries, as far as it matters here.
CheckUserRequest == [kind : {"check"}, qq : Peers]
GroupInfoRequest == [kind : {"info"}, group : Groups]
TextMessage == [kind : {"text"}, qq : Peers \cup {None}, group : Groups \cup {None}]
HistoryRequest == [kind : {"history"}, chat : Chat \cup {None}, offset : Nat, range : Nat \X Nat]
GroupLeaveRequest == [kind : {"leave"}, group : Groups]
RecallRequest == [kind : {"recall"}, id : Nat]
OtherRequest == [kind : {"other"}]  \* answered by a ServerAck, like /block
Requests == CheckUserRequest \cup GroupInfoRequest \cup TextMessage \cup HistoryRequest
              \cup GroupLeaveRequest \cup RecallRequest \cup OtherRequest

\* text: the ServerAck answers a message; only observed.
ServerAck == [kind : {"ack"}, content : {"not group member", "other"}, text : BOOLEAN]
CheckUserResponse == [kind : {"switch"}, qq : Peers] \cup [kind : {"nobody"}]
GroupInfoResponse == [kind : {"group"}, group : Groups]
\* all: what was selected, of which shown is one page; counted: what had been
\* counted before; only observed.
HistoryResponse == [kind : {"page"}, chat : Chat, offset : Nat, range : Nat \X Nat,
                    shown : Seq(Nat), more : BOOLEAN, all : Seq(Nat), counted : SUBSET Nat]
Responses == ServerAck \cup CheckUserResponse \cup GroupInfoResponse \cup HistoryResponse

TerminalTypeOK ==
  /\ loggedIn \in BOOLEAN
  /\ {targetQQ, historyQQ} \subseteq Peers \cup {None}
  /\ {targetGroup, historyGroup} \subseteq Groups \cup {None}
  /\ offset \in Nat /\ range \in Ranges \cup {Everything}
  /\ sentCount \in 0..MaxCommands
  /\ typing \in [cmd : {"idle", "text", "prev", "next"}, n : Nat, ofGroup : BOOLEAN]
  /\ acking \in 0..NotRead
  /\ requests \in Seq(Requests) /\ responses \in Seq(Responses)
  /\ rows \in Seq(Row) /\ Len(rows) <= MaxRows
  /\ kept \subseteq DOMAIN rows /\ recalled \subseteq DOMAIN rows
  /\ member \subseteq Groups /\ binary \subseteq DOMAIN rows
  /\ counted = NotCounted \/ counted \subseteq DOMAIN rows
  /\ page \in HistoryResponse \cup {NoPage}
  /\ walk \in [next : Nat, seen : Seq(Nat), gap : BOOLEAN]
  /\ crossed \in BOOLEAN /\ strayed \in BOOLEAN /\ raced \in BOOLEAN /\ skipped \in BOOLEAN
  /\ commands \in 0..MaxCommands /\ events \in 0..MaxEvents

Init ==
  /\ loggedIn = TRUE
  /\ targetQQ = None /\ targetGroup = None
  /\ historyQQ = None /\ historyGroup = None
  /\ offset = 0 /\ range = Everything
  /\ sentCount = 0 /\ typing = Idle /\ acking = NotRead
  /\ requests = <<>> /\ responses = <<>>
  /\ rows = Stored /\ kept = DOMAIN Stored /\ recalled = {} /\ member = Groups
  /\ binary \in SUBSET StoredFiles /\ counted = NotCounted
  /\ page = NoPage /\ walk = [next |-> 0, seen |-> <<>>, gap |-> FALSE]
  /\ crossed = FALSE /\ strayed = FALSE /\ raced = FALSE /\ skipped = FALSE
  /\ commands = 0 /\ events = 0

-----------------------------------------------------------------------------
(* The keyboard.                                                           *)

Send(request) == requests' = Append(requests, request)
GetHistory(chat, n, of) == [kind |-> "history", chat |-> chat, offset |-> n, range |-> of]

Type ==
  /\ typing = Idle
  /\ commands < MaxCommands
  /\ commands' = commands + 1
  /\ UNCHANGED <<counting, responses, table, counted, display, raced, skipped, events>>

\* A /togroup was not answered yet.
Joining ==
  \/ \E i \in DOMAIN requests : requests[i].kind = "info"
  \/ \E i \in DOMAIN responses : responses[i].kind = "group"

\* Mutant of LeaveGroupChat: the group stays the target.
StayInGroupChat == targetGroup' = targetGroup /\ historyGroup' = None
\* Mutant of LeaveGroupChat: the group stays the context of /prev.
KeepGroupContext == targetGroup' = None /\ historyGroup' = historyGroup
LeaveGroupChat == targetGroup' = None /\ historyGroup' = None

TypeTo(q) ==
  /\ Type
  /\ LeaveGroupChat
  /\ Send([kind |-> "check", qq |-> q])
  /\ crossed' = (crossed \/ Joining)
  /\ UNCHANGED <<loggedIn, targetQQ, historyQQ, offset, range, typing, strayed>>

TypeToGroup(g) ==
  /\ Type
  /\ Send([kind |-> "info", group |-> g])
  /\ UNCHANGED <<loggedIn, target, context, typing, crossed, strayed>>

TypeLeaveGroup(g) ==
  /\ Type
  /\ Send([kind |-> "leave", group |-> g])
  /\ IF g = targetGroup
       THEN /\ targetQQ' = None /\ historyQQ' = None
            /\ LeaveGroupChat
            /\ offset' = 0
       ELSE UNCHANGED <<target, historyQQ, historyGroup, offset>>
  /\ UNCHANGED <<loggedIn, range, typing, crossed, strayed>>

TypeHistory(q, of) ==
  /\ Type
  /\ historyQQ' = q /\ historyGroup' = None
  /\ offset' = 0 /\ range' = of
  /\ Send(GetHistory(q, 0, of))
  /\ strayed' = TRUE
  /\ UNCHANGED <<loggedIn, target, typing, crossed>>

TypeLogout ==
  /\ loggedIn
  /\ Type
  /\ loggedIn' = FALSE
  /\ targetQQ' = None /\ targetGroup' = None /\ historyQQ' = None
  /\ strayed' = TRUE
  /\ UNCHANGED <<historyGroup, offset, range, typing, requests, crossed>>

TypeRecall(i) ==
  /\ Type
  /\ Send([kind |-> "recall", id |-> i])
  /\ UNCHANGED <<loggedIn, target, context, typing, crossed, strayed>>

TypeOther ==
  /\ Type
  /\ Send([kind |-> "other"])
  /\ UNCHANGED <<loggedIn, target, context, typing, crossed, strayed>>

\* A line that is not a command, /sendfile, /prev and /next: the number that is
\* going to change is read.
BeginText ==
  /\ targetQQ # None \/ targetGroup # None
  /\ Type
  /\ typing' = [Idle EXCEPT !.cmd = "text", !.n = sentCount]
  /\ UNCHANGED <<loggedIn, target, context, requests, crossed, strayed>>

BeginPage(cmd) ==
  /\ historyGroup # None \/ historyQQ # None
  /\ Type
  /\ typing' = [cmd |-> cmd, n |-> offset, ofGroup |-> historyGroup # None]
  /\ UNCHANGED <<loggedIn, target, context, requests, crossed, strayed>>

\* It is written and the request is sent.
Finish(cmd) ==
  /\ typing.cmd = cmd
  /\ typing' = Idle
  /\ UNCHANGED <<loggedIn, target, historyQQ, historyGroup, range, acking, responses,
                 table, counted, display, crossed, strayed, skipped, commands, events>>

FinishText ==
  /\ Finish("text")
  /\ sentCount' = typing.n + 1
  /\ raced' = (raced \/ typing.n # sentCount \/ acking # NotRead)
  /\ Send([kind |-> "text", qq |-> targetQQ, group |-> targetGroup])
  /\ UNCHANGED offset

\* Mutant of Back: from the second page on.
BackTooFar(n) == IF n = 0 THEN PageSize ELSE n + PageSize + 1
Back(n) == n + PageSize
\* Mutant of Forth: the first page is not a limit.
ForthBelowZero(n) == n - PageSize
Forth(n) == IF n >= PageSize THEN n - PageSize ELSE 0

FinishPage(cmd, n) ==
  /\ Finish(cmd)
  /\ offset' = n
  /\ raced' = (raced \/ typing.n # offset)
  /\ Send(IF typing.ofGroup THEN GetHistory(historyGroup, n, Everything) ELSE GetHistory(historyQQ, n, range))
  /\ UNCHANGED sentCount

-----------------------------------------------------------------------------
(* The server.  What a request needs beyond the chats is left open: that the *)
(* number is somebody's, that a message is admitted (Friends), that two      *)
(* minutes are not over, that the rate limit is not exceeded, that a query   *)
(* succeeds.                                                               *)

Serve(kind) ==
  /\ requests # <<>> /\ requests[1].kind = kind
  /\ requests' = Tail(requests)
  /\ counted' = NotCounted
  /\ UNCHANGED <<loggedIn, target, context, counting, typing, display, crossed, strayed, raced,
                 commands, events>>

Reply(response) == responses' = Append(responses, response)
Ack(kind, content) == Reply([kind |-> "ack", content |-> content, text |-> kind = "text"])

\* The request is refused; the place in the history has moved already.
Refuse(kind) ==
  /\ Serve(kind)
  /\ Ack(kind, "other")
  /\ skipped' = (skipped \/ kind = "history")
  /\ UNCHANGED table

\* IsGroupMember says no.
RefuseMember(kind) ==
  LET r == requests[1] IN
  /\ Serve(kind)
  /\ counted = NotCounted
  /\ (IF kind = "history" THEN r.chat ELSE r.group) \in Groups \ member
  /\ Ack(kind, "not group member")
  /\ skipped' = (skipped \/ kind = "history")
  /\ UNCHANGED table

ServeCheckUser ==
  /\ Serve("check")
  /\ Reply([kind |-> "switch", qq |-> requests[1].qq]) \/ Reply([kind |-> "nobody"])
  /\ UNCHANGED <<table, skipped>>

ServeGroupInfo ==
  /\ Serve("info")
  /\ requests[1].group \in member
  /\ Reply([kind |-> "group", group |-> requests[1].group])
  /\ UNCHANGED <<table, skipped>>

\* A new row, which may be a file.
Insert(row) ==
  /\ Len(rows) < MaxRows
  /\ rows' = Append(rows, row)
  /\ kept' = kept \cup {Len(rows) + 1}
  /\ binary' \in {binary, binary \cup {Len(rows) + 1}}

\* handleChatMessage and handleFileMessage.
ServeText ==
  LET r == requests[1] IN
  /\ Serve("text")
  /\ IF r.group # None THEN r.group \in member ELSE r.qq # None
  /\ Insert([from |-> Me, to |-> r.qq, group |-> r.group])
  /\ Ack("text", "other")
  /\ UNCHANGED <<recalled, member, skipped>>

\* handleHistory and handleGroupHistory, to the end of Count, of which an error is
\* not looked at.
CountHistory ==
  LET r == requests[1] IN
  /\ requests # <<>> /\ r.kind = "history"
  /\ counted = NotCounted
  /\ r.chat \in Peers \cup member
  /\ counted' \in {Matching(r.chat, r.range), {}}
  /\ UNCHANGED <<loggedIn, target, context, counting, typing, network, table, display, observed,
                 commands, events>>

\* From Find on.
PageOf(r) ==
  LET all == Selected(r.chat, r.range) IN
  [kind |-> "page", chat |-> r.chat, offset |-> r.offset, range |-> r.range,
   shown |-> Window(all, r.offset, PageSize), more |-> HasMore(Cardinality(counted), r.offset, PageSize),
   all |-> all, counted |-> counted]
CanMarshal(p) == ToSet(p.shown) \cap binary = {}

ServeHistory ==
  /\ Serve("history")
  /\ counted # NotCounted
  /\ CanMarshal(PageOf(requests[1]))
  /\ Reply(PageOf(requests[1]))
  /\ UNCHANGED <<table, skipped>>

\* WriteProto sends nothing if a file is not UTF-8.
LosePage ==
  /\ Serve("history")
  /\ counted # NotCounted
  /\ ~CanMarshal(PageOf(requests[1]))
  /\ skipped' = TRUE
  /\ UNCHANGED <<responses, table>>

ServeLeaveGroup ==
  /\ Serve("leave")
  /\ member' = member \ {requests[1].group}
  /\ Ack("leave", "other")
  /\ UNCHANGED <<rows, kept, recalled, binary, skipped>>

\* RecallMessage.
MayRecall(i) == i \in kept \ recalled /\ rows[i].from = Me

ServeRecall ==
  /\ Serve("recall")
  /\ MayRecall(requests[1].id)
  /\ recalled' = recalled \cup {requests[1].id}
  /\ Ack("recall", "other")
  /\ UNCHANGED <<rows, kept, member, binary, skipped>>

-----------------------------------------------------------------------------
(* The goroutine that reads the connection.                                *)

Read(kind) ==
  /\ responses # <<>> /\ responses[1].kind = kind
  /\ responses' = Tail(responses)
  /\ UNCHANGED <<loggedIn, typing, table, counted, commands, events>>

\* handleServerAck in two steps, of which the second takes the message.
BeginAck ==
  /\ responses # <<>> /\ responses[1].kind = "ack"
  /\ acking = NotRead
  /\ acking' = sentCount
  /\ UNCHANGED <<loggedIn, target, context, sentCount, typing, network, table, counted, display,
                 observed, commands, events>>

\* Mutant of Answered: a refusal is not counted.
AnsweredUnlessRefused(n, r) == IF r.content = "not group member" THEN n ELSE n - 1
Answered(n, r) == n - 1

ReadAck ==
  LET n == IF acking <= 1 THEN 0 ELSE Answered(acking, responses[1]) IN
  /\ acking # NotRead
  /\ Read("ack")
  /\ acking' = NotRead
  /\ sentCount' = n
  /\ raced' = (raced \/ acking # sentCount)
  /\ IF n = 0 /\ responses[1].content = "not group member" /\ targetGroup # None
       THEN LeaveGroupChat /\ offset' = 0 /\ skipped' = TRUE
       ELSE UNCHANGED <<targetGroup, historyGroup, offset, skipped>>
  /\ UNCHANGED <<targetQQ, historyQQ, range, requests, display, crossed, strayed>>

\* handleCheckUserResponse.
ReadSwitch ==
  LET q == responses[1].qq IN
  /\ Read("switch")
  /\ targetQQ' = q /\ historyQQ' = q
  /\ offset' = 0 /\ range' = Everything
  /\ Send(GetHistory(q, 0, Everything))
  /\ strayed' = (strayed /\ historyGroup # targetGroup)
  /\ UNCHANGED <<targetGroup, historyGroup, counting, display, crossed, raced, skipped>>

ReadNobody == Read("nobody") /\ UNCHANGED <<target, context, counting, requests, display, observed>>

\* handleGroupInfoResponse.
ReadGroup ==
  LET g == responses[1].group IN
  /\ Read("group")
  /\ targetGroup' = g /\ historyGroup' = g
  /\ targetQQ' = None /\ historyQQ' = None
  /\ offset' = 0
  /\ Send(GetHistory(g, 0, Everything))
  /\ strayed' = FALSE
  /\ UNCHANGED <<range, counting, display, crossed, raced, skipped>>

\* displayHistory and displayGroupHistory.
ReadPage ==
  LET r == responses[1]
      continues == r.offset = walk.next /\ page.more /\ r.chat = page.chat /\ r.range = page.range IN
  /\ Read("page")
  /\ page' = r
  /\ walk' = CASE r.offset = 0 -> [next |-> PageSize, seen |-> r.shown, gap |-> FALSE]
              [] r.offset > 0 /\ continues ->
                   [next |-> walk.next + PageSize, seen |-> walk.seen \o r.shown,
                    gap |-> walk.gap \/ Len(walk.seen) # walk.next
                              \/ ~(ToSet(walk.seen) \subseteq ToSet(r.all))]
              [] OTHER -> [walk EXCEPT !.gap = TRUE]
  /\ UNCHANGED <<target, context, counting, requests, observed>>

-----------------------------------------------------------------------------
(* What others do.                                                         *)

Event ==
  /\ events < MaxEvents
  /\ events' = events + 1
  /\ UNCHANGED <<loggedIn, target, context, counting, typing, requests, counted, display, observed,
                 commands>>

\* A peer sends a message, to Me or to a group.
Arrive(peer, g) ==
  /\ Event
  /\ Insert([from |-> peer, to |-> IF g = None THEN Me ELSE None, group |-> g])
  /\ UNCHANGED <<responses, recalled, member>>

PeerRecalls(i) ==
  /\ Event
  /\ i \in kept \ recalled
  /\ recalled' = recalled \cup {i}
  /\ UNCHANGED <<responses, rows, kept, member, binary>>

\* CleanMessages deletes the older rows of everybody.
Clean(i) ==
  /\ Event
  /\ kept' = {j \in kept : j > i}
  /\ kept' # kept
  /\ UNCHANGED <<responses, rows, recalled, member, binary>>

\* Me leaves a group on another terminal.
LeaveElsewhere(g) ==
  /\ Event
  /\ g \in member
  /\ member' = member \ {g}
  /\ UNCHANGED <<responses, rows, kept, recalled, binary>>

\* The rate limit refuses the acknowledgement of a message that was received.
AckRefused ==
  /\ Event
  /\ Ack("delivered", "other")
  /\ UNCHANGED table

-----------------------------------------------------------------------------
Keyboard ==
  \/ \E q \in Peers : TypeTo(q)
  \/ \E g \in Groups : TypeToGroup(g) \/ TypeLeaveGroup(g)
  \/ \E q \in Peers, of \in Ranges : TypeHistory(q, of)
  \/ TypeLogout \/ TypeOther
  \/ \E i \in DOMAIN rows : TypeRecall(i)
  \/ BeginText \/ FinishText
  \/ BeginPage("prev") \/ FinishPage("prev", Back(typing.n))
  \/ BeginPage("next") \/ FinishPage("next", Forth(typing.n))

Server ==
  \/ \E kind \in {"check", "info", "text", "history", "leave", "recall", "other"} : Refuse(kind)
  \/ \E kind \in {"info", "text", "history"} : RefuseMember(kind)
  \/ ServeCheckUser \/ ServeGroupInfo \/ ServeText \/ CountHistory \/ ServeHistory
  \/ LosePage \/ ServeLeaveGroup \/ ServeRecall

Reader == BeginAck \/ ReadAck \/ ReadSwitch \/ ReadNobody \/ ReadGroup \/ ReadPage

Others ==
  \/ \E peer \in Peers, g \in Groups \cup {None} : Arrive(peer, g)
  \/ \E i \in DOMAIN rows : PeerRecalls(i) \/ Clean(i)
  \/ \E g \in Groups : LeaveElsewhere(g)
  \/ AckRefused

Next == Keyboard \/ Server \/ Reader \/ Others

Spec == Init /\ [][Next]_vars

-----------------------------------------------------------------------------
(* Properties.  crossed: a /to was typed while a /togroup was not answered; *)
(* strayed: /history or /logout was used since the last switch; raced: an    *)
(* update of sentCount or historyOffset was lost; skipped: a page was        *)
(* refused or could not be sent, or the place in the history was given up   *)
(* with a group.                                                           *)

\* A message goes to a peer or to a group: with both targets set it is a row of
\* the group that the peer, too, is sent when he logs in.  /to clears the group
\* when it is typed and /togroup the peer when it is answered, which leaves one
\* way to set both.
OneTarget == crossed \/ targetQQ = None \/ targetGroup = None

\* /prev and /next page through the chat that the next message goes to, however
\* switches, their refusals and refused messages follow each other.
PagesFollowTarget == strayed \/ (historyQQ = targetQQ /\ historyGroup = targetGroup)

Answers(kind, S) == {i \in DOMAIN S : S[i].kind = kind}
Unanswered == Cardinality(Answers("text", requests))
                + Cardinality({i \in Answers("ack", responses) : responses[i].text})

\* The count never exceeds the messages that are unanswered, so that the answer
\* to the last one, an acceptance or a refusal, is displayed: other commands'
\* answers are counted, too, and only a lost update leaves it too high, for good.
LastAnswerShown == raced \/ sentCount <= Unanswered

\* Who begins with the first page and types /prev as long as there is said to
\* be more has seen the rows of the chat in their order and without a gap, and
\* at the end all that were counted and are there yet, although rows arrive, are
\* recalled and are deleted meanwhile, between Count and Find too.  Only a row
\* that was seen and is gone moves the others up, or a page that is shorter than
\* others because rows went after they were counted; and a Count that failed
\* has counted none.
WalkComplete ==
  walk.gap \/ /\ IsPrefix(walk.seen, page.all)
              /\ page.more \/ page.counted \cap ToSet(page.all) \subseteq ToSet(walk.seen)

\* Two pages of one chat that follow each other are neighbours, or the second is
\* the first page, even if commands are typed faster than they are answered.
StepByPage ==
  [][page'.chat = page.chat /\ page'.range = page.range /\ page' # page /\ ~raced /\ ~skipped
       => page'.offset \in {0, page.offset, page.offset + PageSize} \/ page.offset = page'.offset + PageSize]_vars

\* The rows that a search shows around a row are those that the history of its
\* chat has before and after it; in a group, the one after is the sender's next.
ContextIsNeighbour ==
  LET found == UNION {SearchResults(chat) : chat \in Chat \cup {None}} IN
  \A chat \in Chat : LET h == Selected(chat, Everything) IN
    h # <<>> => \A r \in found : \A k \in DOMAIN h : h[k] = r.hit =>
      LET after == {l \in DOMAIN h : h[l] = r.after} IN
      /\ {l \in DOMAIN h : h[l] = r.before} = {k - 1} \cap DOMAIN h
      /\ chat \in Peers => after = {k + 1} \cap DOMAIN h
      /\ chat \in Groups => \A j \in DOMAIN h :
           j > k /\ (after = {} \/ \E a \in after : j < a) => ~SamePair(r.hit, h[j])

\* /sessions lists every chat that has a history, with the last row of it, or a
\* later one that was recalled.
SessionsShowNewest ==
  LET sessions == SessionList(member) IN
  \A chat \in Peers \cup member :
    LET history == ToSet(Selected(chat, Everything)) IN
    /\ history # {} => \E s \in sessions : s.chat = chat
    /\ \A s \in sessions : s.chat = chat /\ s.last # Newest(history) =>
         s.last > Newest(history) /\ s.last \in recalled
=============================================================================
