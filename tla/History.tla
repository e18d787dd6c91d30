------------------------------ MODULE History -------------------------------
(***************************************************************************)
(* internal/service/chat.go: what the queries on table messages return      *)
(* about the chats of one user, Me.  A row's id is its place in rows.       *)
(* Times are the order of the ids; every row is of a type the queries       *)
(* accept, and may match a keyword.                                        *)
(***************************************************************************)
EXTENDS Naturals, Sequences, FiniteSets, SequencesExt

CONSTANTS
  Me, Peers,    \* the user and those he chats with
  Groups,
  None          \* no peer, no group

VARIABLES
  rows,         \* all rows there ever were: sender, recipient and group
  kept,         \* ids of those that /clean has not deleted
  recalled      \* ids of those with is_recalled

Row == [from : Peers \cup {Me}, to : Peers \cup {Me, None}, group : Groups \cup {None}]
Chat == Peers \cup Groups
Visible == kept \ recalled

\* A private chat has the rows of two users without a group.
IsBetween(i, a, b) == rows[i].group = None /\ {rows[i].from, rows[i].to} = {a, b}
InChat(i, chat) == IF chat \in Groups THEN rows[i].group = chat ELSE IsBetween(i, Me, chat)

\* GetHistoryWithTarget and GetGroupHistory: the rows that are counted, the range
\* being that of --from and --to; those that are selected then, in the order of
\* their ids; one page of them; and whether there is another, of so many in total.
InRange(i, range) == range[1] <= i /\ i <= range[2]
InOrder(ids) == [k \in 1..Cardinality(ids) |-> CHOOSE i \in ids : Cardinality({j \in ids : j <= i}) = k]
Matching(chat, range) == {i \in Visible : InChat(i, chat) /\ InRange(i, range)}
Selected(chat, range) == InOrder(Matching(chat, range))

Window(selected, offset, limit) == SubSeq(selected, offset + 1, Min({offset + limit, Len(selected)}))

\* Mutant of HasMore: off by one.
HasMoreOffByOne(total, offset, limit) == offset + limit + 1 < total
HasMore(total, offset, limit) == offset + limit < total

-----------------------------------------------------------------------------
(* SearchMessages and getContextMessages.                                  *)

Newest(S) == IF S = {} THEN 0 ELSE Max(S)
Oldest(S) == IF S = {} THEN 0 ELSE Min(S)

\* The triggers write a row to messages_fts with every insertion, and delete it
\* with the message.
Indexed == kept

\* The rows that a search may find, in one chat or without one.
Hits(chat) ==
  {i \in Indexed \ recalled : IF chat = None THEN Me \in {rows[i].from, rows[i].to} ELSE InChat(i, chat)}

\* The rows that are shown before and after a row that was found, 0 if none.
ContextBefore(i) ==
  Newest({j \in Visible :
            /\ j < i
            /\ IF rows[i].group # None THEN rows[j].group = rows[i].group
               ELSE IsBetween(j, rows[i].from, rows[i].to)})

SamePair(i, j) == {rows[j].from, rows[j].to} = {rows[i].from, rows[i].to}

\* Mutant of ContextAfter: a recalled row may be shown.
ContextAfterRecalled(i) == Oldest({j \in kept : j > i /\ SamePair(i, j) /\ rows[j].group = rows[i].group})
\* The row after is one of the same two users, in a group too.
ContextAfter(i) == Oldest({j \in Visible : j > i /\ SamePair(i, j) /\ rows[j].group = rows[i].group})

\* What the answer to /searchmsg shows, if it can be sent, the queries being
\* compared on one state of the table.
SearchResults(chat) ==
  {[hit |-> i, before |-> ContextBefore(i), after |-> ContextAfter(i)] : i \in Hits(chat)}

-----------------------------------------------------------------------------
(* GetSessions.                                                            *)

Sent(peer) == {i \in kept : rows[i] = [from |-> Me, to |-> peer, group |-> None]}
Received(peer) == {i \in kept : rows[i] = [from |-> peer, to |-> Me, group |-> None]}

\* Mutant of LastMessage: what was received replaces what was sent, without a
\* look at the times.
LastReceivedFirst(chat) ==
  IF chat \in Groups THEN Newest({i \in kept : rows[i].group = chat})
  ELSE IF Received(chat) # {} THEN Newest(Received(chat)) ELSE Newest(Sent(chat))
\* The last row of a chat, 0 if there is none.
LastMessage(chat) ==
  IF chat \in Groups THEN Newest({i \in kept : rows[i].group = chat})
  ELSE Max({Newest(Sent(chat)), Newest(Received(chat))})

\* What the answer to /sessions shows, likewise: the groups of a member, and the
\* peers with whom there are rows.
SessionList(groups) ==
  {[chat |-> c, last |-> LastMessage(c)] : c \in groups \cup {p \in Peers : LastMessage(p) # 0}}
=============================================================================
