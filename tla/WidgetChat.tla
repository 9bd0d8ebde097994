------------------------------ MODULE WidgetChat ------------------------------
(***************************************************************************)
(* The merchant's side of the chat: the widgets of one shop, one for each  *)
(* browser tab it has open, the gateway's handlers for them, and the rows  *)
(* that everybody writes.  A handler awaits the database between its       *)
(* steps; what it emits reaches a socket in order, as long as the          *)
(* connection lasts.                                                       *)
(***************************************************************************)
EXTENDS Naturals, FiniteSets, SequencesExt

CONSTANTS
  Widgets,
  MaxConvs,   \* bound: conversations
  Budgets     \* bound: how many messages, status changes, and dropped connections

VARIABLES
  convs,    \* the conversations: status, and the message of lastMessageAt (0: null)
  msgs,     \* the messages in the order of createdAt: conversation, kind, and observation only:
            \*   to whom it has been emitted
  widget,   \* per tab: connection (0: none), conversation, messages on the screen, room joined
  conns,    \* connections made so far, per tab
  pipe,     \* per tab: what the gateway has emitted to it and it has not received
  opens,    \* per tab: the merchant:open handler in progress
  posts,    \* messages that are being posted
  sends, changes, drops,  \* what is left of the budget
  raced     \* observation only: tabs that were opening while a message of theirs was posted

vars == <<convs, msgs, widget, conns, pipe, opens, posts, sends, changes, drops, raced>>

Rows == DOMAIN msgs
NoOpen == [pc |-> "none"]

Init ==
  /\ convs = <<>>
  /\ msgs = <<>>
  /\ widget = [w \in Widgets |-> [conn |-> 0, conv |-> 0, shown |-> <<>>, room |-> 0]]
  /\ conns = [w \in Widgets |-> 0]
  /\ pipe = [w \in Widgets |-> <<>>]
  /\ opens = [w \in Widgets |-> NoOpen]
  /\ posts = {}
  /\ \E b \in Budgets : sends = b[1] /\ changes = b[2] /\ drops = b[3]
  /\ raced = {}

Emitted(sockets, event) == [w \in Widgets |-> IF w \in sockets THEN Append(pipe[w], event) ELSE pipe[w]]
InRoom(c) == {w \in Widgets : widget[w].conn # 0 /\ widget[w].room = c}

-----------------------------------------------------------------------------
(* Opening: on every connect the widget asks for its conversation.         *)

\* The open conversations that come first in descending lastMessageAt: null comes first.
Latest ==
  LET open == {c \in DOMAIN convs : convs[c].status # "CLOSED"}
      fresh == {c \in open : convs[c].last = 0} IN
  IF fresh # {} THEN fresh ELSE {c \in open : \A d \in open : convs[d].last <= convs[c].last}

\* The connection joins the room and is told its conversation.
Joins(w, n, c) ==
  /\ widget' = [widget EXCEPT ![w].conn = n, ![w].room = c]
  /\ pipe' = [pipe EXCEPT ![w] = Append(@, [kind |-> "conversation", conv |-> c])]
  /\ opens' = [opens EXCEPT ![w] = [pc |-> "read", conv |-> c]]

\* Connecting, and getOrCreateForShop up to its first answer.
Connect(w) ==
  /\ widget[w].conn = 0
  /\ opens[w].pc = "none"
  /\ conns' = [conns EXCEPT ![w] = @ + 1]
  /\ IF Latest = {}
     THEN /\ widget' = [widget EXCEPT ![w].conn = conns[w] + 1]
          /\ opens' = [opens EXCEPT ![w] = [pc |-> "create"]]
          /\ UNCHANGED pipe
     ELSE \E c \in Latest : Joins(w, conns[w] + 1, c)
  /\ UNCHANGED <<convs, msgs, posts, sends, changes, drops>>

CreateConversation(w) ==
  /\ opens[w].pc = "create"
  /\ Len(convs) < MaxConvs
  /\ convs' = Append(convs, [status |-> "OPEN", last |-> 0])
  /\ IF widget[w].conn = 0 THEN opens' = [opens EXCEPT ![w] = NoOpen] /\ UNCHANGED <<widget, pipe>>
     ELSE Joins(w, conns[w], Len(convs) + 1)
  /\ UNCHANGED <<msgs, conns, posts, sends, changes, drops>>

\* The one sequence of some messages in the order of createdAt.
InOrder(ms) ==
  {rows \in [1..Cardinality(ms) -> ms] :
     ToSet(rows) = ms /\ \A i, j \in DOMAIN rows : i < j => rows[i] < rows[j]}

\* Mutant: the notes are left for the widget to hide.
HistoryWithNotes(c) == InOrder({m \in Rows : msgs[m].conv = c})

MerchantHistory(c) == InOrder({m \in Rows : msgs[m].conv = c /\ msgs[m].kind # "note"})

ReadHistory(w) ==
  /\ opens[w].pc = "read"
  /\ \E rows \in MerchantHistory(opens[w].conv) :
       opens' = [opens EXCEPT ![w] = [pc |-> "history", conv |-> @.conv, rows |-> rows]]
  /\ UNCHANGED <<convs, msgs, widget, conns, pipe, posts, sends, changes, drops>>

SendHistory(w) ==
  /\ opens[w].pc = "history"
  /\ pipe' = Emitted({w}, [kind |-> "history", rows |-> opens[w].rows])
  /\ opens' = [opens EXCEPT ![w] = NoOpen]
  /\ UNCHANGED <<convs, msgs, widget, conns, posts, sends, changes, drops>>

-----------------------------------------------------------------------------
(* Posting: the row, then the conversation, then whoever is to be told.    *)

\* persistMessage creates the row; from is the connection that has sent it.
Posts(c, kind, from) ==
  /\ sends > 0
  /\ sends' = sends - 1
  /\ msgs' = Append(msgs, [conv |-> c, kind |-> kind, to |-> "nobody"])
  /\ posts' = posts \cup {[msg |-> Len(msgs) + 1, from |-> from]}

\* The widget posts to the conversation it knows, which may be that of an earlier connection.
MerchantMessage(w) ==
  /\ widget[w].conn # 0 /\ widget[w].conv # 0
  /\ Posts(widget[w].conv, "merchant", [tab |-> w, conn |-> widget[w].conn])
  /\ UNCHANGED <<convs, widget, conns, pipe, opens, changes, drops>>

\* An agent replies or writes a note; an announcement is put into the conversations.
OthersPost ==
  /\ \E c \in DOMAIN convs, kind \in {"reply", "note", "announcement"} : Posts(c, kind, [tab |-> "none", conn |-> 0])
  /\ UNCHANGED <<convs, widget, conns, pipe, opens, changes, drops>>

\* Then it sets the conversation's lastMessageAt, and the caller goes on.
Bumped(m) == convs' = [convs EXCEPT ![msgs[m].conv].last = m]

\* To the room.  When no agent is online, the merchant's message is followed by the notice
\* that an e-mail will come.
TellRoom(p) ==
  /\ msgs[p.msg].kind \in {"merchant", "reply"}
  /\ pipe' = Emitted(InRoom(msgs[p.msg].conv), [kind |-> "message", msg |-> p.msg])
  /\ \E online \in BOOLEAN :
       IF online \/ msgs[p.msg].kind = "reply"
       THEN /\ msgs' = [msgs EXCEPT ![p.msg].to = "room"]
            /\ posts' = posts \ {p}
       ELSE /\ msgs' = Append([msgs EXCEPT ![p.msg].to = "room"],
                              [conv |-> msgs[p.msg].conv, kind |-> "notice", to |-> "nobody"])
            /\ posts' = (posts \ {p})
                          \cup {[msg |-> Len(msgs) + 1, from |-> p.from]}
  /\ Bumped(p.msg)
  /\ UNCHANGED <<widget, conns, opens, sends, changes, drops>>

\* The notice goes to the sender's socket alone.
TellNotice(p) ==
  /\ msgs[p.msg].kind = "notice"
  /\ pipe' = Emitted({w \in Widgets : w = p.from.tab /\ widget[w].conn = p.from.conn},
                     [kind |-> "message", msg |-> p.msg])
  /\ posts' = posts \ {p}
  /\ Bumped(p.msg)
  /\ UNCHANGED <<msgs, widget, conns, opens, sends, changes, drops>>

\* A note goes nowhere, and an announcement's message is not emitted as one.
TellNobody(p) ==
  /\ msgs[p.msg].kind \in {"note", "announcement"}
  /\ posts' = posts \ {p}
  /\ Bumped(p.msg)
  /\ UNCHANGED <<msgs, widget, conns, pipe, opens, sends, changes, drops>>

-----------------------------------------------------------------------------
(* The widget.                                                             *)

Receive(w) ==
  /\ pipe[w] # <<>>
  /\ LET event == Head(pipe[w]) IN
       widget' = [widget EXCEPT
         ![w].conv = IF event.kind = "conversation" THEN event.conv ELSE @,
         ![w].shown = CASE event.kind = "history" -> event.rows
                        [] event.kind = "message" -> Append(@, event.msg)
                        [] OTHER -> @]
  /\ pipe' = [pipe EXCEPT ![w] = Tail(@)]
  /\ UNCHANGED <<convs, msgs, conns, opens, posts, sends, changes, drops>>

Dropped(gone) ==
  /\ drops > 0
  /\ drops' = drops - 1
  /\ widget' = [w \in Widgets |-> IF w \in gone THEN [widget[w] EXCEPT !.conn = 0, !.room = 0]
                                  ELSE widget[w]]
  /\ pipe' = [w \in Widgets |-> IF w \in gone THEN <<>> ELSE pipe[w]]

\* What a handler has yet to emit to the connection goes nowhere; the conversation it is
\* creating is created.
Disconnect(w) ==
  /\ widget[w].conn # 0
  /\ Dropped({w})
  /\ opens' = [opens EXCEPT ![w] = IF @.pc = "create" THEN @ ELSE NoOpen]
  /\ UNCHANGED <<convs, msgs, conns, posts, sends, changes>>

\* The process restarts, or a handler's query has failed and nothing catches it.
ServerDies ==
  /\ \E w \in Widgets : widget[w].conn # 0
  /\ Dropped(Widgets)
  /\ opens' = [w \in Widgets |-> NoOpen]
  /\ posts' = {}
  /\ UNCHANGED <<convs, msgs, conns, sends, changes>>

SetStatus ==
  /\ changes > 0
  /\ changes' = changes - 1
  /\ \E c \in DOMAIN convs, status \in {"OPEN", "CLOSED"} :
       /\ convs[c].status # status
       /\ convs' = [convs EXCEPT ![c].status = status]
  /\ UNCHANGED <<msgs, widget, conns, pipe, opens, posts, sends, drops>>

\* A tab opens its conversation while a message is being posted to it.
Races(w) ==
  \E p \in posts : opens[w].pc \in {"read", "history"} /\ msgs[p.msg].conv = opens[w].conv

Step ==
  \/ \E w \in Widgets :
       \/ Connect(w) \/ CreateConversation(w) \/ ReadHistory(w)
       \/ SendHistory(w) \/ MerchantMessage(w) \/ Receive(w) \/ Disconnect(w)
  \/ OthersPost
  \/ \E p \in posts : TellRoom(p) \/ TellNotice(p) \/ TellNobody(p)
  \/ ServerDies
  \/ SetStatus

Next ==
  /\ Step
  /\ raced' = {w \in Widgets : Races(w)' \/ (w \in raced /\ conns'[w] = conns[w])}

Spec == Init /\ [][Next]_vars
-----------------------------------------------------------------------------
TypeOK ==
  /\ \A c \in DOMAIN convs : convs[c].status \in {"OPEN", "CLOSED"} /\ convs[c].last \in {0} \cup Rows
  /\ \A m \in Rows : msgs[m].conv \in DOMAIN convs /\ msgs[m].to \in {"nobody", "room"}
  /\ \A w \in Widgets :
       /\ widget[w].conn \in {0, conns[w]}
       /\ {widget[w].conv, widget[w].room} \subseteq {0} \cup DOMAIN convs
       /\ ToSet(widget[w].shown) \subseteq Rows
       /\ widget[w].conn = 0 => pipe[w] = <<>>
       /\ opens[w].pc \in {"none", "create", "read", "history"}
  /\ \A p \in posts : p.msg \in Rows

\* A tab that has its conversation and to which nothing is on its way.
AtRest(w) ==
  /\ widget[w].conn # 0 /\ widget[w].room # 0 /\ widget[w].room = widget[w].conv
  /\ pipe[w] = <<>> /\ opens[w].pc = "none"
  /\ \A p \in posts : msgs[p.msg].conv # widget[w].conv

\* Whatever connections drop, tabs and agents write at once and conversations are closed and
\* reopened, a tab at rest shows its conversation's messages once each, no note, and all
\* that was told to the room; only a tab that was opening while a message was being posted
\* may miss that message or show it twice (merchant:open joins the room, then reads the history).
ShowsConversation ==
  \A w \in Widgets : AtRest(w) /\ w \notin raced =>
    LET shown == ToSet(widget[w].shown) IN
    /\ IsInjective(widget[w].shown)
    /\ \A m \in shown : msgs[m].kind = "notice" \/ (msgs[m].conv = widget[w].conv /\ msgs[m].kind # "note")
    /\ {m \in Rows : msgs[m].conv = widget[w].conv /\ msgs[m].to = "room"} \subseteq shown
=============================================================================
