------------------------------ MODULE AgentInbox ------------------------------
(***************************************************************************)
(* The agents' side of the chat: the browser tabs of the support team, the *)
(* gateway's handlers for them, and the merchants' messages that reach     *)
(* them.  A conversation that nobody has taken yet rings in every tab for  *)
(* half a minute, under a banner that can silence it; opening one stops    *)
(* the ringing everywhere, takes it, and marks its messages read.  A       *)
(* history is asked for, read at the server, and answered later.           *)
(***************************************************************************)
EXTENDS Naturals, FiniteSets, SequencesExt

CONSTANTS
  Tabs, UserOf,    \* the agents' browser tabs, and whose each is
  Viewers,         \* the users who may read and not reply
  Convs,           \* the conversations, from 1
  Scenarios        \* bound: which tabs and conversations take part, and how many messages, connections
                   \*   lost, openings, threads left and times the sound is switched

VARIABLES
  conv,       \* per conversation: assigned, unreadCount, and how many messages of the merchant's it has
  posts,      \* merchant:message handlers in progress
  joins,      \* agent:join handlers in progress
  tab,        \* per tab: connected, joinedRef, whether that conversation's thread is shown, the banner,
              \*   the ringer, the sound
  history,    \* per tab and conversation, the query of its messages: the request that is awaited, and
              \*   how many it has read; whether rows are cached; how many messages have been fetched
  pipe,       \* per tab: what the gateway has emitted to it and it has not received
  presence,   \* PresenceTracker: the agents who are online
  left,       \* what is left of the scenario
  odd         \* observation only: conversations that a tab was cut off from, did not show, or left while
              \*   one of their messages was on its way; conversations whose request was joined after
              \*   it had missed a message; tabs that a ringing conversation rang again; tabs cut off
              \*   while they rang; conversations taken while a message was on its way

vars == <<conv, posts, joins, tab, history, pipe, presence, left, odd>>

None == 0

Init ==
  /\ conv = [c \in Convs |-> [assigned |-> FALSE, unread |-> 0, posted |-> 0]]
  /\ posts = {} /\ joins = {}
  /\ tab = [t \in Tabs |-> [up |-> FALSE, open |-> None, thread |-> FALSE, call |-> None, ring |-> None,
                            sound |-> TRUE]]
  /\ history = [t \in Tabs |-> [c \in Convs |-> [pc |-> "idle", rows |-> 0, there |-> FALSE, seen |-> 0]]]
  /\ pipe = [t \in Tabs |-> <<>>]
  /\ presence = {}
  /\ left \in Scenarios
  /\ odd = [blind |-> {}, joined |-> {}, twice |-> {}, cut |-> {}, late |-> {}]

\* Every connected tab has joined the inbox room on connecting.
Told(event) == [t \in Tabs |-> IF tab[t].up THEN Append(pipe[t], event) ELSE pipe[t]]

-----------------------------------------------------------------------------
(* The gateway: a merchant's message.                                      *)

\* Whether the chat is new is read before the message is stored.
MerchantMessage(c) ==
  /\ c \in left.convs /\ left.sends > 0
  /\ left' = [left EXCEPT !.sends = @ - 1]
  /\ posts' = posts \cup {[id |-> left.sends, conv |-> c, isNew |-> ~conv[c].assigned, stored |-> FALSE]}
  /\ UNCHANGED <<conv, joins, tab, history, pipe, presence, odd>>

\* persistMessage: the row, and one more unread.
PersistMessage(p) ==
  /\ ~p.stored
  /\ conv' = [conv EXCEPT ![p.conv].posted = @ + 1, ![p.conv].unread = @ + 1]
  /\ posts' = (posts \ {p}) \cup {[p EXCEPT !.stored = TRUE]}
  /\ UNCHANGED <<joins, tab, history, pipe, presence, left, odd>>

\* To everybody who has the inbox.
Announce(p) ==
  /\ p.stored
  /\ pipe' = Told([kind |-> "incoming", conv |-> p.conv, isNew |-> p.isNew])
  /\ posts' = posts \ {p}
  /\ UNCHANGED <<conv, joins, tab, history, presence, left, odd>>

-----------------------------------------------------------------------------
(* The gateway: agent:join.                                                *)

Joining(t, c) == {[tab |-> t, conv |-> c, read |-> FALSE, pc |-> "open"]}
Ended(j) == IF j.read /\ j.pc = "done" THEN {} ELSE {j}

\* markRead, which the handler does not wait for.
MarkRead(j) ==
  /\ ~j.read
  /\ conv' = [conv EXCEPT ![j.conv].unread = 0]
  /\ joins' = (joins \ {j}) \cup Ended([j EXCEPT !.read = TRUE])
  /\ UNCHANGED <<posts, tab, history, pipe, presence, left, odd>>

\* Everybody is told that the chat has been opened; when it was nobody's, and the agent may
\* reply, it is to be assigned.
TellReceived(j) ==
  /\ j.pc = "open"
  /\ pipe' = Told([kind |-> "taken", conv |-> j.conv, again |-> FALSE])
  /\ LET takes == ~conv[j.conv].assigned /\ UserOf[j.tab] \notin Viewers IN
       joins' = (joins \ {j}) \cup Ended([j EXCEPT !.pc = IF takes THEN "assign" ELSE "done"])
  /\ UNCHANGED <<conv, posts, tab, history, presence, left, odd>>

Assign(j) ==
  /\ j.pc = "assign"
  /\ conv' = [conv EXCEPT ![j.conv].assigned = TRUE]
  /\ joins' = (joins \ {j}) \cup {[j EXCEPT !.pc = "tell"]}
  /\ UNCHANGED <<posts, tab, history, pipe, presence, left, odd>>

\* conversation:assigned, and inbox:activity.
TellAssigned(j) ==
  /\ j.pc = "tell"
  /\ pipe' = Told([kind |-> "taken", conv |-> j.conv, again |-> TRUE])
  /\ joins' = (joins \ {j}) \cup Ended([j EXCEPT !.pc = "done"])
  /\ odd' = [odd EXCEPT !.late = @ \cup {p.conv : p \in {p \in posts : p.conv = j.conv /\ p.isNew}}]
  /\ UNCHANGED <<conv, posts, tab, history, presence, left>>

-----------------------------------------------------------------------------
(* The tab.                                                                *)

\* The provider subscribes to the inbox, and joins the open conversation again, whose
\* history it does not fetch again.
Connect(t) ==
  /\ t \in left.tabs /\ ~tab[t].up
  /\ tab' = [tab EXCEPT ![t].up = TRUE]
  /\ presence' = presence \cup {UserOf[t]}
  /\ LET c == tab[t].open IN
       /\ joins' = IF c = None THEN joins ELSE joins \cup Joining(t, c)
       /\ odd' = [odd EXCEPT !.blind = @ \cup ({c} \ {None})]
  /\ UNCHANGED <<conv, posts, history, pipe, left>>

\* Losing one of a user's two tabs takes the user offline.
Disconnect(t) ==
  /\ tab[t].up
  /\ left.drops > 0
  /\ left' = [left EXCEPT !.drops = @ - 1]
  /\ presence' = presence \ {UserOf[t]}
  /\ tab' = [tab EXCEPT ![t].up = FALSE]
  /\ pipe' = [pipe EXCEPT ![t] = <<>>]
  /\ odd' = [odd EXCEPT !.blind = @ \cup ({tab[t].open} \ {None}),
                        !.cut = IF tab[t].ring = None /\ pipe[t] = <<>> THEN @ ELSE @ \cup {t}]
  /\ UNCHANGED <<conv, posts, joins, history>>

\* Stopping the ringer takes away the banner of the conversation it rang for.
Stopped(r) == [r EXCEPT !.ring = None, !.call = IF @ = r.ring THEN None ELSE @]

Dismissed(r) == [Stopped(r) EXCEPT !.call = None]

\* Conversations of which a message, or a markRead, is on its way.
UnderWay(t) == {x.conv : x \in posts \cup joins \cup ToSet(pipe[t])}

\* The conversation whose thread is on the page.
Shown(t) == IF tab[t].thread THEN {tab[t].open} ELSE {}

Asked(q) == [q EXCEPT !.pc = "asked", !.rows = 0]

\* A thread that appears asks for the history, or joins the request that is awaited.
Mounts(q) == IF q.pc = "idle" THEN Asked(q) ELSE q

\* An invalidated history is asked for again, whatever is awaited; a first load is joined.
Invalidated(q) == IF q.pc = "idle" \/ q.there THEN Asked(q) ELSE q

\* The request that is awaited has been read before a message was stored.
Missed(q, c) == q.pc = "read" /\ q.rows < conv[c].posted

\* A history that no thread has shown for five minutes is dropped from the cache.
Cached(q) == {q, IF q.pc = "idle" THEN [q EXCEPT !.there = FALSE] ELSE q}

\* From the list, or from a banner or notification (answerIncomingCall), which dismisses
\* whichever call there is, and joins the conversation also when the list does not have it.
OpenConversation(t, c) ==
  /\ t \in left.tabs /\ c \in left.convs /\ left.opens > 0
  /\ left' = [left EXCEPT !.opens = @ - 1]
  /\ c \notin Shown(t)
  /\ \E answers, appears \in BOOLEAN, q \in Cached(history[t][c]) :
       LET r == IF answers \/ tab[t].call = c THEN Dismissed(tab[t]) ELSE tab[t] IN
       /\ answers => tab[t].call # None
       /\ answers \/ appears
       /\ tab' = [tab EXCEPT ![t] = [r EXCEPT !.open = c, !.thread = appears]]
       /\ history' = [history EXCEPT ![t][c] = IF appears THEN Mounts(q) ELSE q]
       /\ odd' = [odd EXCEPT !.blind = @ \cup (Shown(t) \cap UnderWay(t)) \cup (IF appears THEN {} ELSE {c}),
                             !.joined = @ \cup (IF Missed(q, c) THEN {c} ELSE {})]
  /\ joins' = IF tab[t].up THEN joins \cup Joining(t, c) ELSE joins
  /\ UNCHANGED <<conv, posts, pipe, presence>>

\* Another page, or a list that no longer has the conversation; joinedRef stays.
LeaveThread(t) ==
  /\ tab[t].thread /\ left.leaves > 0
  /\ left' = [left EXCEPT !.leaves = @ - 1]
  /\ tab' = [tab EXCEPT ![t].thread = FALSE]
  /\ odd' = [odd EXCEPT !.blind = @ \cup (Shown(t) \cap UnderWay(t))]
  /\ UNCHANGED <<conv, posts, joins, history, pipe, presence>>

\* Mutant: the ringer of another call goes on under the banner of the new one.
IncomingCallAdds(r, c) ==
  IF r.open = c THEN r
  ELSE IF r.sound /\ r.ring = None THEN [r EXCEPT !.call = c, !.ring = c] ELSE [r EXCEPT !.call = c]

\* The banner, then the ringer, which first stops the one that is ringing; without sound it
\* stops at once.
IncomingCall(r, c) ==
  IF r.open = c THEN r
  ELSE LET rung == [Stopped([r EXCEPT !.call = c]) EXCEPT !.ring = c] IN
       IF r.sound THEN rung ELSE Stopped(rung)

\* inbox:activity and chat:incoming ring; chat:received and conversation:assigned dismiss the call.
Heard(r, event) ==
  CASE event.kind = "incoming" -> IF event.isNew THEN IncomingCall(r, event.conv) ELSE r
    [] event.kind = "taken" -> IF r.call = event.conv THEN Dismissed(r) ELSE r

Rung(t, event) == IF event.kind = "incoming" /\ event.isNew /\ tab[t].ring = event.conv THEN {t} ELSE {}

\* Mutant: only the list is fetched again, not the history.
ReceiveStale(t) ==
  /\ pipe[t] # <<>>
  /\ tab' = [tab EXCEPT ![t] = Heard(@, Head(pipe[t]))]
  /\ odd' = [odd EXCEPT !.twice = @ \cup Rung(t, Head(pipe[t]))]
  /\ pipe' = [pipe EXCEPT ![t] = Tail(@)]
  /\ UNCHANGED <<conv, posts, joins, history, presence, left>>

\* inbox:activity, which every message has, invalidates the history besides; one that no
\* thread shows is not asked for.
Receive(t) ==
  /\ pipe[t] # <<>>
  /\ LET event == Head(pipe[t])
         again == {c \in Shown(t) \cap {event.conv} : event.kind = "incoming" \/ event.again} IN
       /\ tab' = [tab EXCEPT ![t] = Heard(@, event)]
       /\ history' = [history EXCEPT ![t] =
                        [c \in Convs |-> IF c \in again THEN Invalidated(@[c]) ELSE @[c]]]
       /\ odd' = [odd EXCEPT !.twice = @ \cup Rung(t, event),
                             !.joined = @ \cup {c \in again : ~history[t][c].there /\ Missed(history[t][c], c)}]
  /\ pipe' = [pipe EXCEPT ![t] = Tail(@)]
  /\ UNCHANGED <<conv, posts, joins, presence, left>>

\* The history is read at the server ...
ReadHistory(t, c) ==
  /\ history[t][c].pc = "asked"
  /\ history' = [history EXCEPT ![t][c].pc = "read", ![t][c].rows = conv[c].posted]
  /\ UNCHANGED <<conv, posts, joins, tab, pipe, presence, left, odd>>

\* ... and its answer comes in later.
Refetch(t, c) ==
  /\ history[t][c].pc = "read"
  /\ history' = [history EXCEPT ![t][c] = [pc |-> "idle", rows |-> 0, there |-> TRUE, seen |-> @.rows]]
  /\ UNCHANGED <<conv, posts, joins, tab, pipe, presence, left, odd>>

\* Every attempt at it fails.
FetchFails(t, c) ==
  /\ history[t][c].pc # "idle" /\ left.drops > 0
  /\ left' = [left EXCEPT !.drops = @ - 1]
  /\ history' = [history EXCEPT ![t][c].pc = "idle", ![t][c].rows = 0]
  /\ odd' = [odd EXCEPT !.blind = @ \cup {c}]
  /\ UNCHANGED <<conv, posts, joins, tab, pipe, presence>>

\* Half a minute is over.
RingerEnds(t) ==
  /\ tab[t].ring # None
  /\ tab' = [tab EXCEPT ![t] = Stopped(@)]
  /\ UNCHANGED <<conv, posts, joins, history, pipe, presence, left, odd>>

Silence(t) ==
  /\ tab[t].call # None
  /\ tab' = [tab EXCEPT ![t] = Dismissed(@)]
  /\ UNCHANGED <<conv, posts, joins, history, pipe, presence, left, odd>>

ToggleSound(t) ==
  /\ t \in left.tabs /\ left.switches > 0
  /\ left' = [left EXCEPT !.switches = @ - 1]
  /\ tab' = [tab EXCEPT ![t] = IF @.sound THEN [Stopped(@) EXCEPT !.sound = FALSE]
                               ELSE [@ EXCEPT !.sound = TRUE]]
  /\ UNCHANGED <<conv, posts, joins, history, pipe, presence, odd>>

Next ==
  \/ \E c \in Convs : MerchantMessage(c)
  \/ \E p \in posts : PersistMessage(p) \/ Announce(p)
  \/ \E j \in joins : MarkRead(j) \/ TellReceived(j) \/ Assign(j) \/ TellAssigned(j)
  \/ \E t \in Tabs :
       \/ Connect(t) \/ Disconnect(t) \/ LeaveThread(t) \/ Receive(t)
       \/ RingerEnds(t) \/ Silence(t) \/ ToggleSound(t)
       \/ \E c \in Convs : OpenConversation(t, c) \/ ReadHistory(t, c) \/ Refetch(t, c) \/ FetchFails(t, c)

Spec == Init /\ [][Next]_vars
-----------------------------------------------------------------------------
Scenario == [tabs : SUBSET Tabs, convs : SUBSET Convs, sends : Nat, drops : Nat, opens : Nat, leaves : Nat,
             switches : Nat]
Numbered == Convs \subseteq Nat \ {None} /\ Scenarios \subseteq Scenario

Conversation == [assigned : BOOLEAN, unread : Nat, posted : Nat]
Post == [id : Nat, conv : Convs, isNew : BOOLEAN, stored : BOOLEAN]
Join == [tab : Tabs, conv : Convs, read : BOOLEAN, pc : {"open", "assign", "tell", "done"}]
Tab == [up : BOOLEAN, open : Convs \cup {None}, thread : BOOLEAN, call : Convs \cup {None},
        ring : Convs \cup {None}, sound : BOOLEAN]
Query == [pc : {"idle", "asked", "read"}, rows : Nat, there : BOOLEAN, seen : Nat]
Event == [kind : {"incoming"}, conv : Convs, isNew : BOOLEAN]
           \cup [kind : {"taken"}, conv : Convs, again : BOOLEAN]

TypeOK ==
  /\ conv \in [Convs -> Conversation]
  /\ \A c \in Convs : conv[c].unread <= conv[c].posted
  /\ posts \subseteq Post /\ joins \subseteq Join
  /\ tab \in [Tabs -> Tab] /\ pipe \in [Tabs -> Seq(Event)]
  /\ history \in [Tabs -> [Convs -> Query]]
  /\ \A t \in Tabs :
       /\ \A c \in Convs : LET q == history[t][c] IN
            q.seen <= conv[c].posted /\ (q.pc = "read" => q.seen <= q.rows /\ q.rows <= conv[c].posted)
       /\ ~tab[t].up => pipe[t] = <<>>
       /\ ~tab[t].sound => tab[t].ring = None
  /\ presence \subseteq {UserOf[t] : t \in {t \in Tabs : tab[t].up}}
  /\ left \in Scenario
  /\ odd \in [blind : SUBSET Convs, joined : SUBSET Convs, twice : SUBSET Tabs, cut : SUBSET Tabs, late : SUBSET Convs]

\* No handler is at work, and nothing is on its way to a tab.
Quiet ==
  /\ posts = {} /\ joins = {}
  /\ \A t \in Tabs : pipe[t] = <<>> /\ \A c \in Convs : history[t][c].pc = "idle"

\* Whoever opens conversations, in whatever order messages, markRead and the fetches come, a
\* message that no tab has fetched is still counted as unread (agent:join).  The exceptions are
\* named: a conversation that a tab was cut off from, could not load, did not show when its call
\* was answered, or left at that moment; and one whose request was joined, by the invalidation
\* of a first load or by a thread that appears again, after it had been read without the message.
ReadMeansFetched ==
  Quiet => \A c \in Convs \ (odd.blind \cup odd.joined) :
             \A n \in 1 .. conv[c].posted :
               n <= conv[c].posted - conv[c].unread => \E t \in Tabs : n <= history[t][c].seen

\* The ringing stops in all tabs when a conversation is assigned, and wherever it goes on
\* there is a banner to silence it; only a message that was on its way when the conversation
\* was taken, a second message of a ringing conversation, and a connection lost meanwhile
\* leave a tab ringing (startCallRinger, onStop, chat:received).
AnsweredIsSilent ==
  Quiet => \A t \in Tabs \ (odd.twice \cup odd.cut) :
             /\ tab[t].ring # None => tab[t].call = tab[t].ring
             /\ \A c \in Convs \ odd.late : conv[c].assigned => tab[t].ring # c

=============================================================================
