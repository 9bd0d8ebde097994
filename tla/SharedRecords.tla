----------------------------- MODULE SharedRecords -----------------------------
(***************************************************************************)
(* Records that operators and merchants change at the same time: notes,    *)
(* tags, pins, canned replies and scores; and the rows that one owner may  *)
(* have only so many of: saved views, survey responses, open               *)
(* conversations.  A call reads first and writes later, with its audit row *)
(* in the same transaction; what another call did meanwhile is seen by the *)
(* write only where a key or a row that is gone makes it fail.             *)
(***************************************************************************)
EXTENDS Naturals, FiniteSets

CONSTANTS
  Foci,        \* bound: the sets of records that the calls of one behaviour are about
  Texts,       \* bodies, titles and scores
  Cap,         \* rows that an owner may have of each
  MaxCalls     \* bound: calls begun

\* An owner may have one row of each, at least; "news" and "failed" mark calls, and are no texts.
Allowed ==
  /\ Cap \in [{"views", "nps", "chats"} -> Nat \ {0}] /\ MaxCalls \in Nat
  /\ Texts \cap {"news", "failed"} = {}

VARIABLES
  rows,      \* the value of each record (None: no row)
  owned,     \* how many rows an owner has
  calls,     \* calls that have read, and not written
  news,      \* the announcement: draft, published, its shop not yet told, sent
  told,      \* observation only: what the last audit row of a record says
  broken,    \* observation only: records whose audit row did not begin where the one before ended
  crossed,   \* observation only: records that changed between a call's read and its write
  focus,     \* what the calls of this behaviour are about
  left

vars == <<rows, owned, calls, news, told, broken, crossed, focus, left>>

None == "none"
Records == {"note", "tag", "chatTag", "pinned", "csat", "canned", "action"}
Owned == {"views", "nps", "chats"}

\* A conversation is unpinned when it is opened.
Born(r) == IF r = "pinned" THEN "no" ELSE None

Init ==
  /\ rows = [r \in Records |-> Born(r)]
  /\ owned = [o \in Owned |-> 0]
  /\ calls = {}
  /\ news = "draft"
  /\ told = rows
  /\ broken = {} /\ crossed = {}
  /\ focus \in Foci
  /\ left = MaxCalls

\* A call: what it saw; what must be there when it writes ("any": nothing in particular);
\* what it writes; and what it tells the audit log was there before.
Begin(what, needs, to, before) ==
  /\ what \in focus /\ left > 0
  /\ left' = left - 1
  /\ calls' = calls \cup {[n |-> left, what |-> what, needs |-> needs, to |-> to, before |-> before,
                           saw |-> IF what \in Records THEN rows[what] ELSE None,
                           had |-> IF what \in Owned THEN owned[what] ELSE 0]}
  /\ UNCHANGED <<rows, owned, news, told, broken, crossed, focus>>

-----------------------------------------------------------------------------
(* Single records.                                                         *)

\* A note is a new row.
AddNote ==
  /\ rows["note"] = None /\ told["note"] = None
  /\ \A c \in calls : c.what # "note"
  /\ \E body \in Texts : Begin("note", "gone", body, None)

EditNote == rows["note"] # None /\ \E body \in Texts : Begin("note", "there", body, rows["note"])

DeleteNote == rows["note"] # None /\ Begin("note", "there", None, rows["note"])

AddTag == rows["tag"] = None /\ Begin("tag", "gone", "label", None)

RemoveTag == rows["tag"] # None /\ Begin("tag", "there", None, "label")

\* The unique key decides whether the label is new.
AddChatTag == Begin("chatTag", "gone", "label", None)

\* There may be nothing to remove; the audit row is written all the same.
RemoveChatTag == Begin("chatTag", "any", None, "label")

\* The conversation is read before the transaction.
SetPinned == \E to \in {"yes", "no"} : rows["pinned"] # to /\ Begin("pinned", "any", to, rows["pinned"])

\* A score that is there stays.
RecordCsat == rows["csat"] = None /\ \E score \in Texts : Begin("csat", "any", score, None)

\* The shortcut is a key.
CreateCanned == \E title \in Texts : Begin("canned", "gone", title, None)

UpdateCanned == rows["canned"] # None /\ \E title \in Texts : Begin("canned", "there", title, rows["canned"])

RemoveCanned == rows["canned"] # None /\ Begin("canned", "there", None, rows["canned"])

\* What a call's write comes upon.
Found(c) == CASE c.needs = "there" -> rows[c.what] # None
              [] c.needs = "gone" -> rows[c.what] = None
              [] OTHER -> TRUE

\* The write and its audit row.
Commit(c) ==
  /\ c.what \in Records \ {"action"} /\ Found(c)
  /\ rows' = [rows EXCEPT ![c.what] = c.to]
  /\ told' = [told EXCEPT ![c.what] = c.to]
  /\ broken' = IF told[c.what] = c.before THEN broken ELSE broken \cup {c.what}
  /\ crossed' = IF rows[c.what] = c.saw THEN crossed ELSE crossed \cup {c.what}
  /\ calls' = calls \ {c}
  /\ UNCHANGED <<owned, news, focus, left>>

\* The write comes upon another row than it needs, a statement fails, or the process dies.
RollBack(c) ==
  /\ c.to # "news"
  /\ calls' = calls \ {c}
  /\ UNCHANGED <<rows, owned, news, told, broken, crossed, focus, left>>

\* The app is asked to act; the answer may be lost, and the outcome is audited as what was heard.
DispatchAppBacked ==
  /\ "action" \in focus /\ left > 0
  /\ left' = left - 1
  /\ \E heard, done \in BOOLEAN :
       /\ heard => done
       /\ rows' = [rows EXCEPT !["action"] = IF done THEN "done" ELSE @]
       /\ calls' = calls \cup {[n |-> left, what |-> "action", needs |-> "any", before |-> None,
                                to |-> IF heard THEN "done" ELSE "failed", saw |-> None, had |-> 0]}
  /\ UNCHANGED <<owned, news, told, broken, crossed, focus>>

AuditDispatch(c) ==
  /\ c.what = "action"
  /\ told' = [told EXCEPT !["action"] = c.to]
  /\ calls' = calls \ {c}
  /\ UNCHANGED <<rows, owned, news, broken, crossed, focus, left>>

-----------------------------------------------------------------------------
(* Rows of an owner: counted first, inserted later.                        *)

\* Within its cap; the name is a key.
SaveView == owned["views"] < Cap["views"] /\ Begin("views", "any", None, None)

RemoveView ==
  /\ owned["views"] > 0 /\ left > 0
  /\ left' = left - 1
  /\ owned' = [owned EXCEPT !["views"] = @ - 1]
  /\ UNCHANGED <<rows, calls, news, told, broken, crossed, focus>>

\* Mutant: a response of the window is not looked for.
RecordNpsAgain == Begin("nps", "any", None, None)

\* One response of a shop in a survey window.
RecordNps == owned["nps"] < Cap["nps"] /\ Begin("nps", "any", None, None)

\* The window of the last response ends; the conversation is closed.
Elapses(o) ==
  /\ o \in {"nps", "chats"} /\ owned[o] > 0
  /\ owned' = [owned EXCEPT ![o] = 0]
  /\ UNCHANGED <<rows, calls, news, told, broken, crossed, focus, left>>

\* A shop's first message, when none of its conversations is open.
GetOrCreateForShop == owned["chats"] < Cap["chats"] /\ Begin("chats", "any", None, None)

Insert(c) ==
  /\ c.what \in Owned
  /\ owned' = [owned EXCEPT ![c.what] = @ + 1]
  /\ crossed' = IF owned[c.what] = c.had THEN crossed ELSE crossed \cup {c.what}
  /\ calls' = calls \ {c}
  /\ UNCHANGED <<rows, news, told, broken, focus, left>>

-----------------------------------------------------------------------------
(* AnnouncementService.publish, to one shop.                               *)

Publish ==
  /\ "chats" \in focus /\ news = "draft"
  /\ news' = "telling"
  /\ UNCHANGED <<rows, owned, calls, told, broken, crossed, focus, left>>

\* The message goes into the open conversation, which is created if there is none.
FanOut ==
  /\ news = "telling" /\ \A c \in calls : c.to # "news"
  /\ IF owned["chats"] > 0
     THEN news' = "sent" /\ UNCHANGED <<rows, owned, calls, told, broken, crossed, focus, left>>
     ELSE Begin("chats", "any", "news", None)

\* A failure is captured, and the widgets are told nevertheless.
FanOutFails ==
  /\ news = "telling"
  /\ news' = "sent"
  /\ calls' = {c \in calls : c.to # "news"}
  /\ UNCHANGED <<rows, owned, told, broken, crossed, focus, left>>

Next ==
  \/ AddNote \/ EditNote \/ DeleteNote \/ AddTag \/ RemoveTag \/ AddChatTag \/ RemoveChatTag
  \/ SetPinned \/ RecordCsat \/ CreateCanned \/ UpdateCanned \/ RemoveCanned
  \/ DispatchAppBacked
  \/ SaveView \/ RemoveView \/ RecordNps \/ GetOrCreateForShop
  \/ Publish \/ FanOut \/ FanOutFails
  \/ \E o \in Owned : Elapses(o)
  \/ \E c \in calls : Commit(c) \/ AuditDispatch(c) \/ RollBack(c) \/ Insert(c)

Spec == Init /\ [][Next]_vars
-----------------------------------------------------------------------------
Values == Texts \cup {None, "label", "yes", "no", "done"}
Call == [n : Nat, what : Records \cup Owned, needs : {"there", "gone", "any"}, saw : Values, had : Nat,
         to : Values \cup {"failed", "news"}, before : Values]

TypeOK ==
  /\ rows \in [Records -> Values] /\ told \in [Records -> Values \cup {"failed"}]
  /\ owned \in [Owned -> Nat]
  /\ calls \subseteq Call
  /\ \A c \in calls : c.what \in focus /\ (c.what \in Records => c.to # "news") /\ (c.to = "failed" => c.what = "action")
  /\ news \in {"draft", "telling", "sent"}
  /\ broken \subseteq Records /\ crossed \subseteq Records \cup Owned
  /\ focus \in Foci /\ left \in Nat

\* However calls overlap, the last audit row of a record says what is there, and an app's
\* success that it reports did happen.  Unless a record changed between a call's read and its
\* write, each audit row begins where the one before ended (so a first score is never
\* replaced), and an owner has no more rows than it may: one response in a survey window, one
\* open conversation, the cap of saved views.  The removal of a conversation's tag that is not
\* there is the exception (MerchantActionService, ConversationTagService, CsatService,
\* NpsService, UsageSavedViewService, ConversationService.getOrCreateForShop).
RecordsAreTold ==
  /\ \A r \in Records \ {"action"} : told[r] = rows[r]
  /\ told["action"] = "done" => rows["action"] = "done"
  /\ broken \ {"chatTag"} \subseteq crossed
  /\ \A o \in Owned \ crossed : owned[o] <= Cap[o]

=============================================================================
