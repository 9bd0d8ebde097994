-------------------------------- MODULE Composer --------------------------------
(***************************************************************************)
(* The composer of the agents' inbox: one component for all conversations, *)
(* whose draft belongs to the inbox page and whose text stands in a        *)
(* contenteditable element.  Uploads, canned replies, notes and status     *)
(* changes come back later, whichever conversation is selected by then.    *)
(***************************************************************************)
EXTENDS Naturals, FiniteSets

CONSTANTS
  Chats,      \* the conversations, from 1
  Supplies    \* bound: how many texts are typed, files uploaded, canned replies picked, conversations
              \*   selected and answered, previews switched, connections lost, and how often the list
              \*   is asked for otherwise or the page is left

VARIABLES
  selected,   \* selectedId, from the list or from ?selected=
  listed,     \* the conversations of the list
  statuses,   \* statusFilter: the statuses that the list is asked for
  found,      \* the conversations that the search text finds
  status,     \* per conversation: its row's status
  mode,       \* activeTab: a reply or a note
  draft,      \* the page's draft: a set of texts, each with the conversation it was written for
  last,       \* lastDraftRef
  editor,     \* the text that stands in the editor
  preview,    \* the preview is shown instead of the editor, which is taken out of the page
  file,       \* the attachment: the conversation it was uploaded for (0: none)
  uploads,    \* uploads in progress, and the conversation of each
  picks,      \* canned replies being rendered, and the draft they are to be put into
  note,       \* the note being posted (bound: one at a time, whichever composer has posted it)
  changing,   \* the status change that a reply waits for
  connected,  \* the socket
  sent,       \* the messages stored, and observation only: what the editor showed, and odd
  supply,     \* what is left of the supply
  odd,        \* observation only: what has come into the composer other than by writing
  lost        \* observation only: texts written, texts the agent has thrown away, and texts lost

vars == <<selected, listed, statuses, found, status, mode, draft, last, editor, preview, file, uploads, picks,
          note, changing, connected, sent, supply, odd, lost>>

Nothing == [pc |-> "none"]
STATUSES == {"OPEN", "CLOSED", "SNOOZED"}

Init ==
  /\ selected = 0
  /\ listed = Chats
  /\ statuses = {"OPEN"} /\ found = Chats
  /\ status = [c \in Chats |-> "OPEN"]
  /\ mode = "reply"
  /\ draft = {} /\ last = {} /\ editor = {}
  /\ preview = FALSE
  /\ file = 0
  /\ uploads = {} /\ picks = {}
  /\ note = Nothing /\ changing = Nothing
  /\ connected = TRUE
  /\ sent = {}
  /\ supply \in Supplies
  /\ odd = {}
  /\ lost = [written |-> {}, thrown |-> {}, text |-> {}]

Uses(what) ==
  /\ supply[what] > 0
  /\ supply' = [supply EXCEPT ![what] = @ - 1]

\* The composer is there while the selected conversation is in the list.
Mounted == selected \in listed

-----------------------------------------------------------------------------
(* What the effects do once the page has changed.                          *)

\* A composer that appears, or an editor that comes back from the preview, is empty,
\* whatever the draft; a draft that differs from the last one is put into the editor.
Shows(sel, list, draft1, appears) ==
  /\ last' = IF sel \in list THEN draft1 ELSE last
  /\ editor' = IF sel \notin list \/ appears \/ preview THEN {}
               ELSE IF draft1 # last THEN draft1 ELSE editor

\* A composer that goes takes no notice of its uploads any more, and of its note only as far as
\* the page's draft is concerned.
Goes(gone) ==
  /\ uploads' = IF gone THEN {} ELSE uploads
  /\ note' = IF gone /\ note.pc \in {"post", "posted"} THEN [note EXCEPT !.end = "GONE"] ELSE note

\* An empty composer.
Emptied ==
  /\ draft' = {} /\ last' = {} /\ editor' = {}
  /\ file' = 0
  /\ odd' = {}

\* The effect on [conversationId, activeTab]: no attachment, no preview.
Turns(sel, list, mode1, draft1, marks) ==
  LET appears == ~Mounted /\ sel \in list
      turns   == sel # selected \/ mode1 # mode \/ sel \notin list \/ appears IN
  /\ Shows(sel, list, draft1, appears)
  /\ Goes(Mounted /\ sel \notin list)
  /\ file' = IF turns THEN 0 ELSE file
  /\ preview' = (preview /\ ~turns)
  /\ odd' = IF draft1 = {} /\ file' = 0 THEN {}
            ELSE marks \cup (IF sel # selected /\ draft1 # {} THEN {"carried"} ELSE {})
                       \cup (IF (appears \/ (turns /\ preview)) /\ draft1 # {} THEN {"blank"} ELSE {})

\* Mutant: handleSelect leaves the draft where it is.
HandleSelectKeeps(c) ==
  /\ Uses("selects")
  /\ c \in listed
  /\ selected' = c
  /\ mode' = "reply"
  /\ Turns(c, listed, "reply", {}, odd)
  /\ UNCHANGED <<listed, statuses, found, status, draft, picks, changing, connected, sent, lost>>

\* A click in the list.
HandleSelect(c) ==
  /\ Uses("selects")
  /\ c \in listed
  /\ selected' = c
  /\ mode' = "reply"
  /\ draft' = {}
  /\ lost' = [lost EXCEPT !.thrown = @ \cup draft]
  /\ Turns(c, listed, "reply", {}, odd)
  /\ UNCHANGED <<listed, statuses, found, status, picks, changing, connected, sent>>

\* A call or a notification is answered: only ?selected= changes.
AnswerIncomingCall(c) ==
  /\ Uses("answers")
  /\ selected' = c
  /\ Turns(c, listed, mode, draft, odd)
  /\ UNCHANGED <<listed, statuses, found, status, mode, draft, picks, changing, connected, sent, lost>>

\* The list is fetched again.
RefreshList ==
  /\ listed' = {c \in found : status[c] \in statuses}
  /\ listed' # listed
  /\ Turns(selected, listed', mode, draft, odd)
  /\ UNCHANGED <<selected, statuses, found, status, mode, draft, picks, changing, connected, sent, supply,
                 lost>>

\* The filter of the list: nothing is selected for a moment, until the effect takes the
\* conversation of ?selected= again, so that the composer goes; the list is empty until it has
\* been fetched.
ChangeStatusFilter(of) ==
  /\ Uses("lists")
  /\ statuses' = of
  /\ listed' = IF of = statuses THEN listed ELSE {}
  /\ Goes(Mounted)
  /\ Emptied /\ preview' = FALSE
  /\ lost' = [lost EXCEPT !.thrown = @ \cup draft]
  /\ UNCHANGED <<selected, found, status, mode, picks, changing, connected, sent>>

\* The search text leaves the selection and the draft alone; the list is fetched anew.
ChangeSearch(of) ==
  /\ Uses("lists")
  /\ found' = of
  /\ listed' = {}
  /\ Turns(selected, {}, mode, draft, odd)
  /\ UNCHANGED <<selected, statuses, status, mode, draft, picks, changing, connected, sent, lost>>

\* The inbox is left, and begins anew.  A canned reply on its way finds no page any more; a note
\* on its way is stored, and finds no page either.
LeavePage ==
  /\ Uses("lists")
  /\ selected' = 0 /\ mode' = "reply"
  /\ statuses' = {"OPEN"} /\ found' = Chats /\ listed' = {}
  /\ Emptied /\ preview' = FALSE
  /\ uploads' = {} /\ picks' = {}
  /\ note' = IF note.pc = "post" THEN [note EXCEPT !.pc = "left"]
             ELSE IF note.pc = "posted" THEN Nothing ELSE note
  /\ lost' = [lost EXCEPT !.thrown = @ \cup draft]
  /\ UNCHANGED <<status, changing, connected, sent>>

HandleTabChange ==
  /\ Mounted
  /\ mode' = IF mode = "reply" THEN "note" ELSE "reply"
  /\ Turns(selected, listed, mode', draft, odd)
  /\ UNCHANGED <<selected, listed, statuses, found, status, draft, picks, changing, connected, sent, supply,
                 lost>>

TogglePreview ==
  /\ Mounted
  /\ Uses("previews")
  /\ preview' = ~preview
  /\ editor' = {}
  /\ odd' = IF preview /\ draft # {} THEN odd \cup {"blank"} ELSE odd
  /\ UNCHANGED <<selected, listed, statuses, found, status, mode, draft, last, file, uploads, picks, note,
                 changing, connected, sent, lost>>

-----------------------------------------------------------------------------
(* Writing.                                                                *)

\* syncEditorValue: the draft becomes what the editor holds.
Type ==
  /\ Mounted /\ ~preview
  /\ Uses("texts")
  /\ editor' = editor \cup {[id |-> supply.texts, conv |-> selected]}
  /\ draft' = editor' /\ last' = editor'
  /\ lost' = [lost EXCEPT !.written = @ \cup editor', !.text = @ \cup (draft \ editor)]
  /\ odd' = odd \ {"blank"}
  /\ UNCHANGED <<selected, listed, statuses, found, status, mode, preview, file, uploads, picks, note,
                 changing, connected, sent>>

HandleFileUpload ==
  /\ Mounted
  /\ Uses("files")
  /\ uploads' = uploads \cup {[id |-> supply.files, conv |-> selected]}
  /\ UNCHANGED <<selected, listed, statuses, found, status, mode, draft, last, editor, preview, file, picks,
                 note, changing, connected, sent, odd, lost>>

\* The answer to the upload, or its error.
Uploaded(u) ==
  /\ uploads' = uploads \ {u}
  /\ file' \in {file, u.conv}
  /\ odd' = IF file' # file /\ u.conv # selected THEN odd \cup {"late"} ELSE odd
  /\ UNCHANGED <<selected, listed, statuses, found, status, mode, draft, last, editor, preview, picks, note,
                 changing, connected, sent, supply, lost>>

RemoveAttachment ==
  /\ Mounted /\ file # 0
  /\ file' = 0
  /\ odd' = odd \ {"late"}
  /\ UNCHANGED <<selected, listed, statuses, found, status, mode, draft, last, editor, preview, uploads,
                 picks, note, changing, connected, sent, supply, lost>>

\* The picker of the slash commands renders the reply for the shop, and calls back the composer
\* of that moment; the sidebar's calls back the page.
HandlePick(by) ==
  /\ Mounted
  /\ Uses("picks")
  /\ picks' = picks \cup {[by |-> by, id |-> 100 + supply.picks, conv |-> selected, draft |-> draft, odd |-> odd]}
  /\ UNCHANGED <<selected, listed, statuses, found, status, mode, draft, last, editor, preview, file,
                 uploads, note, changing, connected, sent, odd, lost>>

TextOf(p) == [id |-> p.id, conv |-> p.conv]
Strays(p) == IF p.conv # selected THEN {"stray"} ELSE {}

\* Mutant: the canned reply replaces the draft.
HandleSelectCannedAlone(p) ==
  /\ p.by = "composer"
  /\ picks' = picks \ {p}
  /\ draft' = {TextOf(p)}
  /\ last' = draft'
  /\ editor' = IF Mounted /\ ~preview THEN draft' ELSE editor
  /\ lost' = lost
  /\ odd' = odd \cup p.odd \cup Strays(p)
  /\ UNCHANGED <<selected, listed, statuses, found, status, mode, preview, file, uploads, note, changing,
                 connected, sent, supply>>

\* It is put after the draft of that moment, which becomes the draft again.
HandleSelectCanned(p) ==
  /\ p.by = "composer"
  /\ picks' = picks \ {p}
  /\ draft' = p.draft \cup {TextOf(p)}
  /\ last' = draft'
  /\ editor' = IF Mounted /\ ~preview THEN draft' ELSE editor
  /\ lost' = [lost EXCEPT !.text = @ \cup (draft \ p.draft)]
  /\ odd' = odd \cup p.odd \cup Strays(p)
  /\ UNCHANGED <<selected, listed, statuses, found, status, mode, preview, file, uploads, note, changing,
                 connected, sent, supply>>

\* The sidebar's reply replaces the draft, whatever it holds by then, and turns to the reply tab.
HandleInsertCanned(p) ==
  /\ p.by = "sidebar"
  /\ picks' = picks \ {p}
  /\ mode' = "reply"
  /\ draft' = {TextOf(p)}
  /\ lost' = [lost EXCEPT !.text = @ \cup draft]
  /\ Turns(selected, listed, "reply", draft', (odd \cap {"late", "blank"}) \cup Strays(p))
  /\ UNCHANGED <<selected, listed, statuses, found, status, changing, connected, sent, supply>>

-----------------------------------------------------------------------------
(* Sending.  The button waits for uploads; the keys, which the editor      *)
(* listens for, do not.                                                    *)

CanSubmit ==
  /\ Mounted
  /\ draft # {} \/ file # 0
  /\ uploads = {} \/ ~preview

Message(kind) ==
  [kind |-> kind, conv |-> selected, texts |-> draft, file |-> file,
   shown |-> IF preview THEN draft ELSE editor, odd |-> odd]

\* The reply is emitted, when there is a connection; the conversation may then be closed or
\* snoozed, connection or not.
SubmitReply(end) ==
  /\ CanSubmit /\ mode = "reply" /\ changing = Nothing
  /\ sent' = IF connected THEN sent \cup {Message("reply")} ELSE sent
  /\ lost' = IF connected THEN lost ELSE [lost EXCEPT !.text = @ \cup draft]
  /\ Emptied
  /\ changing' = IF end = "SEND" THEN Nothing ELSE [pc |-> "change", conv |-> selected, to |-> end]
  /\ UNCHANGED <<selected, listed, statuses, found, status, mode, preview, uploads, picks, note, connected,
                 supply>>

SubmitNote(end) ==
  /\ CanSubmit /\ mode = "note" /\ note = Nothing
  /\ note' = [pc |-> "post", message |-> Message("note"), end |-> end]
  /\ UNCHANGED <<selected, listed, statuses, found, status, mode, draft, last, editor, preview, file,
                 uploads, picks, changing, connected, sent, supply, odd, lost>>

\* The router takes a note that has a text, and an attachment only when its address is
\* absolute, which an uploaded file's is not.
PostInternalNote ==
  /\ note.pc \in {"post", "left"}
  /\ IF note.message.texts # {} /\ note.message.file = 0
     THEN sent' = sent \cup {note.message}
          /\ note' = IF note.pc = "left" THEN Nothing ELSE [note EXCEPT !.pc = "posted"]
     ELSE note' = Nothing /\ UNCHANGED sent
  /\ UNCHANGED <<selected, listed, statuses, found, status, mode, draft, last, editor, preview, file,
                 uploads, picks, changing, connected, supply, odd, lost>>

\* onSuccess empties the page's draft, whatever it holds by then, and with it the editor; of the
\* attachment and the status only the composer that has posted the note takes care.
NotePosted ==
  /\ note.pc = "posted"
  /\ draft' = {} /\ last' = {} /\ editor' = {}
  /\ file' = IF note.end = "GONE" THEN file ELSE 0
  /\ odd' = odd \cap (IF file' = 0 THEN {} ELSE {"late"})
  /\ lost' = [lost EXCEPT !.text = @ \cup (draft \ note.message.texts)]
  /\ note' = IF note.end \in {"SEND", "GONE"} THEN Nothing
             ELSE [pc |-> "change", conv |-> note.message.conv, to |-> note.end]
  /\ UNCHANGED <<selected, listed, statuses, found, status, mode, preview, uploads, picks, changing,
                 connected, sent, supply>>

\* The status change that follows a reply or a note; an error is ignored.
SetStatus ==
  /\ \/ changing.pc = "change" /\ status' \in {status, [status EXCEPT ![changing.conv] = changing.to]}
        /\ changing' = Nothing /\ UNCHANGED note
     \/ note.pc = "change" /\ status' \in {status, [status EXCEPT ![note.conv] = note.to]}
        /\ note' = Nothing /\ UNCHANGED changing
  /\ UNCHANGED <<selected, listed, statuses, found, mode, draft, last, editor, preview, file, uploads,
                 picks, connected, sent, supply, odd, lost>>

Disconnect ==
  /\ connected
  /\ Uses("drops")
  /\ connected' = FALSE
  /\ UNCHANGED <<selected, listed, statuses, found, status, mode, draft, last, editor, preview, file,
                 uploads, picks, note, changing, sent, odd, lost>>

Connect ==
  /\ ~connected
  /\ connected' = TRUE
  /\ UNCHANGED <<selected, listed, statuses, found, status, mode, draft, last, editor, preview, file,
                 uploads, picks, note, changing, sent, supply, odd, lost>>

Next ==
  \/ \E c \in Chats : HandleSelect(c) \/ AnswerIncomingCall(c)
  \/ RefreshList \/ LeavePage
  \/ \E of \in {{"OPEN"}, {"CLOSED"}, {"SNOOZED"}, STATUSES} : ChangeStatusFilter(of)
  \/ \E of \in SUBSET Chats : ChangeSearch(of)
  \/ HandleTabChange \/ TogglePreview
  \/ Type \/ HandleFileUpload \/ RemoveAttachment
  \/ \E by \in {"composer", "sidebar"} : HandlePick(by)
  \/ \E u \in uploads : Uploaded(u)
  \/ \E p \in picks : HandleSelectCanned(p) \/ HandleInsertCanned(p)
  \/ \E end \in {"SEND", "CLOSED", "SNOOZED"} : SubmitReply(end) \/ SubmitNote(end)
  \/ PostInternalNote \/ NotePosted \/ SetStatus
  \/ Disconnect \/ Connect

Spec == Init /\ [][Next]_vars
-----------------------------------------------------------------------------
Stock == [{"texts", "files", "picks", "selects", "answers", "previews", "drops", "lists"} -> Nat]
Stocked == Supplies \subseteq Stock

\* A draft carried along by ?selected=, an upload and a canned reply that come after the
\* conversation has been left, and an editor that came back empty.
Marks == {"carried", "late", "stray", "blank"}
Text == [id : Nat, conv : Chats]
Pick == [by : {"composer", "sidebar"}, id : Nat, conv : Chats, draft : SUBSET Text, odd : SUBSET Marks]
AMessage == [kind : {"reply", "note"}, conv : Chats, texts : SUBSET Text, file : Chats \cup {0},
             shown : SUBSET Text, odd : SUBSET Marks]
Change == [pc : {"change"}, conv : Chats, to : {"CLOSED", "SNOOZED"}]
Note == [pc : {"post", "posted", "left"}, message : AMessage, end : {"SEND", "CLOSED", "SNOOZED", "GONE"}]

TypeOK ==
  /\ selected \in Chats \cup {0} /\ listed \subseteq Chats
  /\ statuses \subseteq STATUSES /\ found \subseteq Chats
  /\ status \in [Chats -> STATUSES]
  /\ mode \in {"reply", "note"} /\ preview \in BOOLEAN /\ connected \in BOOLEAN
  /\ draft \subseteq Text /\ last \subseteq Text /\ editor \subseteq Text
  /\ file \in Chats \cup {0}
  /\ uploads \subseteq Text /\ picks \subseteq Pick
  /\ note \in {Nothing} \cup Note \cup Change /\ changing \in {Nothing} \cup Change
  /\ sent \subseteq AMessage
  /\ supply \in Stock
  /\ odd \subseteq Marks
  /\ lost \in [written : SUBSET Text, thrown : SUBSET Text, text : SUBSET Text]

\* A message holds what the editor showed when it was sent, and only what was written and
\* uploaded for its conversation; the exceptions are a draft carried along by ?selected=, an
\* upload or a canned reply that comes after the conversation has been left, and an editor
\* that came back empty from a preview (ConversationComposer's effects and callbacks).
SentIsWritten ==
  \A m \in sent : m.odd = {} =>
    /\ m.texts = m.shown
    /\ m.file \in {0, m.conv}
    /\ \A x \in m.texts : x.conv = m.conv

\* What was typed is in the draft, in a message, or was thrown away by selecting another
\* conversation, by changing the status filter of the list, or by leaving the page; only a reply
\* without a connection, the success of an earlier note, a canned reply that was picked before it
\* or comes from the sidebar, and typing into an editor that came back empty lose it (inbox.tsx's
\* handlers, submitDraft, postNote.onSuccess, handleSelectCanned, syncEditorValue).
NothingElseLost ==
  lost.written \subseteq draft \cup lost.thrown \cup lost.text \cup UNION {m.texts : m \in sent}

=============================================================================
