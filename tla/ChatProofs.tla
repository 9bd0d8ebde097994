------------------------------- MODULE ChatProofs -------------------------------
(***************************************************************************)
(* What is true of the composer, for any conversations and any order of    *)
(* its callbacks; of the agents' tabs, for any agents, tabs, conversations *)
(* and connections; and of the merchants' widgets, for any tabs and        *)
(* messages.                                                               *)
(***************************************************************************)
EXTENDS Chat, FiniteSetTheorems, SequenceTheorems, TLAPS

-----------------------------------------------------------------------------
(* The composer: types.                                                    *)

\* Nothing is selected or written yet.
LEMMA WriterTypeInit == Writer!Stocked /\ Writer!Init => Writer!TypeOK
<1>. SUFFICES ASSUME Writer!Stocked, Writer!Init PROVE Writer!TypeOK
  OBVIOUS
<1>. USE DEF Writer!Init
<1>1. supply \in Writer!Stock
  BY DEF Writer!Stocked
<1>2. status \in [Chats -> Writer!STATUSES] /\ statuses \subseteq Writer!STATUSES
  BY DEF Writer!STATUSES
<1>3. lost \in [written : SUBSET Writer!Text, thrown : SUBSET Writer!Text, text : SUBSET Writer!Text]
  OBVIOUS
<1>4. QED
  BY <1>1, <1>2, <1>3 DEF Writer!TypeOK

\* A bound that is used up by one step is still a bound.
LEMMA WriterUses ==
  ASSUME supply \in Writer!Stock,
         \/ Writer!Uses("texts") \/ Writer!Uses("files") \/ Writer!Uses("picks") \/ Writer!Uses("selects")
         \/ Writer!Uses("answers") \/ Writer!Uses("previews") \/ Writer!Uses("drops")
         \/ Writer!Uses("lists")
  PROVE  supply' \in Writer!Stock
  BY DEF Writer!Stock, Writer!Uses

\* A note whose composer is gone is still a note.
LEMMA GoesTyped ==
  ASSUME Writer!TypeOK, NEW gone, Writer!Goes(gone)
  PROVE  uploads' \in SUBSET Writer!Text /\ note' \in {Writer!Nothing} \cup Writer!Note \cup Writer!Change
<1>1. uploads' \in SUBSET Writer!Text
  BY DEF Writer!TypeOK, Writer!Goes
<1>2. CASE gone /\ note.pc \in {"post", "posted"}
  <2>1. note \in Writer!Note
    BY <1>2 DEF Writer!TypeOK, Writer!Nothing, Writer!Change
  <2>2. [note EXCEPT !.end = "GONE"] \in Writer!Note
    BY <2>1 DEF Writer!Note
  <2>3. QED
    BY <1>1, <1>2, <2>2 DEF Writer!Goes
<1>3. CASE ~(gone /\ note.pc \in {"post", "posted"})
  BY <1>1, <1>3 DEF Writer!TypeOK, Writer!Goes
<1>4. QED
  BY <1>2, <1>3

\* What the effects leave when the pane turns to another conversation.
LEMMA TurnsTyped ==
  ASSUME Writer!TypeOK, NEW sel \in Chats \cup {0}, NEW list \in SUBSET Chats, NEW mode1,
         NEW draft1 \in SUBSET Writer!Text, NEW marks \in SUBSET Writer!Marks,
         Writer!Turns(sel, list, mode1, draft1, marks)
  PROVE  /\ last' \in SUBSET Writer!Text /\ editor' \in SUBSET Writer!Text
         /\ file' \in Chats \cup {0} /\ preview' \in BOOLEAN /\ odd' \in SUBSET Writer!Marks
         /\ uploads' \in SUBSET Writer!Text /\ note' \in {Writer!Nothing} \cup Writer!Note \cup Writer!Change
<1>1. last' \in SUBSET Writer!Text /\ editor' \in SUBSET Writer!Text
  BY DEF Writer!TypeOK, Writer!Turns, Writer!Shows
<1>2. file' \in Chats \cup {0} /\ preview' \in BOOLEAN
  BY DEF Writer!TypeOK, Writer!Turns
<1>3. odd' \in SUBSET Writer!Marks
  BY DEF Writer!TypeOK, Writer!Turns, Writer!Marks
<1>4. uploads' \in SUBSET Writer!Text /\ note' \in {Writer!Nothing} \cup Writer!Note \cup Writer!Change
  BY GoesTyped DEF Writer!Turns
<1>5. QED
  BY <1>1, <1>2, <1>3, <1>4

\* Every action leaves the pane, the callbacks and the messages of their types.
LEMMA WriterTypeStep == Writer!TypeOK /\ [Writer!Next]_(Writer!vars) => Writer!TypeOK'
<1>. SUFFICES ASSUME Writer!TypeOK, [Writer!Next]_(Writer!vars) PROVE Writer!TypeOK'
  OBVIOUS
<1>. USE DEF Writer!TypeOK
<1>1. ASSUME NEW c \in Chats, Writer!HandleSelect(c) PROVE Writer!TypeOK'
  <2>1. supply' \in Writer!Stock
    BY <1>1, WriterUses DEF Writer!HandleSelect
  <2>2. Writer!Turns(c, listed, "reply", {}, odd)
    BY <1>1 DEF Writer!HandleSelect
  <2>3. /\ last' \in SUBSET Writer!Text /\ editor' \in SUBSET Writer!Text
        /\ file' \in Chats \cup {0} /\ preview' \in BOOLEAN /\ odd' \in SUBSET Writer!Marks
        /\ uploads' \in SUBSET Writer!Text /\ note' \in {Writer!Nothing} \cup Writer!Note \cup Writer!Change
    BY <2>2, TurnsTyped
  <2>4. QED
    BY <1>1, <2>1, <2>3 DEF Writer!HandleSelect
<1>2. ASSUME NEW c \in Chats, Writer!AnswerIncomingCall(c) PROVE Writer!TypeOK'
  <2>1. supply' \in Writer!Stock
    BY <1>2, WriterUses DEF Writer!AnswerIncomingCall
  <2>2. Writer!Turns(c, listed, mode, draft, odd)
    BY <1>2 DEF Writer!AnswerIncomingCall
  <2>3. /\ last' \in SUBSET Writer!Text /\ editor' \in SUBSET Writer!Text
        /\ file' \in Chats \cup {0} /\ preview' \in BOOLEAN /\ odd' \in SUBSET Writer!Marks
        /\ uploads' \in SUBSET Writer!Text /\ note' \in {Writer!Nothing} \cup Writer!Note \cup Writer!Change
    BY <2>2, TurnsTyped
  <2>4. QED
    BY <1>2, <2>1, <2>3 DEF Writer!AnswerIncomingCall
<1>3. CASE Writer!RefreshList
  <2>. DEFINE list == {c \in found : status[c] \in statuses}
  <2>1. listed' = list /\ list \in SUBSET Chats
    BY <1>3 DEF Writer!RefreshList
  <2>2. Writer!Turns(selected, list, mode, draft, odd)
    BY <1>3, <2>1 DEF Writer!RefreshList
  <2>3. /\ last' \in SUBSET Writer!Text /\ editor' \in SUBSET Writer!Text
        /\ file' \in Chats \cup {0} /\ preview' \in BOOLEAN /\ odd' \in SUBSET Writer!Marks
        /\ uploads' \in SUBSET Writer!Text /\ note' \in {Writer!Nothing} \cup Writer!Note \cup Writer!Change
    BY <2>1, <2>2, TurnsTyped
  <2>4. QED
    BY <1>3, <2>1, <2>3 DEF Writer!RefreshList
<1>4. CASE Writer!HandleTabChange
  <2>. DEFINE mode1 == IF mode = "reply" THEN "note" ELSE "reply"
  <2>2. Writer!Turns(selected, listed, mode1, draft, odd) /\ mode' = mode1
    BY <1>4 DEF Writer!HandleTabChange
  <2>3. /\ last' \in SUBSET Writer!Text /\ editor' \in SUBSET Writer!Text
        /\ file' \in Chats \cup {0} /\ preview' \in BOOLEAN /\ odd' \in SUBSET Writer!Marks
        /\ uploads' \in SUBSET Writer!Text /\ note' \in {Writer!Nothing} \cup Writer!Note \cup Writer!Change
    BY <2>2, TurnsTyped
  <2>4. QED
    BY <1>4, <2>2, <2>3 DEF Writer!HandleTabChange
<1>5. CASE Writer!TogglePreview
  <2>1. supply' \in Writer!Stock
    BY <1>5, WriterUses DEF Writer!TogglePreview
  <2>2. odd' \in SUBSET Writer!Marks
    BY <1>5 DEF Writer!TogglePreview, Writer!Marks
  <2>3. QED
    BY <1>5, <2>1, <2>2 DEF Writer!TogglePreview
<1>6. CASE Writer!Type
  <2>1. supply' \in Writer!Stock
    BY <1>6, WriterUses DEF Writer!Type
  <2>2. editor' \in SUBSET Writer!Text
    BY <1>6 DEF Writer!Type, Writer!Text, Writer!Stock, Writer!Mounted
  <2>3. lost' \in [written : SUBSET Writer!Text, thrown : SUBSET Writer!Text, text : SUBSET Writer!Text]
    BY <1>6, <2>2 DEF Writer!Type
  <2>4. QED
    BY <1>6, <2>1, <2>2, <2>3 DEF Writer!Type
<1>7. CASE Writer!HandleFileUpload
  <2>1. supply' \in Writer!Stock
    BY <1>7, WriterUses DEF Writer!HandleFileUpload
  <2>2. uploads' \in SUBSET Writer!Text
    BY <1>7 DEF Writer!HandleFileUpload, Writer!Text, Writer!Stock, Writer!Mounted
  <2>3. QED
    BY <1>7, <2>1, <2>2 DEF Writer!HandleFileUpload
<1>8. ASSUME NEW u \in uploads, Writer!Uploaded(u) PROVE Writer!TypeOK'
  <2>1. odd' \in SUBSET Writer!Marks
    BY <1>8 DEF Writer!Uploaded, Writer!Marks
  <2>2. file' \in Chats \cup {0}
    BY <1>8 DEF Writer!Uploaded, Writer!Text
  <2>3. QED
    BY <1>8, <2>1, <2>2 DEF Writer!Uploaded
<1>9. CASE Writer!RemoveAttachment
  BY <1>9 DEF Writer!RemoveAttachment
<1>10. ASSUME NEW by \in {"composer", "sidebar"}, Writer!HandlePick(by) PROVE Writer!TypeOK'
  <2>1. supply' \in Writer!Stock
    BY <1>10, WriterUses DEF Writer!HandlePick
  <2>2. [by |-> by, id |-> 100 + supply.picks, conv |-> selected, draft |-> draft, odd |-> odd] \in Writer!Pick
    BY <1>10 DEF Writer!HandlePick, Writer!Pick, Writer!Stock, Writer!Mounted
  <2>3. picks' \in SUBSET Writer!Pick
    BY <1>10, <2>2 DEF Writer!HandlePick
  <2>4. QED
    BY <1>10, <2>1, <2>3 DEF Writer!HandlePick
<1>11. ASSUME NEW p \in picks, Writer!HandleSelectCanned(p) PROVE Writer!TypeOK'
  <2>1. p \in Writer!Pick
    OBVIOUS
  <2>2. draft' \in SUBSET Writer!Text
    BY <1>11, <2>1 DEF Writer!HandleSelectCanned, Writer!TextOf, Writer!Pick, Writer!Text
  <2>3. odd' \in SUBSET Writer!Marks
    BY <1>11, <2>1 DEF Writer!HandleSelectCanned, Writer!Strays, Writer!Pick, Writer!Marks
  <2>4. lost' \in [written : SUBSET Writer!Text, thrown : SUBSET Writer!Text, text : SUBSET Writer!Text]
    BY <1>11 DEF Writer!HandleSelectCanned
  <2>5. last' \in SUBSET Writer!Text /\ editor' \in SUBSET Writer!Text /\ picks' \in SUBSET Writer!Pick
    BY <1>11, <2>2 DEF Writer!HandleSelectCanned
  <2>6. QED
    BY <1>11, <2>2, <2>3, <2>4, <2>5 DEF Writer!HandleSelectCanned
<1>12. ASSUME NEW end \in {"SEND", "CLOSED", "SNOOZED"}, Writer!SubmitReply(end) PROVE Writer!TypeOK'
  <2>1. Writer!Message("reply") \in Writer!AMessage
    BY <1>12 DEF Writer!SubmitReply, Writer!CanSubmit, Writer!Mounted, Writer!Message, Writer!AMessage
  <2>2. sent' \in SUBSET Writer!AMessage
    BY <1>12, <2>1 DEF Writer!SubmitReply
  <2>3. changing' \in {Writer!Nothing} \cup Writer!Change
    BY <1>12 DEF Writer!SubmitReply, Writer!CanSubmit, Writer!Mounted, Writer!Change
  <2>4. lost' \in [written : SUBSET Writer!Text, thrown : SUBSET Writer!Text, text : SUBSET Writer!Text]
    BY <1>12 DEF Writer!SubmitReply
  <2>5. QED
    BY <1>12, <2>2, <2>3, <2>4 DEF Writer!SubmitReply, Writer!Emptied
<1>13. ASSUME NEW end \in {"SEND", "CLOSED", "SNOOZED"}, Writer!SubmitNote(end) PROVE Writer!TypeOK'
  <2>1. Writer!Message("note") \in Writer!AMessage
    BY <1>13 DEF Writer!SubmitNote, Writer!CanSubmit, Writer!Mounted, Writer!Message, Writer!AMessage
  <2>2. note' \in Writer!Note
    BY <1>13, <2>1 DEF Writer!SubmitNote, Writer!Note
  <2>3. QED
    BY <1>13, <2>2 DEF Writer!SubmitNote
<1>14. CASE Writer!PostInternalNote
  <2>1. note \in Writer!Note /\ note.message \in Writer!AMessage
    BY <1>14 DEF Writer!PostInternalNote, Writer!Nothing, Writer!Note, Writer!Change
  <2>2. [note EXCEPT !.pc = "posted"] \in Writer!Note
    BY <2>1 DEF Writer!Note
  <2>3. sent' \in SUBSET Writer!AMessage /\ note' \in {Writer!Nothing} \cup Writer!Note
    BY <1>14, <2>1, <2>2 DEF Writer!PostInternalNote
  <2>4. QED
    BY <1>14, <2>3 DEF Writer!PostInternalNote
<1>15. CASE Writer!NotePosted
  <2>1. note \in Writer!Note /\ note.message \in Writer!AMessage /\ note.message.conv \in Chats
    BY <1>15 DEF Writer!NotePosted, Writer!Nothing, Writer!Note, Writer!Change, Writer!AMessage
  <2>2. note' \in {Writer!Nothing} \cup Writer!Change
    BY <1>15, <2>1 DEF Writer!NotePosted, Writer!Note, Writer!Change
  <2>3. lost' \in [written : SUBSET Writer!Text, thrown : SUBSET Writer!Text, text : SUBSET Writer!Text]
    BY <1>15 DEF Writer!NotePosted
  <2>4. odd' \in SUBSET Writer!Marks
    BY <1>15 DEF Writer!NotePosted, Writer!Marks
  <2>5. QED
    BY <1>15, <2>2, <2>3, <2>4 DEF Writer!NotePosted
<1>16. CASE Writer!SetStatus
  <2>1. ASSUME NEW x \in {Writer!Nothing} \cup Writer!Note \cup Writer!Change, x.pc = "change",
               status' \in {status, [status EXCEPT ![x.conv] = x.to]}
        PROVE  status' \in [Chats -> Writer!STATUSES]
    BY <2>1 DEF Writer!STATUSES, Writer!Nothing, Writer!Note, Writer!Change
  <2>2. status' \in [Chats -> Writer!STATUSES]
    BY <1>16, <2>1 DEF Writer!SetStatus
  <2>3. QED
    BY <1>16, <2>2 DEF Writer!SetStatus
<1>17. CASE Writer!Disconnect
  <2>1. supply' \in Writer!Stock
    BY <1>17, WriterUses DEF Writer!Disconnect
  <2>2. QED
    BY <1>17, <2>1 DEF Writer!Disconnect
<1>18. CASE Writer!Connect
  BY <1>18 DEF Writer!Connect
<1>19. CASE UNCHANGED Writer!vars
  BY <1>19 DEF Writer!vars
<1>20. ASSUME NEW p \in picks, Writer!HandleInsertCanned(p) PROVE Writer!TypeOK'
  <2>. DEFINE text == Writer!TextOf(p)  marks == (odd \cap {"late", "blank"}) \cup Writer!Strays(p)
  <2>1. p \in Writer!Pick
    OBVIOUS
  <2>2. {text} \in SUBSET Writer!Text
    BY <2>1 DEF Writer!TextOf, Writer!Pick, Writer!Text
  <2>3. marks \in SUBSET Writer!Marks
    BY DEF Writer!Strays, Writer!Marks
  <2>4. draft' = {text} /\ Writer!Turns(selected, listed, "reply", {text}, marks)
    BY <1>20 DEF Writer!HandleInsertCanned
  <2>5. selected \in Chats \cup {0} /\ listed \in SUBSET Chats
    OBVIOUS
  <2>. HIDE DEF text, marks
  <2>6. /\ last' \in SUBSET Writer!Text /\ editor' \in SUBSET Writer!Text
        /\ file' \in Chats \cup {0} /\ preview' \in BOOLEAN /\ odd' \in SUBSET Writer!Marks
        /\ uploads' \in SUBSET Writer!Text /\ note' \in {Writer!Nothing} \cup Writer!Note \cup Writer!Change
    BY <2>2, <2>3, <2>4, <2>5, TurnsTyped
  <2>7. lost' \in [written : SUBSET Writer!Text, thrown : SUBSET Writer!Text, text : SUBSET Writer!Text]
    BY <1>20 DEF Writer!HandleInsertCanned
  <2>8. picks' \in SUBSET Writer!Pick
    BY <1>20 DEF Writer!HandleInsertCanned
  <2>9. QED
    BY <1>20, <2>2, <2>4, <2>6, <2>7, <2>8 DEF Writer!HandleInsertCanned
<1>21. ASSUME NEW of \in {{"OPEN"}, {"CLOSED"}, {"SNOOZED"}, Writer!STATUSES}, Writer!ChangeStatusFilter(of)
       PROVE  Writer!TypeOK'
  <2>1. supply' \in Writer!Stock
    BY <1>21, WriterUses DEF Writer!ChangeStatusFilter
  <2>2. uploads' \in SUBSET Writer!Text /\ note' \in {Writer!Nothing} \cup Writer!Note \cup Writer!Change
    BY <1>21, GoesTyped DEF Writer!ChangeStatusFilter
  <2>3. lost' \in [written : SUBSET Writer!Text, thrown : SUBSET Writer!Text, text : SUBSET Writer!Text]
    BY <1>21 DEF Writer!ChangeStatusFilter
  <2>4. statuses' \subseteq Writer!STATUSES
    BY <1>21 DEF Writer!ChangeStatusFilter, Writer!STATUSES
  <2>5. QED
    BY <1>21, <2>1, <2>2, <2>3, <2>4 DEF Writer!ChangeStatusFilter, Writer!Emptied
<1>22. ASSUME NEW of \in SUBSET Chats, Writer!ChangeSearch(of) PROVE Writer!TypeOK'
  <2>1. supply' \in Writer!Stock
    BY <1>22, WriterUses DEF Writer!ChangeSearch
  <2>2. Writer!Turns(selected, {}, mode, draft, odd)
    BY <1>22 DEF Writer!ChangeSearch
  <2>3. /\ last' \in SUBSET Writer!Text /\ editor' \in SUBSET Writer!Text
        /\ file' \in Chats \cup {0} /\ preview' \in BOOLEAN /\ odd' \in SUBSET Writer!Marks
        /\ uploads' \in SUBSET Writer!Text /\ note' \in {Writer!Nothing} \cup Writer!Note \cup Writer!Change
    BY <2>2, TurnsTyped
  <2>4. QED
    BY <1>22, <2>1, <2>3 DEF Writer!ChangeSearch
<1>23. CASE Writer!LeavePage
  <2>1. supply' \in Writer!Stock
    BY <1>23, WriterUses DEF Writer!LeavePage
  <2>2. note' \in {Writer!Nothing} \cup Writer!Note \cup Writer!Change
    <3>1. CASE note.pc = "post"
      <4>1. note \in Writer!Note
        BY <3>1 DEF Writer!Nothing, Writer!Change
      <4>2. [note EXCEPT !.pc = "left"] \in Writer!Note
        BY <4>1 DEF Writer!Note
      <4>3. QED
        BY <1>23, <3>1, <4>2 DEF Writer!LeavePage
    <3>2. CASE note.pc # "post"
      BY <1>23, <3>2 DEF Writer!LeavePage
    <3>3. QED
      BY <3>1, <3>2
  <2>3. lost' \in [written : SUBSET Writer!Text, thrown : SUBSET Writer!Text, text : SUBSET Writer!Text]
    BY <1>23 DEF Writer!LeavePage
  <2>4. statuses' \subseteq Writer!STATUSES
    BY <1>23 DEF Writer!LeavePage, Writer!STATUSES
  <2>5. QED
    BY <1>23, <2>1, <2>2, <2>3, <2>4 DEF Writer!LeavePage, Writer!Emptied
<1>24. QED
  BY <1>1, <1>2, <1>3, <1>4, <1>5, <1>6, <1>7, <1>8, <1>9, <1>10, <1>11, <1>12, <1>13, <1>14, <1>15,
     <1>16, <1>17, <1>18, <1>19, <1>20, <1>21, <1>22, <1>23 DEF Writer!Next
-----------------------------------------------------------------------------
(* What the composer holds, and where it comes from.                       *)

\* A text is of the conversation c unless the draft was carried along or a canned reply strayed.
OwnTexts(texts, marks, c) == marks \cap {"carried", "stray"} = {} => \A x \in texts : x.conv = c

\* A message that nothing odd has come into: what was shown, and of its own conversation.
MessageOK(m) ==
  m.odd = {} => /\ m.texts = m.shown
                /\ m.file \in {0, m.conv}
                /\ \A x \in m.texts : x.conv = m.conv

\* The editor shows the draft or nothing, the file is of the conversation that is selected unless it
\* came late, and the texts of the draft are its own.
PaneInv ==
  /\ preview \/ selected \notin listed => editor = {}
  /\ editor \in {{}, draft}
  /\ selected \in listed => last = draft
  /\ selected \in listed /\ ~preview /\ "blank" \notin odd => editor = draft
  /\ "late" \notin odd => file \in {0, selected}
  /\ OwnTexts(draft, odd, selected)

\* A canned reply that is on its way will be appended to a draft of its conversation.
PicksInv == \A p \in picks : OwnTexts(p.draft, p.odd, p.conv)

\* A note that is being posted is a message as well.
NoteInv ==
  /\ note.pc \in {"post", "posted", "left"} => MessageOK(note.message)
  /\ note.pc = "posted" => note.message \in sent

\* All of them.
WriterInv == PaneInv /\ PicksInv /\ NoteInv /\ \A m \in sent : MessageOK(m)

\* The effects leave the pane as it has to be, whether the draft is kept or given up.
LEMMA TurnsKeep ==
  ASSUME Writer!TypeOK, PaneInv, NEW sel, NEW list, NEW mode1, NEW draft1 \in {{}, draft},
         Writer!Turns(sel, list, mode1, draft1, odd), selected' = sel, listed' = list, draft' = draft1
  PROVE  PaneInv'
<1>. USE DEF PaneInv, Writer!Turns, Writer!Shows, Writer!Mounted
<1>0. /\ preview \in BOOLEAN /\ odd \in SUBSET Writer!Marks
  BY DEF Writer!TypeOK
<1>1. editor' \in {{}, draft'} /\ (preview' \/ sel \notin list => editor' = {})
  BY <1>0
<1>2. sel \in list => last' = draft'
  OBVIOUS
<1>3. sel \in list /\ ~preview' /\ "blank" \notin odd' => editor' = draft'
  BY <1>0
<1>4. "late" \notin odd' => file' \in {0, sel}
  BY <1>0
<1>5. OwnTexts(draft', odd', sel)
  BY <1>0 DEF OwnTexts
<1>6. QED
  BY <1>1, <1>2, <1>3, <1>4, <1>5 DEF OwnTexts

\* The sidebar's reply replaces the draft, and is of the conversation it was picked for.
LEMMA ReplacedKeep ==
  ASSUME Writer!TypeOK, PaneInv, NEW p, NEW marks,
         marks = (odd \cap {"late", "blank"}) \cup Writer!Strays(p),
         Writer!Turns(selected, listed, "reply", {Writer!TextOf(p)}, marks),
         selected' = selected, listed' = listed, draft' = {Writer!TextOf(p)}
  PROVE  PaneInv'
<1>. DEFINE text == Writer!TextOf(p)
<1>0. /\ preview \in BOOLEAN /\ odd \in SUBSET Writer!Marks
  BY DEF Writer!TypeOK
<1>1. text.conv = p.conv
  BY DEF Writer!TextOf
<1>2. "stray" \in marks \/ text.conv = selected
  BY <1>1 DEF Writer!Strays
<1>3. /\ "late" \in odd => "late" \in marks
      /\ "blank" \in odd => "blank" \in marks
  OBVIOUS
<1>4. Writer!Turns(selected, listed, "reply", {text}, marks) /\ draft' = {text}
  OBVIOUS
<1>. HIDE DEF text
<1>. USE DEF PaneInv, Writer!Turns, Writer!Shows, Writer!Mounted
<1>5. marks \subseteq odd'
  BY <1>4
<1>6. editor' \in {{}, draft'} /\ (preview' \/ selected \notin listed => editor' = {})
  BY <1>0, <1>4
<1>7. selected \in listed => last' = draft'
  BY <1>4
<1>8. selected \in listed /\ ~preview' /\ "blank" \notin odd' => editor' = draft'
  BY <1>0, <1>3, <1>4, <1>5
<1>9. "late" \notin odd' => file' \in {0, selected}
  BY <1>0, <1>3, <1>4, <1>5
<1>10. OwnTexts(draft', odd', selected)
  BY <1>2, <1>4, <1>5 DEF OwnTexts
<1>11. QED
  BY <1>6, <1>7, <1>8, <1>9, <1>10 DEF OwnTexts

\* A composer that is emptied holds nothing.
LEMMA EmptiedKeep ==
  ASSUME Writer!Emptied
  PROVE  PaneInv'
  BY DEF PaneInv, Writer!Emptied, OwnTexts

\* No action leaves the pane otherwise.
LEMMA PaneStep == Writer!TypeOK /\ PaneInv /\ PicksInv /\ [Writer!Next]_(Writer!vars) => PaneInv'
<1>. SUFFICES ASSUME Writer!TypeOK, PaneInv, PicksInv, [Writer!Next]_(Writer!vars) PROVE PaneInv'
  OBVIOUS
<1>1. ASSUME NEW c \in Chats, Writer!HandleSelect(c) PROVE PaneInv'
  BY <1>1, TurnsKeep DEF Writer!HandleSelect
<1>2. ASSUME NEW c \in Chats, Writer!AnswerIncomingCall(c) PROVE PaneInv'
  BY <1>2, TurnsKeep DEF Writer!AnswerIncomingCall
<1>3. CASE Writer!RefreshList
  BY <1>3, TurnsKeep DEF Writer!RefreshList
<1>4. CASE Writer!HandleTabChange
  BY <1>4, TurnsKeep DEF Writer!HandleTabChange
<1>5. CASE Writer!TogglePreview
  BY <1>5 DEF Writer!TogglePreview, PaneInv, OwnTexts, Writer!TypeOK, Writer!Mounted
<1>6. CASE Writer!Type
  <2>1. OwnTexts(editor', odd', selected)
    BY <1>6 DEF Writer!Type, PaneInv, OwnTexts
  <2>2. QED
    BY <1>6, <2>1 DEF Writer!Type, PaneInv, OwnTexts, Writer!TypeOK, Writer!Mounted
<1>7. CASE Writer!HandleFileUpload
  BY <1>7 DEF Writer!HandleFileUpload, PaneInv, OwnTexts
<1>8. ASSUME NEW u \in uploads, Writer!Uploaded(u) PROVE PaneInv'
  <2>1. OwnTexts(draft, odd', selected)
    BY <1>8 DEF Writer!Uploaded, PaneInv, OwnTexts
  <2>2. "late" \notin odd' => file' \in {0, selected}
    BY <1>8 DEF Writer!Uploaded, PaneInv
  <2>3. "blank" \notin odd' => "blank" \notin odd
    BY <1>8 DEF Writer!Uploaded
  <2>4. QED
    BY <1>8, <2>1, <2>2, <2>3 DEF Writer!Uploaded, PaneInv, OwnTexts
<1>9. CASE Writer!RemoveAttachment
  BY <1>9 DEF Writer!RemoveAttachment, PaneInv, OwnTexts
<1>10. ASSUME NEW by \in {"composer", "sidebar"}, Writer!HandlePick(by) PROVE PaneInv'
  BY <1>10 DEF Writer!HandlePick, PaneInv, OwnTexts
<1>11. ASSUME NEW p \in picks, Writer!HandleSelectCanned(p) PROVE PaneInv'
  <2>1. OwnTexts(p.draft, p.odd, p.conv)
    BY DEF PicksInv
  <2>2. OwnTexts(draft', odd', selected)
    BY <1>11, <2>1 DEF Writer!HandleSelectCanned, Writer!TextOf, Writer!Strays, OwnTexts
  <2>3. /\ "late" \notin odd' => "late" \notin odd
        /\ "blank" \notin odd' => "blank" \notin odd
    BY <1>11 DEF Writer!HandleSelectCanned
  <2>4. QED
    BY <1>11, <2>2, <2>3 DEF Writer!HandleSelectCanned, PaneInv, OwnTexts, Writer!Mounted
<1>12. ASSUME NEW end \in {"SEND", "CLOSED", "SNOOZED"}, Writer!SubmitReply(end) PROVE PaneInv'
  BY <1>12, EmptiedKeep DEF Writer!SubmitReply
<1>13. ASSUME NEW end \in {"SEND", "CLOSED", "SNOOZED"}, Writer!SubmitNote(end) PROVE PaneInv'
  BY <1>13 DEF Writer!SubmitNote, PaneInv, OwnTexts
<1>14. CASE Writer!PostInternalNote
  BY <1>14 DEF Writer!PostInternalNote, PaneInv, OwnTexts
<1>15. CASE Writer!NotePosted
  BY <1>15 DEF Writer!NotePosted, PaneInv, OwnTexts
<1>16. CASE Writer!SetStatus
  BY <1>16 DEF Writer!SetStatus, PaneInv, OwnTexts
<1>17. CASE Writer!Disconnect
  BY <1>17 DEF Writer!Disconnect, PaneInv, OwnTexts
<1>18. CASE Writer!Connect
  BY <1>18 DEF Writer!Connect, PaneInv, OwnTexts
<1>19. CASE UNCHANGED Writer!vars
  BY <1>19 DEF Writer!vars, PaneInv, OwnTexts
<1>20. ASSUME NEW p \in picks, Writer!HandleInsertCanned(p) PROVE PaneInv'
  BY <1>20, ReplacedKeep DEF Writer!HandleInsertCanned
<1>21. ASSUME NEW of, Writer!ChangeStatusFilter(of) PROVE PaneInv'
  BY <1>21, EmptiedKeep DEF Writer!ChangeStatusFilter
<1>22. ASSUME NEW of, Writer!ChangeSearch(of) PROVE PaneInv'
  BY <1>22, TurnsKeep DEF Writer!ChangeSearch
<1>23. CASE Writer!LeavePage
  BY <1>23, EmptiedKeep DEF Writer!LeavePage
<1>24. QED
  BY <1>1, <1>2, <1>3, <1>4, <1>5, <1>6, <1>7, <1>8, <1>9, <1>10, <1>11, <1>12, <1>13, <1>14, <1>15,
     <1>16, <1>17, <1>18, <1>19, <1>20, <1>21, <1>22, <1>23 DEF Writer!Next

\* A pick takes the draft along as it is.
LEMMA PicksStep == PaneInv /\ PicksInv /\ [Writer!Next]_(Writer!vars) => PicksInv'
<1>. SUFFICES ASSUME PaneInv, PicksInv, [Writer!Next]_(Writer!vars) PROVE PicksInv'
  OBVIOUS
<1>1. ASSUME NEW by, Writer!HandlePick(by) PROVE PicksInv'
  <2>. DEFINE p == [by |-> by, id |-> 100 + supply.picks, conv |-> selected, draft |-> draft, odd |-> odd]
  <2>1. OwnTexts(p.draft, p.odd, p.conv)
    BY DEF PaneInv
  <2>2. picks' = picks \cup {p}
    BY <1>1 DEF Writer!HandlePick
  <2>. HIDE DEF p
  <2>3. QED
    BY <2>1, <2>2 DEF PicksInv, OwnTexts
<1>2. picks' \subseteq picks => PicksInv'
  BY DEF PicksInv, OwnTexts
<1>3. ASSUME ~\E by \in {"composer", "sidebar"} : Writer!HandlePick(by) PROVE picks' \subseteq picks
  BY <1>3 DEF Writer!Next, Writer!vars, Writer!HandleSelect, Writer!AnswerIncomingCall, Writer!RefreshList,
     Writer!LeavePage, Writer!ChangeStatusFilter, Writer!ChangeSearch, Writer!HandleInsertCanned,
     Writer!HandleTabChange, Writer!TogglePreview, Writer!Type, Writer!HandleFileUpload, Writer!Uploaded,
     Writer!RemoveAttachment, Writer!HandleSelectCanned, Writer!SubmitReply, Writer!SubmitNote,
     Writer!PostInternalNote, Writer!NotePosted, Writer!SetStatus, Writer!Disconnect, Writer!Connect
<1>4. QED
  BY <1>1, <1>2, <1>3

\* The button and the keys send what the editor shows.
LEMMA MessageSound ==
  ASSUME Writer!TypeOK, PaneInv, Writer!CanSubmit, NEW kind
  PROVE  MessageOK(Writer!Message(kind))
  BY DEF Writer!TypeOK, PaneInv, OwnTexts, Writer!CanSubmit, Writer!Mounted, Writer!Message, MessageOK

\* What is stored, and what the note that is being posted is.
LEMMA MessagesStep ==
  Writer!TypeOK /\ WriterInv /\ [Writer!Next]_(Writer!vars) => NoteInv' /\ \A m \in sent' : MessageOK(m)
<1>. SUFFICES ASSUME Writer!TypeOK, WriterInv, [Writer!Next]_(Writer!vars)
             PROVE  NoteInv' /\ \A m \in sent' : MessageOK(m)
  OBVIOUS
<1>. USE DEF WriterInv
<1>1. ASSUME NEW end \in {"SEND", "CLOSED", "SNOOZED"}, Writer!SubmitReply(end)
      PROVE  NoteInv' /\ \A m \in sent' : MessageOK(m)
  <2>1. MessageOK(Writer!Message("reply"))
    BY <1>1, MessageSound DEF Writer!SubmitReply
  <2>2. sent' \in {sent, sent \cup {Writer!Message("reply")}} /\ note' = note
    BY <1>1 DEF Writer!SubmitReply
  <2>3. QED
    BY <2>1, <2>2 DEF NoteInv, MessageOK
<1>2. ASSUME NEW end \in {"SEND", "CLOSED", "SNOOZED"}, Writer!SubmitNote(end)
      PROVE  NoteInv' /\ \A m \in sent' : MessageOK(m)
  <2>1. MessageOK(Writer!Message("note"))
    BY <1>2, MessageSound DEF Writer!SubmitNote
  <2>2. sent' = sent /\ note'.pc = "post" /\ note'.message = Writer!Message("note")
    BY <1>2 DEF Writer!SubmitNote
  <2>3. QED
    BY <2>1, <2>2 DEF NoteInv, MessageOK
<1>3. CASE Writer!PostInternalNote
  <2>1. note \in Writer!Note /\ MessageOK(note.message)
    BY <1>3 DEF Writer!PostInternalNote, NoteInv, Writer!TypeOK, Writer!Nothing, Writer!Change
  <2>2. CASE sent' = sent \cup {note.message} /\ note' = [note EXCEPT !.pc = "posted"]
    <3>1. note'.pc = "posted" /\ note'.message = note.message
      BY <2>1, <2>2 DEF Writer!Note
    <3>2. QED
      BY <2>1, <2>2, <3>1 DEF NoteInv, MessageOK
  <2>3. CASE sent' \in {sent, sent \cup {note.message}} /\ note' = Writer!Nothing
    <3>1. note'.pc = "none"
      BY <2>3 DEF Writer!Nothing
    <3>2. QED
      BY <2>1, <2>3, <3>1 DEF NoteInv, MessageOK
  <2>4. QED
    BY <1>3, <2>2, <2>3 DEF Writer!PostInternalNote
<1>4. ASSUME sent' = sent, note' = note \/ note'.pc \in {"none", "change"}
      PROVE  NoteInv' /\ \A m \in sent' : MessageOK(m)
  BY <1>4 DEF NoteInv, MessageOK
<1>5. CASE Writer!NotePosted
  BY <1>4, <1>5 DEF Writer!NotePosted, Writer!Nothing
<1>6. CASE Writer!SetStatus
  BY <1>4, <1>6 DEF Writer!SetStatus, Writer!Nothing
<1>7. ASSUME NEW gone, Writer!Goes(gone), sent' = sent
      PROVE  NoteInv' /\ \A m \in sent' : MessageOK(m)
  <2>1. CASE gone /\ note.pc \in {"post", "posted"}
    <3>1. note \in Writer!Note
      BY <2>1 DEF Writer!TypeOK, Writer!Nothing, Writer!Change
    <3>2. note'.pc = note.pc /\ note'.message = note.message
      BY <1>7, <2>1, <3>1 DEF Writer!Goes, Writer!Note
    <3>3. QED
      BY <1>7, <3>2 DEF NoteInv, MessageOK
  <2>2. CASE ~(gone /\ note.pc \in {"post", "posted"})
    BY <1>4, <1>7, <2>2 DEF Writer!Goes
  <2>3. QED
    BY <2>1, <2>2
<1>8. ASSUME \/ \E c \in Chats : Writer!HandleSelect(c) \/ Writer!AnswerIncomingCall(c)
             \/ Writer!RefreshList \/ Writer!HandleTabChange
             \/ \E of : Writer!ChangeStatusFilter(of) \/ Writer!ChangeSearch(of)
             \/ \E p \in picks : Writer!HandleInsertCanned(p)
      PROVE  sent' = sent /\ \E gone : Writer!Goes(gone)
  BY <1>8 DEF Writer!HandleSelect, Writer!AnswerIncomingCall, Writer!RefreshList, Writer!HandleTabChange,
     Writer!ChangeStatusFilter, Writer!ChangeSearch, Writer!HandleInsertCanned, Writer!Turns
<1>9. CASE Writer!LeavePage
  <2>1. CASE note.pc = "post"
    <3>1. note \in Writer!Note
      BY <2>1 DEF Writer!TypeOK, Writer!Nothing, Writer!Change
    <3>2. note'.pc = "left" /\ note'.message = note.message /\ sent' = sent
      BY <1>9, <2>1, <3>1 DEF Writer!LeavePage, Writer!Note
    <3>3. QED
      BY <2>1, <3>2 DEF NoteInv, MessageOK
  <2>2. CASE note.pc # "post"
    BY <1>4, <1>9, <2>2 DEF Writer!LeavePage, Writer!Nothing
  <2>3. QED
    BY <2>1, <2>2
<1>10. CASE \/ Writer!TogglePreview \/ Writer!Type
            \/ Writer!HandleFileUpload \/ Writer!RemoveAttachment
            \/ \E by \in {"composer", "sidebar"} : Writer!HandlePick(by)
            \/ \E u \in uploads : Writer!Uploaded(u)
            \/ \E p \in picks : Writer!HandleSelectCanned(p)
            \/ Writer!Disconnect \/ Writer!Connect \/ UNCHANGED Writer!vars
  BY <1>4, <1>10 DEF Writer!vars, Writer!TogglePreview, Writer!Type, Writer!HandleFileUpload, Writer!Uploaded,
     Writer!RemoveAttachment, Writer!HandlePick, Writer!HandleSelectCanned, Writer!Disconnect, Writer!Connect
<1>11. QED
  BY <1>1, <1>2, <1>3, <1>5, <1>6, <1>7, <1>8, <1>9, <1>10 DEF Writer!Next

\* Whatever the agent does and whenever callbacks come, a message that nothing odd has come
\* into holds what the editor showed, and only texts and files of its own conversation
\* (submitDraft, handleSelect, and the effects of ConversationComposer).
THEOREM SentSafety ==
  ASSUME Writer!Stocked
  PROVE  Writer!Spec => [](Writer!TypeOK /\ Writer!SentIsWritten)
<1>1. Writer!Init => WriterInv
  BY DEF Writer!Init, WriterInv, PaneInv, PicksInv, NoteInv, OwnTexts, Writer!Nothing
<1>2. Writer!TypeOK /\ WriterInv /\ [Writer!Next]_(Writer!vars) => WriterInv'
  <2>. SUFFICES ASSUME Writer!TypeOK, WriterInv, [Writer!Next]_(Writer!vars) PROVE WriterInv'
    OBVIOUS
  <2>1. PaneInv' /\ PicksInv'
    BY PaneStep, PicksStep DEF WriterInv
  <2>2. NoteInv' /\ \A m \in sent' : MessageOK(m)
    BY MessagesStep
  <2>3. QED
    BY <2>1, <2>2 DEF WriterInv, MessageOK
<1>3. WriterInv => Writer!SentIsWritten
  BY DEF WriterInv, Writer!SentIsWritten, MessageOK
<1>4. QED
  BY <1>1, <1>2, <1>3, WriterTypeInit, WriterTypeStep, PTL DEF Writer!Spec

\* The composer among the chat's parts: what is sent is what the editor showed, written and
\* uploaded for that conversation, but for the named ways in (ConversationComposer).
THEOREM SentIsWrittenHolds == ChatSpec => []SentIsWritten
<1>1. [ChatNext]_allVars => part' = part
  BY DEF ChatNext, allVars
<1>2. ChatInit /\ part = "composer" => Writer!Init
  BY DEF ChatInit
<1>3. [ChatNext]_allVars /\ part = "composer" => [Writer!Next]_(Writer!vars)
  BY DEF ChatNext, allVars, Writer!vars, composer
<1>4. Writer!Spec => [](Writer!TypeOK /\ Writer!SentIsWritten)
  BY SentSafety, ConstantsAssumption DEF ConstantsAssumption
<1>5. part = "composer" /\ part' = part => (part = "composer")'
  OBVIOUS
<1>6. part # "composer" /\ part' = part => (part # "composer")'
  OBVIOUS
<1>7. (part # "composer" => SentIsWritten) /\ (Writer!TypeOK /\ Writer!SentIsWritten => SentIsWritten)
  BY DEF SentIsWritten
<1>8. part = "composer" \/ part # "composer"
  OBVIOUS
<1>9. QED
  BY <1>1, <1>2, <1>3, <1>4, <1>5, <1>6, <1>7, <1>8, PTL DEF ChatSpec, Writer!Spec

-----------------------------------------------------------------------------
(* Nothing that was written is lost but in the ways that are named.        *)

\* Where a text can be.
Found == draft \cup lost.thrown \cup lost.text \cup UNION {m.texts : m \in sent}

\* No action takes a text away from all of those.
LEMMA LostStep ==
  Writer!TypeOK /\ NoteInv /\ Writer!NothingElseLost /\ [Writer!Next]_(Writer!vars) => Writer!NothingElseLost'
<1>. SUFFICES ASSUME Writer!TypeOK, NoteInv, lost.written \subseteq Found, [Writer!Next]_(Writer!vars)
             PROVE  lost'.written \subseteq Found'
  BY DEF Writer!NothingElseLost, Found
<1>0. lost \in [written : SUBSET Writer!Text, thrown : SUBSET Writer!Text, text : SUBSET Writer!Text]
  BY DEF Writer!TypeOK
<1>1. ASSUME draft \subseteq draft', lost' = lost, sent \subseteq sent'
      PROVE  lost'.written \subseteq Found'
  BY <1>1 DEF Found
<1>2. ASSUME NEW c \in Chats, Writer!HandleSelect(c) PROVE lost'.written \subseteq Found'
  <2>1. lost'.written = lost.written /\ lost'.thrown = lost.thrown \cup draft /\ lost'.text = lost.text
    BY <1>0, <1>2 DEF Writer!HandleSelect
  <2>2. QED
    BY <1>2, <2>1 DEF Writer!HandleSelect, Found
<1>3. CASE Writer!Type
  <2>1. /\ lost'.written = lost.written \cup editor' /\ lost'.thrown = lost.thrown
        /\ lost'.text = lost.text \cup (draft \ editor)
    BY <1>0, <1>3 DEF Writer!Type
  <2>2. draft' = editor' /\ editor \subseteq editor' /\ sent' = sent
    BY <1>3 DEF Writer!Type
  <2>3. QED
    BY <2>1, <2>2 DEF Found
<1>4. ASSUME NEW p \in picks, Writer!HandleSelectCanned(p) PROVE lost'.written \subseteq Found'
  <2>1. /\ lost'.written = lost.written /\ lost'.thrown = lost.thrown
        /\ lost'.text = lost.text \cup (draft \ p.draft)
    BY <1>0, <1>4 DEF Writer!HandleSelectCanned
  <2>2. p.draft \subseteq draft' /\ sent' = sent
    BY <1>4 DEF Writer!HandleSelectCanned
  <2>3. QED
    BY <2>1, <2>2 DEF Found
<1>5. ASSUME NEW end \in {"SEND", "CLOSED", "SNOOZED"}, Writer!SubmitReply(end)
      PROVE  lost'.written \subseteq Found'
  <2>1. CASE connected
    <3>1. sent' = sent \cup {Writer!Message("reply")} /\ lost' = lost
      BY <1>5, <2>1 DEF Writer!SubmitReply
    <3>2. Writer!Message("reply").texts = draft
      BY DEF Writer!Message
    <3>3. QED
      BY <3>1, <3>2 DEF Found
  <2>2. CASE ~connected
    <3>1. /\ lost'.written = lost.written /\ lost'.thrown = lost.thrown /\ lost'.text = lost.text \cup draft
          /\ sent' = sent
      BY <1>0, <1>5, <2>2 DEF Writer!SubmitReply
    <3>2. QED
      BY <3>1 DEF Found
  <2>3. QED
    BY <2>1, <2>2
<1>6. CASE Writer!NotePosted
  <2>1. /\ lost'.written = lost.written /\ lost'.thrown = lost.thrown
        /\ lost'.text = lost.text \cup (draft \ note.message.texts)
    BY <1>0, <1>6 DEF Writer!NotePosted
  <2>2. note.message \in sent /\ sent' = sent
    BY <1>6 DEF Writer!NotePosted, NoteInv
  <2>3. QED
    BY <2>1, <2>2 DEF Found
<1>7. CASE \/ \E c \in Chats : Writer!AnswerIncomingCall(c)
           \/ Writer!RefreshList \/ Writer!HandleTabChange \/ Writer!TogglePreview
           \/ \E of \in SUBSET Chats : Writer!ChangeSearch(of)
           \/ Writer!HandleFileUpload \/ Writer!RemoveAttachment
           \/ \E by \in {"composer", "sidebar"} : Writer!HandlePick(by)
           \/ \E u \in uploads : Writer!Uploaded(u)
           \/ \E end \in {"SEND", "CLOSED", "SNOOZED"} : Writer!SubmitNote(end)
           \/ Writer!PostInternalNote \/ Writer!SetStatus
           \/ Writer!Disconnect \/ Writer!Connect \/ UNCHANGED Writer!vars
  <2>1. draft' = draft /\ lost' = lost /\ sent \subseteq sent'
    BY <1>7 DEF Writer!vars, Writer!AnswerIncomingCall, Writer!RefreshList, Writer!ChangeSearch,
       Writer!HandleTabChange, Writer!TogglePreview, Writer!HandleFileUpload, Writer!Uploaded,
       Writer!RemoveAttachment, Writer!HandlePick, Writer!SubmitNote, Writer!PostInternalNote,
       Writer!SetStatus, Writer!Disconnect, Writer!Connect
  <2>2. QED
    BY <1>1, <2>1
<1>8. CASE \/ \E of \in {{"OPEN"}, {"CLOSED"}, {"SNOOZED"}, Writer!STATUSES} : Writer!ChangeStatusFilter(of)
           \/ Writer!LeavePage
  <2>1. lost'.written = lost.written /\ lost'.thrown = lost.thrown \cup draft /\ lost'.text = lost.text
    BY <1>0, <1>8 DEF Writer!ChangeStatusFilter, Writer!LeavePage
  <2>2. sent' = sent
    BY <1>8 DEF Writer!ChangeStatusFilter, Writer!LeavePage
  <2>3. QED
    BY <2>1, <2>2 DEF Found
<1>9. ASSUME NEW p \in picks, Writer!HandleInsertCanned(p) PROVE lost'.written \subseteq Found'
  <2>1. lost'.written = lost.written /\ lost'.thrown = lost.thrown /\ lost'.text = lost.text \cup draft
    BY <1>0, <1>9 DEF Writer!HandleInsertCanned
  <2>2. sent' = sent
    BY <1>9 DEF Writer!HandleInsertCanned
  <2>3. QED
    BY <2>1, <2>2 DEF Found
<1>10. QED
  BY <1>2, <1>3, <1>4, <1>5, <1>6, <1>7, <1>8, <1>9 DEF Writer!Next

\* A text that was typed can be found in the draft, in a message, or among those thrown away
\* or lost in the named ways, in whatever order sends, answers and callbacks come, whatever the
\* list is asked for and whenever the page is left (inbox.tsx's handlers, submitDraft,
\* postNote.onSuccess, handleSelectCanned, syncEditorValue).
THEOREM LostSafety ==
  ASSUME Writer!Stocked
  PROVE  Writer!Spec => []Writer!NothingElseLost
<1>1. Writer!Init => WriterInv /\ Writer!NothingElseLost
  BY DEF Writer!Init, WriterInv, PaneInv, PicksInv, NoteInv, OwnTexts, Writer!Nothing, Writer!NothingElseLost
<1>2. Writer!TypeOK /\ WriterInv /\ [Writer!Next]_(Writer!vars) => WriterInv'
  BY PaneStep, PicksStep, MessagesStep DEF WriterInv, MessageOK
<1>3. Writer!TypeOK /\ WriterInv /\ Writer!NothingElseLost /\ [Writer!Next]_(Writer!vars) => Writer!NothingElseLost'
  BY LostStep DEF WriterInv
<1>4. QED
  BY <1>1, <1>2, <1>3, WriterTypeInit, WriterTypeStep, PTL DEF Writer!Spec

\* The composer among the chat's parts: no text is lost other than in the ways that the module names
\* (ConversationComposer).
THEOREM NothingElseLostHolds == ChatSpec => []NothingElseLost
<1>1. [ChatNext]_allVars => part' = part
  BY DEF ChatNext, allVars
<1>2. ChatInit /\ part = "composer" => Writer!Init
  BY DEF ChatInit
<1>3. [ChatNext]_allVars /\ part = "composer" => [Writer!Next]_(Writer!vars)
  BY DEF ChatNext, allVars, Writer!vars, composer
<1>4. Writer!Spec => [](Writer!NothingElseLost)
  BY LostSafety, ConstantsAssumption DEF ConstantsAssumption
<1>5. part = "composer" /\ part' = part => (part = "composer")'
  OBVIOUS
<1>6. part # "composer" /\ part' = part => (part # "composer")'
  OBVIOUS
<1>7. (part # "composer" => NothingElseLost) /\ (Writer!NothingElseLost => NothingElseLost)
  BY DEF NothingElseLost
<1>8. part = "composer" \/ part # "composer"
  OBVIOUS
<1>9. QED
  BY <1>1, <1>2, <1>3, <1>4, <1>5, <1>6, <1>7, <1>8, PTL DEF ChatSpec, Writer!Spec

-----------------------------------------------------------------------------
(* The agents' tabs.                                                       *)

\* No tab is connected, and nothing is on its way.
LEMMA AgentsTypeInit == Agents!Numbered /\ Agents!Init => Agents!TypeOK
<1>. SUFFICES ASSUME Agents!Numbered, Agents!Init PROVE Agents!TypeOK
  OBVIOUS
<1>. USE DEF Agents!Init, Agents!None
<1>1. left \in Agents!Scenario
  BY DEF Agents!Numbered
<1>2. conv \in [Convs -> Agents!Conversation] /\ \A c \in Convs : conv[c].unread <= conv[c].posted
  BY DEF Agents!Conversation
<1>3. tab \in [Tabs -> Agents!Tab]
  BY DEF Agents!Tab
<1>4. inbox \in [Tabs -> Seq(Agents!Event)] /\ \A t \in Tabs : inbox[t] = <<>>
  OBVIOUS
<1>5. \A t \in Tabs : (~tab[t].up => inbox[t] = <<>>) /\ (~tab[t].sound => tab[t].ring = 0)
  OBVIOUS
<1>8. /\ history \in [Tabs -> [Convs -> Agents!Query]]
      /\ \A t \in Tabs, c \in Convs : history[t][c].seen <= conv[c].posted /\ history[t][c].pc # "read"
  BY DEF Agents!Query
<1>6. unusual \in [blind : SUBSET Convs, joined : SUBSET Convs, twice : SUBSET Tabs, cut : SUBSET Tabs, late : SUBSET Convs]
  OBVIOUS
<1>7. QED
  BY <1>1, <1>2, <1>3, <1>4, <1>5, <1>6, <1>8 DEF Agents!TypeOK

\* What is emitted is appended for every tab that is connected.
LEMMA ToldTyped ==
  ASSUME inbox \in [Tabs -> Seq(Agents!Event)], NEW event \in Agents!Event, inbox' = Agents!Told(event)
  PROVE  /\ inbox' \in [Tabs -> Seq(Agents!Event)]
         /\ \A t \in Tabs : inbox'[t] = IF tab[t].up THEN Append(inbox[t], event) ELSE inbox[t]
  BY DEF Agents!Told

\* A tab that stops ringing stays what it is otherwise.
LEMMA StoppedTyped ==
  ASSUME NEW r \in Agents!Tab
  PROVE  /\ Agents!Stopped(r) \in Agents!Tab
         /\ Agents!Stopped(r).ring = 0
         /\ Agents!Stopped(r).call = IF r.call = r.ring THEN 0 ELSE r.call
         /\ \A f \in {"up", "open", "thread", "sound"} : Agents!Stopped(r)[f] = r[f]
  BY DEF Agents!Tab, Agents!Stopped, Agents!None

\* A tab whose banner goes stays what it is otherwise.
LEMMA DismissedTyped ==
  ASSUME NEW r \in Agents!Tab
  PROVE  /\ Agents!Dismissed(r) \in Agents!Tab
         /\ Agents!Dismissed(r).ring = 0 /\ Agents!Dismissed(r).call = 0
         /\ \A f \in {"up", "open", "thread", "sound"} : Agents!Dismissed(r)[f] = r[f]
<1>. DEFINE s == Agents!Stopped(r)
<1>1. /\ s \in Agents!Tab /\ s.ring = 0
      /\ \A f \in {"up", "open", "thread", "sound"} : s[f] = r[f]
  BY StoppedTyped
<1>2. Agents!Dismissed(r) = [s EXCEPT !.call = 0]
  BY DEF Agents!Dismissed, Agents!None
<1>. HIDE DEF s
<1>3. QED
  BY <1>1, <1>2 DEF Agents!Tab, Agents!None

\* A call that comes in rings under its own banner, unless its conversation is ringing already.
LEMMA IncomingCallTyped ==
  ASSUME NEW r \in Agents!Tab, NEW c \in Convs, 0 \notin Convs
  PROVE  LET s == Agents!IncomingCall(r, c) IN
         /\ s \in Agents!Tab
         /\ \A f \in {"up", "open", "thread", "sound"} : s[f] = r[f]
         /\ s.ring \in {0, c, r.ring}
         /\ r.ring # c /\ r.ring \in {0, r.call} => s.ring \in {0, s.call}
         /\ ~r.sound /\ r.ring = 0 => s.ring = 0
<1>. DEFINE s == Agents!IncomingCall(r, c)
            a == [r EXCEPT !.call = c]
            b == Agents!Stopped(a)
            d == [b EXCEPT !.ring = c]
<1>1. a \in Agents!Tab /\ a.call = c /\ \A f \in {"up", "open", "thread", "sound", "ring"} : a[f] = r[f]
  BY DEF Agents!Tab
<1>2. /\ b \in Agents!Tab /\ b.call = IF c = r.ring THEN 0 ELSE c
      /\ \A f \in {"up", "open", "thread", "sound"} : b[f] = r[f]
  <2>. HIDE DEF a
  <2>1. QED
    BY <1>1, StoppedTyped
<1>3. s = IF r.open = c THEN r ELSE IF r.sound THEN d ELSE Agents!Stopped(d)
  BY DEF Agents!IncomingCall
<1>. HIDE DEF b, s
<1>4. /\ d \in Agents!Tab /\ d.ring = c /\ d.call = IF c = r.ring THEN 0 ELSE c
      /\ \A f \in {"up", "open", "thread", "sound"} : d[f] = r[f]
  BY <1>2 DEF Agents!Tab
<1>. HIDE DEF d
<1>5. /\ Agents!Stopped(d) \in Agents!Tab /\ Agents!Stopped(d).ring = 0
      /\ \A f \in {"up", "open", "thread", "sound"} : Agents!Stopped(d)[f] = r[f]
  BY <1>4, StoppedTyped
<1>6. QED
  BY <1>3, <1>4, <1>5 DEF s

\* An event changes the banner and the ringer of the tab that it comes to.
LEMMA HeardTyped ==
  ASSUME NEW r \in Agents!Tab, NEW event \in Agents!Event, 0 \notin Convs
  PROVE  LET s == Agents!Heard(r, event) IN
         /\ s \in Agents!Tab
         /\ \A f \in {"up", "open", "thread", "sound"} : s[f] = r[f]
         /\ event.kind = "taken" /\ r.call = event.conv => s.ring = 0 /\ s.call = 0
         /\ event.kind = "taken" /\ r.call # event.conv => s = r
         /\ event.kind = "incoming" /\ ~event.isNew => s.ring = r.ring /\ s.call = r.call
         /\ event.kind = "incoming" =>
              /\ s.ring \in {0, event.conv, r.ring}
              /\ r.ring # event.conv /\ r.ring \in {0, r.call} => s.ring \in {0, s.call}
         /\ ~r.sound /\ r.ring = 0 => s.ring = 0
<1>. DEFINE s == Agents!Heard(r, event)
<1>0. event.conv \in Convs
  BY DEF Agents!Event
<1>1. CASE event.kind = "incoming"
  <2>1. event.isNew \in BOOLEAN
    BY <1>1 DEF Agents!Event
  <2>2. s = IF event.isNew THEN Agents!IncomingCall(r, event.conv) ELSE r
    BY <1>1 DEF Agents!Heard
  <2>3. CASE event.isNew
    <3>. DEFINE c == event.conv
    <3>1. s = Agents!IncomingCall(r, c)
      BY <2>2, <2>3
    <3>2. c \in Convs
      BY <1>0
    <3>. HIDE DEF s, c
    <3>3. /\ s \in Agents!Tab
          /\ \A f \in {"up", "open", "thread", "sound"} : s[f] = r[f]
          /\ s.ring \in {0, c, r.ring}
          /\ r.ring # c /\ r.ring \in {0, r.call} => s.ring \in {0, s.call}
          /\ ~r.sound /\ r.ring = 0 => s.ring = 0
      BY <3>1, <3>2, IncomingCallTyped
    <3>4. QED
      BY <1>1, <2>3, <3>3 DEF s, c
  <2>4. CASE ~event.isNew
    <3>1. s = r
      BY <2>2, <2>4
    <3>. HIDE DEF s
    <3>2. QED
      BY <1>1, <2>4, <3>1 DEF s
  <2>5. QED
    BY <2>1, <2>3, <2>4
<1>2. CASE event.kind # "incoming"
  <2>1. event.kind = "taken"
    BY <1>2 DEF Agents!Event
  <2>2. s = IF r.call = event.conv THEN Agents!Dismissed(r) ELSE r
    BY <2>1 DEF Agents!Heard
  <2>. HIDE DEF s
  <2>3. QED
    BY <1>2, <2>1, <2>2, DismissedTyped DEF s
<1>3. QED
  BY <1>1, <1>2

\* The histories that an event invalidates on the page.
Again(t) == LET event == Head(inbox[t]) IN
  {c \in Agents!Shown(t) \cap {event.conv} : event.kind = "incoming" \/ event.again}

\* That is what receiving is: one tab, one event.
LEMMA Receives ==
  ASSUME Agents!TypeOK, NEW t \in Tabs, Agents!Receive(t)
  PROVE  /\ inbox[t] \in Seq(Agents!Event) /\ inbox[t] # <<>> /\ Head(inbox[t]) \in Agents!Event
         /\ tab' = [tab EXCEPT ![t] = Agents!Heard(tab[t], Head(inbox[t]))]
         /\ inbox' = [inbox EXCEPT ![t] = Tail(@)]
         /\ history' = [history EXCEPT ![t] =
                          [c \in Convs |-> IF c \in Again(t) THEN Agents!Invalidated(@[c]) ELSE @[c]]]
         /\ unusual' = [unusual EXCEPT
                          !.twice = @ \cup Agents!Rung(t, Head(inbox[t])),
                          !.joined = @ \cup {c \in Again(t) : ~history[t][c].there
                                                                /\ Agents!Missed(history[t][c], c)}]
<1>1. inbox[t] \in Seq(Agents!Event) /\ inbox[t] # <<>>
  BY DEF Agents!Receive, Agents!TypeOK
<1>2. Head(inbox[t]) \in Agents!Event
  BY <1>1
<1>3. QED
  BY <1>1, <1>2, Zenon DEF Agents!Receive, Again, Agents!TypeOK

\* What is on its way is of some conversation.
LEMMA UnderWayTyped ==
  ASSUME Agents!TypeOK, NEW t \in Tabs
  PROVE  Agents!UnderWay(t) \in SUBSET Convs /\ Agents!Shown(t) \subseteq {tab[t].open}
<1>1. Agents!ToSet(inbox[t]) \in SUBSET Agents!Event
  BY ElementOfSeq DEF Agents!ToSet, Agents!TypeOK
<1>2. \A x \in Agents!Post \cup Agents!Join \cup Agents!Event : x.conv \in Convs
  BY DEF Agents!Post, Agents!Join, Agents!Event
<1>. DEFINE all == handlers \cup joins \cup Agents!ToSet(inbox[t])
<1>3. Agents!UnderWay(t) = {x.conv : x \in all}
  BY Zenon DEF Agents!UnderWay
<1>4. \A x \in all : x.conv \in Convs
  BY <1>1, <1>2 DEF Agents!TypeOK
<1>. HIDE DEF all
<1>5. QED
  BY <1>3, <1>4 DEF Agents!Shown

\* A request that is awaited brings the first n messages, or some request has.
Brings(q, n) == n <= q.seen \/ q.pc = "asked" \/ (q.pc = "read" /\ n <= q.rows)

\* The tab becomes s, its query of c becomes q, and b and k are marked.
OpensAs(t, c, s, q, b, k) ==
  /\ tab' = [tab EXCEPT ![t] = s]
  /\ s.open = c /\ \A f \in {"up", "sound"} : s[f] = tab[t][f]
  /\ (s.ring = 0 /\ s.call = 0) \/ (s.ring = tab[t].ring /\ s.call = tab[t].call)
  /\ history' = [history EXCEPT ![t][c] = q]
  /\ q.seen = history[t][c].seen
  /\ q.pc = "read" => history[t][c].pc = "read" /\ q.rows = history[t][c].rows
  /\ unusual' = [unusual EXCEPT !.blind = @ \cup b, !.joined = @ \cup k]
  /\ Agents!Shown(t) \cap Agents!UnderWay(t) \subseteq b
  /\ c \in b \cup k \/ (s.thread /\ Brings(q, conv[c].posted))

\* That is what opening a conversation is.
LEMMA Opens ==
  ASSUME Agents!TypeOK, NEW t \in Tabs, NEW c \in Convs, Agents!OpenConversation(t, c)
  PROVE  \E s \in Agents!Tab, q \in Agents!Query, b \in SUBSET Convs, k \in SUBSET Convs : OpensAs(t, c, s, q, b, k)
<1>. DEFINE h == history[t][c]
<1>0. h \in Agents!Query /\ conv[c].posted \in Nat
  BY DEF Agents!TypeOK, Agents!Conversation
<1>1. PICK answers \in BOOLEAN, appears \in BOOLEAN, p \in Agents!Cached(h) :
        /\ tab' = [tab EXCEPT ![t] =
             [(IF answers \/ tab[t].call = c THEN Agents!Dismissed(tab[t]) ELSE tab[t]) EXCEPT
                !.open = c, !.thread = appears]]
        /\ history' = [history EXCEPT ![t][c] = IF appears THEN Agents!Mounts(p) ELSE p]
        /\ unusual' = [unusual EXCEPT
             !.blind = @ \cup (Agents!Shown(t) \cap Agents!UnderWay(t)) \cup (IF appears THEN {} ELSE {c}),
             !.joined = @ \cup (IF Agents!Missed(p, c) THEN {c} ELSE {})]
  BY DEF Agents!OpenConversation
<1>. DEFINE r == IF answers \/ tab[t].call = c THEN Agents!Dismissed(tab[t]) ELSE tab[t]
            s == [r EXCEPT !.open = c, !.thread = appears]
            q == IF appears THEN Agents!Mounts(p) ELSE p
            b == (Agents!Shown(t) \cap Agents!UnderWay(t)) \cup (IF appears THEN {} ELSE {c})
            k == IF Agents!Missed(p, c) THEN {c} ELSE {}
<1>2. /\ r \in Agents!Tab
      /\ \A f \in {"up", "open", "thread", "sound"} : r[f] = tab[t][f]
      /\ (r.ring = 0 /\ r.call = 0) \/ (r.ring = tab[t].ring /\ r.call = tab[t].call)
  BY DismissedTyped DEF Agents!TypeOK
<1>3. tab' = [tab EXCEPT ![t] = s]
  BY <1>1
<1>4. /\ s \in Agents!Tab /\ s.open = c /\ s.thread = appears
      /\ \A f \in {"up", "sound"} : s[f] = tab[t][f]
      /\ (s.ring = 0 /\ s.call = 0) \/ (s.ring = tab[t].ring /\ s.call = tab[t].call)
  <2>. HIDE DEF r
  <2>1. s \in Agents!Tab /\ s.open = c /\ s.thread = appears /\ \A f \in {"up", "sound", "ring", "call"} : s[f] = r[f]
    BY <1>2 DEF Agents!Tab
  <2>. HIDE DEF s
  <2>2. QED
    BY <1>2, <2>1
<1>. HIDE DEF h, r, s
<1>5. p \in Agents!Query /\ p.seen = h.seen /\ p.rows = h.rows /\ p.pc = h.pc
  BY <1>0, <1>1 DEF Agents!Cached, Agents!Query
<1>6. /\ q \in Agents!Query /\ q.seen = h.seen
      /\ q.pc = "read" => h.pc = "read" /\ q.rows = h.rows
      /\ appears => q.pc = "asked" \/ (p.pc = "read" /\ q = p)
  BY <1>5 DEF Agents!Mounts, Agents!Asked, Agents!Query
<1>7. history' = [history EXCEPT ![t][c] = q]
  BY <1>1
<1>8. unusual' = [unusual EXCEPT !.blind = @ \cup b, !.joined = @ \cup k]
  <2>1. unusual.blind \cup (Agents!Shown(t) \cap Agents!UnderWay(t)) \cup (IF appears THEN {} ELSE {c})
          = unusual.blind \cup b
    OBVIOUS
  <2>2. QED
    BY <1>1, <2>1
<1>9. b \in SUBSET Convs /\ k \in SUBSET Convs /\ Agents!Shown(t) \cap Agents!UnderWay(t) \subseteq b
  BY UnderWayTyped
<1>10. c \in b \cup k \/ (appears /\ Brings(q, conv[c].posted))
  <2>1. CASE ~appears
    BY <2>1
  <2>2. CASE appears
    <3>1. p.pc = "read" /\ c \notin k => conv[c].posted <= p.rows
      BY <1>0, <1>5 DEF Agents!Missed, Agents!Query
    <3>2. QED
      BY <1>6, <2>2, <3>1 DEF Brings
  <2>3. QED
    BY <2>1, <2>2
<1>. HIDE DEF q, b, k
<1>11. OpensAs(t, c, s, q, b, k)
  BY <1>3, <1>4, <1>6, <1>7, <1>8, <1>9, <1>10 DEF OpensAs, h
<1>12. QED
  BY <1>4, <1>6, <1>9, <1>11

\* The tab that opens a conversation.
LEMMA OpensTyped ==
  ASSUME Agents!TypeOK, NEW t \in Tabs, NEW c \in Convs, Agents!OpenConversation(t, c)
  PROVE  \E s \in Agents!Tab :
           /\ tab' = [tab EXCEPT ![t] = s]
           /\ \A f \in {"up", "sound"} : s[f] = tab[t][f]
           /\ \/ s.ring = 0 /\ s.call = 0
              \/ s.ring = tab[t].ring /\ s.call = tab[t].call
<1>1. \E s \in Agents!Tab, q \in Agents!Query, b \in SUBSET Convs, k \in SUBSET Convs : OpensAs(t, c, s, q, b, k)
  BY Opens
<1>2. QED
  BY <1>1 DEF OpensAs

\* The tab whose thread goes off the page.
LEMMA LeavesTyped ==
  ASSUME Agents!TypeOK, NEW t \in Tabs, Agents!LeaveThread(t)
  PROVE  \E s \in Agents!Tab :
           /\ tab' = [tab EXCEPT ![t] = s]
           /\ s.thread = FALSE
           /\ \A f \in {"up", "open", "call", "ring", "sound"} : s[f] = tab[t][f]
<1>. DEFINE s == [tab[t] EXCEPT !.thread = FALSE]
<1>1. tab \in [Tabs -> Agents!Tab]
  BY DEF Agents!TypeOK
<1>2. tab' = [tab EXCEPT ![t] = s]
  BY <1>1 DEF Agents!LeaveThread
<1>3. /\ s \in Agents!Tab /\ s.thread = FALSE
      /\ \A f \in {"up", "open", "call", "ring", "sound"} : s[f] = tab[t][f]
  BY <1>1 DEF Agents!Tab
<1>4. QED
  BY <1>2, <1>3

\* The other changes of a tab by its agent and its ringer.
LEMMA TabMoves ==
  ASSUME Agents!TypeOK, NEW t \in Tabs,
         Agents!RingerEnds(t) \/ Agents!Silence(t) \/ Agents!ToggleSound(t)
  PROVE  \E s \in Agents!Tab :
           /\ tab' = [tab EXCEPT ![t] = s]
           /\ \A f \in {"up", "open", "thread"} : s[f] = tab[t][f]
           /\ s.ring = 0 \/ (s.ring = tab[t].ring /\ s.call = tab[t].call)
           /\ ~s.sound => s.ring = 0
<1>. DEFINE r == tab[t]
<1>1. r \in Agents!Tab /\ (~r.sound => r.ring = 0) /\ r.sound \in BOOLEAN
  BY DEF Agents!TypeOK, Agents!Tab, Agents!None
<1>2. CASE Agents!RingerEnds(t)
  <2>1. tab' = [tab EXCEPT ![t] = Agents!Stopped(r)]
    BY <1>2 DEF Agents!RingerEnds
  <2>2. QED
    <3>1. /\ Agents!Stopped(r) \in Agents!Tab /\ Agents!Stopped(r).ring = 0
          /\ \A f \in {"up", "open", "thread"} : Agents!Stopped(r)[f] = r[f]
      BY <1>1, StoppedTyped
    <3>2. QED
      BY <2>1, <3>1
<1>3. CASE Agents!Silence(t)
  <2>1. tab' = [tab EXCEPT ![t] = Agents!Dismissed(r)]
    BY <1>3 DEF Agents!Silence
  <2>2. QED
    <3>1. /\ Agents!Dismissed(r) \in Agents!Tab /\ Agents!Dismissed(r).ring = 0
          /\ \A f \in {"up", "open", "thread"} : Agents!Dismissed(r)[f] = r[f]
      BY <1>1, DismissedTyped
    <3>2. QED
      BY <2>1, <3>1
<1>4. CASE Agents!ToggleSound(t) /\ r.sound
  <2>. DEFINE a == Agents!Stopped(r)
              s == [a EXCEPT !.sound = FALSE]
  <2>1. tab' = [tab EXCEPT ![t] = s]
    BY <1>4 DEF Agents!ToggleSound, Agents!TypeOK
  <2>2. /\ a \in Agents!Tab /\ a.ring = 0
        /\ \A f \in {"up", "open", "thread"} : a[f] = r[f]
    BY <1>1, StoppedTyped
  <2>. HIDE DEF a
  <2>3. /\ s \in Agents!Tab /\ s.ring = 0
        /\ \A f \in {"up", "open", "thread"} : s[f] = r[f]
    BY <2>2 DEF Agents!Tab
  <2>4. QED
    BY <2>1, <2>3
<1>5. CASE Agents!ToggleSound(t) /\ ~r.sound
  <2>. DEFINE s == [r EXCEPT !.sound = TRUE]
  <2>1. tab' = [tab EXCEPT ![t] = s]
    BY <1>5 DEF Agents!ToggleSound, Agents!TypeOK
  <2>2. /\ s \in Agents!Tab /\ s.ring = r.ring /\ s.call = r.call
        /\ \A f \in {"up", "open", "thread"} : s[f] = r[f]
    BY <1>1 DEF Agents!Tab
  <2>3. QED
    BY <1>1, <1>5, <2>1, <2>2
<1>6. QED
  BY <1>2, <1>3, <1>4, <1>5

\* A connection, and the loss of one.
LEMMA ConnectionMoves ==
  ASSUME Agents!TypeOK, NEW t \in Tabs, Agents!Connect(t) \/ Agents!Disconnect(t)
  PROVE  \E s \in Agents!Tab :
           /\ tab' = [tab EXCEPT ![t] = s]
           /\ s.up = ~tab[t].up
           /\ \A f \in {"open", "thread", "call", "ring", "sound"} : s[f] = tab[t][f]
<1>. DEFINE s == [tab[t] EXCEPT !.up = ~@]
<1>1. tab \in [Tabs -> Agents!Tab] /\ tab[t].up \in BOOLEAN
  BY DEF Agents!TypeOK, Agents!Tab
<1>2. tab' = [tab EXCEPT ![t] = s]
  BY <1>1 DEF Agents!Connect, Agents!Disconnect
<1>3. /\ s \in Agents!Tab /\ s.up = ~tab[t].up
      /\ \A f \in {"open", "thread", "call", "ring", "sound"} : s[f] = tab[t][f]
  BY <1>1 DEF Agents!Tab
<1>4. QED
  BY <1>2, <1>3

\* What a tab shows: the part of TypeOK that concerns one tab.
TabOK(s, p) == (~s.up => p = <<>>) /\ (~s.sound => s.ring = 0)

\* What a query has read: the part of TypeOK that concerns one query.
QueryOK(q, c) ==
  q.seen <= conv[c].posted /\ (q.pc = "read" => q.seen <= q.rows /\ q.rows <= conv[c].posted)

\* One query changes.
LEMMA QueriesTyped ==
  ASSUME Agents!TypeOK, NEW t \in Tabs, NEW c \in Convs, NEW q \in Agents!Query, conv' = conv,
         history' = [history EXCEPT ![t][c] = q], QueryOK(q, c)
  PROVE  /\ history' \in [Tabs -> [Convs -> Agents!Query]]
         /\ history'[t][c] = q
         /\ \A u \in Tabs, d \in Convs : u # t \/ d # c => history'[u][d] = history[u][d]
         /\ \A u \in Tabs, d \in Convs : QueryOK(history[u][d], d)'
<1>1. /\ history \in [Tabs -> [Convs -> Agents!Query]]
      /\ \A u \in Tabs, d \in Convs : QueryOK(history[u][d], d)
  BY DEF Agents!TypeOK, QueryOK
<1>2. /\ history' \in [Tabs -> [Convs -> Agents!Query]]
      /\ history'[t][c] = q
      /\ \A u \in Tabs, d \in Convs : u # t \/ d # c => history'[u][d] = history[u][d]
  BY <1>1
<1>3. ASSUME NEW u \in Tabs, NEW d \in Convs PROVE QueryOK(history[u][d], d)'
  <2>1. CASE u = t /\ d = c
    BY <1>2, <2>1 DEF QueryOK
  <2>2. CASE u # t \/ d # c
    BY <1>1, <1>2, <2>2 DEF QueryOK
  <2>3. QED
    BY <2>1, <2>2
<1>4. QED
  BY <1>2, <1>3

\* A history that is read, and one whose answer comes in, bring no fewer messages.
LEMMA QueryMoves ==
  ASSUME Agents!TypeOK, NEW t \in Tabs, NEW c \in Convs, Agents!ReadHistory(t, c) \/ Agents!Refetch(t, c)
  PROVE  \E q \in Agents!Query :
           /\ history' = [history EXCEPT ![t][c] = q]
           /\ QueryOK(q, c)
           /\ \A n \in Nat : n <= conv[c].posted /\ Brings(history[t][c], n) => Brings(q, n)
<1>. DEFINE h == history[t][c]
<1>1. h \in Agents!Query /\ QueryOK(h, c) /\ conv[c].posted \in Nat
  BY DEF Agents!TypeOK, QueryOK, Agents!Conversation
<1>2. CASE Agents!ReadHistory(t, c)
  <2>. DEFINE q == [h EXCEPT !.pc = "read", !.rows = conv[c].posted]
  <2>1. history' = [history EXCEPT ![t][c] = q] /\ h.pc = "asked"
    BY <1>2 DEF Agents!ReadHistory, Agents!TypeOK
  <2>. HIDE DEF h
  <2>2. q \in Agents!Query /\ q.pc = "read" /\ q.rows = conv[c].posted /\ q.seen = h.seen
    BY <1>1 DEF Agents!Query
  <2>. HIDE DEF q
  <2>3. QueryOK(q, c)
    BY <1>1, <2>2 DEF QueryOK
  <2>4. \A n \in Nat : n <= conv[c].posted /\ Brings(h, n) => Brings(q, n)
    BY <2>2 DEF Brings
  <2>5. QED
    BY <2>1, <2>2, <2>3, <2>4 DEF h
<1>3. CASE Agents!Refetch(t, c)
  <2>. DEFINE q == [pc |-> "idle", rows |-> 0, there |-> TRUE, seen |-> h.rows]
  <2>1. history' = [history EXCEPT ![t][c] = q] /\ h.pc = "read"
    BY <1>3 DEF Agents!Refetch, Agents!TypeOK
  <2>. HIDE DEF h
  <2>2. q \in Agents!Query /\ q.pc = "idle" /\ q.seen = h.rows
    BY <1>1 DEF Agents!Query
  <2>3. h.rows \in Nat /\ h.seen \in Nat /\ h.seen <= h.rows /\ h.rows <= conv[c].posted
    BY <1>1, <2>1 DEF QueryOK, Agents!Query
  <2>. HIDE DEF q
  <2>4. QueryOK(q, c)
    BY <2>2, <2>3 DEF QueryOK
  <2>5. \A n \in Nat : n <= conv[c].posted /\ Brings(h, n) => Brings(q, n)
    BY <2>1, <2>2, <2>3 DEF Brings
  <2>6. QED
    BY <2>1, <2>2, <2>4, <2>5 DEF h
<1>4. QED
  BY <1>2, <1>3

\* A history that could not be fetched.
LEMMA QueryFails ==
  ASSUME Agents!TypeOK, NEW t \in Tabs, NEW c \in Convs, Agents!FetchFails(t, c)
  PROVE  \E q \in Agents!Query : history' = [history EXCEPT ![t][c] = q] /\ QueryOK(q, c)
<1>. DEFINE h == history[t][c]  q == [h EXCEPT !.pc = "idle", !.rows = 0]
<1>1. h \in Agents!Query /\ QueryOK(h, c)
  BY DEF Agents!TypeOK, QueryOK
<1>2. history' = [history EXCEPT ![t][c] = q]
  BY DEF Agents!FetchFails, Agents!TypeOK
<1>. HIDE DEF h
<1>3. q \in Agents!Query /\ q.pc = "idle" /\ q.seen = h.seen
  BY <1>1 DEF Agents!Query
<1>. HIDE DEF q
<1>4. QueryOK(q, c)
  BY <1>1, <1>3 DEF QueryOK
<1>5. QED
  BY <1>2, <1>3, <1>4

\* A history that is invalidated is asked for, or is a first load, which is joined.
LEMMA InvalidatedTyped ==
  ASSUME NEW q \in Agents!Query, NEW c, QueryOK(q, c)
  PROVE  /\ Agents!Invalidated(q) \in Agents!Query
         /\ QueryOK(Agents!Invalidated(q), c)
         /\ Agents!Invalidated(q).pc = "asked" \/ (~q.there /\ q.pc = "read" /\ Agents!Invalidated(q) = q)
<1>. DEFINE i == Agents!Invalidated(q)
<1>1. /\ i \in Agents!Query
      /\ i = q \/ (i.pc = "asked" /\ i.seen = q.seen)
      /\ i.pc = "asked" \/ (~q.there /\ q.pc = "read" /\ i = q)
  BY DEF Agents!Invalidated, Agents!Asked, Agents!Query
<1>. HIDE DEF i
<1>2. QED
  BY <1>1 DEF QueryOK, i

\* With an event the tab asks again for what it invalidates, and nothing comes that did not;
\* what is not marked then brings every message that is stored.
LEMMA ReceivesQueries ==
  ASSUME Agents!TypeOK, NEW t \in Tabs, Agents!Receive(t)
  PROVE  /\ history' \in [Tabs -> [Convs -> Agents!Query]]
         /\ \A u \in Tabs, d \in Convs : QueryOK(history[u][d], d)'
         /\ \A u \in Tabs \ {t}, d \in Convs : history'[u][d] = history[u][d]
         /\ \A d \in Convs : IF d \in Again(t) THEN d \in unusual'.joined \/ Brings(history'[t][d], conv[d].posted)
                             ELSE history'[t][d] = history[t][d]
<1>1. /\ history \in [Tabs -> [Convs -> Agents!Query]]
      /\ \A u \in Tabs, d \in Convs : QueryOK(history[u][d], d)
      /\ \A d \in Convs : conv[d].posted \in Nat
  BY DEF Agents!TypeOK, QueryOK, Agents!Conversation
<1>2. history' = [history EXCEPT ![t] =
                    [c \in Convs |-> IF c \in Again(t) THEN Agents!Invalidated(@[c]) ELSE @[c]]]
  BY Receives
<1>3. conv' = conv
  BY DEF Agents!Receive
<1>4. \A d \in Convs : history'[t][d] = IF d \in Again(t) THEN Agents!Invalidated(history[t][d]) ELSE history[t][d]
  BY <1>1, <1>2
<1>5. \A u \in Tabs \ {t}, d \in Convs : history'[u][d] = history[u][d]
  BY <1>1, <1>2
<1>6. ASSUME NEW d \in Convs
      PROVE  /\ history'[t][d] \in Agents!Query /\ QueryOK(history'[t][d], d)
             /\ IF d \in Again(t) THEN d \in unusual'.joined \/ Brings(history'[t][d], conv[d].posted)
                ELSE history'[t][d] = history[t][d]
  <2>. DEFINE h == history[t][d]
  <2>1. h \in Agents!Query /\ QueryOK(h, d)
    BY <1>1
  <2>2. CASE d \notin Again(t)
    BY <1>4, <2>1, <2>2
  <2>3. CASE d \in Again(t)
    <3>1. history'[t][d] = Agents!Invalidated(h)
      BY <1>4, <2>3
    <3>2. ~h.there /\ Agents!Missed(h, d) => d \in unusual'.joined
      <4>. DEFINE k == {c \in Again(t) : ~history[t][c].there /\ Agents!Missed(history[t][c], c)}
      <4>1. unusual' = [unusual EXCEPT !.twice = @ \cup Agents!Rung(t, Head(inbox[t])), !.joined = @ \cup k]
        BY Receives, Zenon
      <4>2. ~h.there /\ Agents!Missed(h, d) => d \in k
        BY <2>3
      <4>. HIDE DEF k, h
      <4>3. QED
        BY <4>1, <4>2 DEF Agents!TypeOK
    <3>. HIDE DEF h
    <3>3. /\ Agents!Invalidated(h) \in Agents!Query /\ QueryOK(Agents!Invalidated(h), d)
          /\ Agents!Invalidated(h).pc = "asked" \/ (~h.there /\ h.pc = "read" /\ Agents!Invalidated(h) = h)
      BY <2>1, InvalidatedTyped
    <3>4. h.pc = "read" => Agents!Missed(h, d) \/ conv[d].posted <= h.rows
      BY <1>1, <2>1 DEF Agents!Missed, Agents!Query
    <3>5. QED
      BY <2>3, <3>1, <3>2, <3>3, <3>4 DEF Brings
  <2>4. QED
    BY <2>2, <2>3
<1>7. history' \in [Tabs -> [Convs -> Agents!Query]]
  <2>1. [c \in Convs |-> IF c \in Again(t) THEN Agents!Invalidated(history[t][c]) ELSE history[t][c]]
          \in [Convs -> Agents!Query]
    BY <1>4, <1>6
  <2>2. QED
    BY <1>1, <1>2, <2>1
<1>8. ASSUME NEW u \in Tabs, NEW d \in Convs PROVE QueryOK(history[u][d], d)'
  <2>1. CASE u = t
    BY <1>3, <1>6, <2>1 DEF QueryOK
  <2>2. CASE u # t
    BY <1>1, <1>3, <1>5, <2>2 DEF QueryOK
  <2>3. QED
    BY <2>1, <2>2
<1>9. QED
  BY <1>5, <1>6, <1>7, <1>8

\* A join ends, or goes on for the same tab and conversation.
LEMMA JoinGoes ==
  ASSUME Agents!TypeOK, NEW j \in joins,
         Agents!MarkRead(j) \/ Agents!TellReceived(j) \/ Agents!Assign(j) \/ Agents!TellAssigned(j)
  PROVE  /\ joins' \in SUBSET Agents!Join
         /\ \/ joins' = joins \ {j}
            \/ \E k \in Agents!Join : joins' = (joins \ {j}) \cup {k} /\ k.tab = j.tab /\ k.conv = j.conv
         /\ Agents!Assign(j) => \E k \in joins' : k.conv = j.conv /\ k.pc = "tell"
         /\ Agents!MarkRead(j) /\ j.pc = "tell" => \E k \in joins' : k.conv = j.conv /\ k.pc = "tell"
<1>1. joins \in SUBSET Agents!Join /\ j \in Agents!Join
  BY DEF Agents!TypeOK
<1>2. CASE Agents!MarkRead(j)
  <2>. DEFINE k == [j EXCEPT !.read = TRUE]
  <2>1. k \in Agents!Join /\ k.tab = j.tab /\ k.conv = j.conv /\ k.pc = j.pc
    BY <1>1 DEF Agents!Join
  <2>2. /\ joins' = joins \ {j} \/ joins' = (joins \ {j}) \cup {k}
        /\ k.pc # "done" => joins' = (joins \ {j}) \cup {k}
    BY <1>2 DEF Agents!MarkRead, Agents!Ended
  <2>3. ~Agents!Assign(j) \/ j.pc = "assign"
    BY DEF Agents!Assign
  <2>. HIDE DEF k
  <2>4. Agents!Assign(j) => joins' = (joins \ {j}) \cup {[j EXCEPT !.pc = "tell"]}
    BY DEF Agents!Assign
  <2>5. [j EXCEPT !.pc = "tell"].conv = j.conv /\ [j EXCEPT !.pc = "tell"].pc = "tell"
    BY <1>1 DEF Agents!Join
  <2>6. QED
    BY <1>1, <2>1, <2>2, <2>4, <2>5
<1>3. CASE Agents!TellReceived(j)
  <2>1. PICK k : /\ k \in {[j EXCEPT !.pc = "assign"], [j EXCEPT !.pc = "done"]}
                 /\ joins' = (joins \ {j}) \cup Agents!Ended(k)
    BY <1>3 DEF Agents!TellReceived
  <2>2. k \in Agents!Join /\ k.tab = j.tab /\ k.conv = j.conv
    BY <1>1, <2>1 DEF Agents!Join
  <2>3. joins' = joins \ {j} \/ joins' = (joins \ {j}) \cup {k}
    BY <2>1 DEF Agents!Ended
  <2>4. j.pc = "open" /\ ~Agents!Assign(j)
    BY <1>3 DEF Agents!TellReceived, Agents!Assign
  <2>5. QED
    BY <1>1, <2>2, <2>3, <2>4
<1>4. CASE Agents!Assign(j)
  <2>. DEFINE k == [j EXCEPT !.pc = "tell"]
  <2>1. k \in Agents!Join /\ k.tab = j.tab /\ k.conv = j.conv /\ k.pc = "tell"
    BY <1>1 DEF Agents!Join
  <2>2. joins' = (joins \ {j}) \cup {k} /\ j.pc = "assign"
    BY <1>4 DEF Agents!Assign
  <2>. HIDE DEF k
  <2>3. QED
    BY <1>1, <2>1, <2>2
<1>5. CASE Agents!TellAssigned(j) /\ ~Agents!MarkRead(j)
  <2>. DEFINE k == [j EXCEPT !.pc = "done"]
  <2>1. k \in Agents!Join /\ k.tab = j.tab /\ k.conv = j.conv
    BY <1>1 DEF Agents!Join
  <2>2. joins' = joins \ {j} \/ joins' = (joins \ {j}) \cup {k}
    BY <1>5 DEF Agents!TellAssigned, Agents!Ended
  <2>3. j.pc = "tell" /\ ~Agents!Assign(j)
    BY <1>5 DEF Agents!TellAssigned, Agents!Assign
  <2>. HIDE DEF k
  <2>4. QED
    BY <1>1, <1>5, <2>1, <2>2, <2>3
<1>6. QED
  BY <1>2, <1>3, <1>4, <1>5

\* What a join is that begins.
LEMMA JoiningTyped ==
  ASSUME NEW t \in Tabs, NEW c \in Convs
  PROVE  Agents!Joining(t, c) \in SUBSET Agents!Join
  BY DEF Agents!Joining, Agents!Join

\* One tab changes.
LEMMA TabsTyped ==
  ASSUME Agents!TypeOK, NEW t \in Tabs, NEW s \in Agents!Tab, tab' = [tab EXCEPT ![t] = s]
  PROVE  /\ tab' \in [Tabs -> Agents!Tab]
         /\ tab'[t] = s
         /\ \A u \in Tabs \ {t} : tab'[u] = tab[u]
  BY DEF Agents!TypeOK

\* A bound that is used up by one step is still a bound.
LEMMA ScenarioUsed ==
  ASSUME NEW l \in Agents!Scenario, NEW n \in Nat
  PROVE  /\ [l EXCEPT !.sends = n] \in Agents!Scenario /\ [l EXCEPT !.drops = n] \in Agents!Scenario
         /\ [l EXCEPT !.opens = n] \in Agents!Scenario /\ [l EXCEPT !.leaves = n] \in Agents!Scenario
         /\ [l EXCEPT !.switches = n] \in Agents!Scenario
         /\ l.sends \in Nat /\ l.drops \in Nat /\ l.opens \in Nat /\ l.leaves \in Nat /\ l.switches \in Nat
  BY DEF Agents!Scenario

\* More tabs and conversations may be marked.
LEMMA OddMarked ==
  ASSUME unusual \in [blind : SUBSET Convs, joined : SUBSET Convs, twice : SUBSET Tabs, cut : SUBSET Tabs, late : SUBSET Convs],
         NEW b \in SUBSET Convs, NEW t \in SUBSET Tabs
  PROVE     {[unusual EXCEPT !.blind = @ \cup b], [unusual EXCEPT !.late = @ \cup b],
             [unusual EXCEPT !.twice = @ \cup t, !.joined = @ \cup b], [unusual EXCEPT !.cut = @ \cup t]}
              \subseteq [blind : SUBSET Convs, joined : SUBSET Convs, twice : SUBSET Tabs, cut : SUBSET Tabs, late : SUBSET Convs]
  OBVIOUS

\* Every action leaves the rows, the handlers, the joins, the tabs and their events of their types.
LEMMA AgentsTypeStep ==
  ASSUME Agents!Numbered
  PROVE  Agents!TypeOK /\ [Agents!Next]_(Agents!vars) => Agents!TypeOK'
<1>. SUFFICES ASSUME Agents!TypeOK, [Agents!Next]_(Agents!vars) PROVE Agents!TypeOK'
  OBVIOUS
<1>. DEFINE Online == \A a \in presence : \E t \in Tabs : tab[t].up /\ a = UserOf[t]
            Odd == [blind : SUBSET Convs, joined : SUBSET Convs, twice : SUBSET Tabs, cut : SUBSET Tabs, late : SUBSET Convs]
<1>0. /\ 0 \notin Convs
      /\ conv \in [Convs -> Agents!Conversation] /\ tab \in [Tabs -> Agents!Tab]
      /\ inbox \in [Tabs -> Seq(Agents!Event)] /\ left \in Agents!Scenario
      /\ handlers \in SUBSET Agents!Post /\ joins \in SUBSET Agents!Join
      /\ \A c \in Convs : conv[c].unread <= conv[c].posted
      /\ \A t \in Tabs : TabOK(tab[t], inbox[t])
      /\ history \in [Tabs -> [Convs -> Agents!Query]]
      /\ \A t \in Tabs, c \in Convs : QueryOK(history[t][c], c)
      /\ Online /\ unusual \in Odd
  BY DEF Agents!TypeOK, Agents!Numbered, Agents!None, TabOK, QueryOK
<1>1. ASSUME /\ conv' \in [Convs -> Agents!Conversation] /\ tab' \in [Tabs -> Agents!Tab]
             /\ inbox' \in [Tabs -> Seq(Agents!Event)] /\ left' \in Agents!Scenario
             /\ handlers' \in SUBSET Agents!Post /\ joins' \in SUBSET Agents!Join
             /\ \A c \in Convs : conv'[c].unread <= conv'[c].posted
             /\ \A t \in Tabs : TabOK(tab[t], inbox[t])'
             /\ history' \in [Tabs -> [Convs -> Agents!Query]]
             /\ \A t \in Tabs, c \in Convs : QueryOK(history[t][c], c)'
             /\ Online' /\ unusual' \in Odd
      PROVE  Agents!TypeOK'
  BY <1>1 DEF Agents!TypeOK, TabOK, QueryOK, Agents!None
<1>2. ASSUME NEW c \in Convs, Agents!MerchantMessage(c) PROVE Agents!TypeOK'
  <2>1. left' \in Agents!Scenario
    <3>1. left' = [left EXCEPT !.sends = left.sends - 1] /\ left.sends > 0
      BY <1>2 DEF Agents!MerchantMessage
    <3>0. left.sends \in Nat
      BY <1>0, ScenarioUsed
    <3>2. left.sends - 1 \in Nat
      BY <3>0, <3>1
    <3>3. QED
      BY <1>0, <3>1, <3>2, ScenarioUsed
  <2>2. handlers' \in SUBSET Agents!Post
    <3>1. left.sends \in Nat /\ (~conv[c].assigned) \in BOOLEAN
      BY <1>0, ScenarioUsed DEF Agents!Conversation
    <3>2. [id |-> left.sends, conv |-> c, isNew |-> ~conv[c].assigned, stored |-> FALSE] \in Agents!Post
      BY <3>1 DEF Agents!Post
    <3>3. QED
      BY <1>0, <1>2, <3>2 DEF Agents!MerchantMessage
  <2>3. QED
    BY <1>0, <1>1, <1>2, <2>1, <2>2 DEF Agents!MerchantMessage, TabOK, QueryOK
<1>3. ASSUME NEW p \in handlers, Agents!PersistMessage(p) PROVE Agents!TypeOK'
  <2>. DEFINE c == p.conv  row == [conv[c] EXCEPT !.posted = @ + 1, !.unread = @ + 1]
  <2>1. p \in Agents!Post /\ c \in Convs /\ [p EXCEPT !.stored = TRUE] \in Agents!Post
    BY <1>0 DEF Agents!Post
  <2>2. /\ conv[c] \in Agents!Conversation /\ conv[c].unread <= conv[c].posted
        /\ conv[c].posted \in Nat /\ conv[c].unread \in Nat
    BY <1>0, <2>1 DEF Agents!Conversation
  <2>3. conv' = [conv EXCEPT ![c] = row]
    BY <1>0, <1>3, <2>1 DEF Agents!PersistMessage
  <2>4. /\ row \in Agents!Conversation /\ row.unread = conv[c].unread + 1 /\ row.posted = conv[c].posted + 1
    <3>. DEFINE n == conv[c].posted + 1  m == conv[c].unread + 1
    <3>1. n \in Nat /\ m \in Nat
      BY <2>2
    <3>2. row = [conv[c] EXCEPT !.posted = n, !.unread = m]
      BY <2>2
    <3>. HIDE DEF n, m, row
    <3>3. row \in Agents!Conversation /\ row.unread = m /\ row.posted = n
      BY <2>2, <3>1, <3>2 DEF Agents!Conversation
    <3>4. QED
      BY <3>3 DEF n, m
  <2>. HIDE DEF row, c
  <2>5. /\ conv' \in [Convs -> Agents!Conversation]
        /\ conv'[c] = row
        /\ \A d \in Convs \ {c} : conv'[d] = conv[d]
    BY <1>0, <2>1, <2>3, <2>4
  <2>6. \A d \in Convs : conv'[d].unread <= conv'[d].posted /\ conv[d].posted <= conv'[d].posted
    <3>1. \A d \in Convs : conv[d].posted \in Nat /\ conv[d].unread \in Nat
      BY <1>0 DEF Agents!Conversation
    <3>2. ASSUME NEW d \in Convs \ {c} PROVE conv'[d].unread <= conv'[d].posted /\ conv[d].posted <= conv'[d].posted
      BY <1>0, <2>5, <3>1
    <3>3. conv'[c].unread <= conv'[c].posted /\ conv[c].posted <= conv'[c].posted
      BY <2>2, <2>4, <2>5
    <3>4. QED
      BY <3>2, <3>3
  <2>7. UNCHANGED <<tab, inbox, history>>
    BY <1>3 DEF Agents!PersistMessage
  <2>10. \A t \in Tabs, d \in Convs : QueryOK(history[t][d], d)'
    <3>1. ASSUME NEW t \in Tabs, NEW d \in Convs PROVE QueryOK(history[t][d], d)'
      <4>. DEFINE q == history[t][d]
      <4>1. /\ q.seen \in Nat /\ q.rows \in Nat /\ conv[d].posted \in Nat /\ conv'[d].posted \in Nat
            /\ q = history'[t][d] /\ conv[d].posted <= conv'[d].posted /\ QueryOK(q, d)
        BY <1>0, <2>5, <2>6, <2>7 DEF Agents!Query, Agents!Conversation
      <4>. HIDE DEF q
      <4>2. QED
        BY <4>1 DEF QueryOK
    <3>2. QED
      BY <3>1
  <2>11. \A t \in Tabs : TabOK(tab[t], inbox[t])'
    BY <1>0, <2>7 DEF TabOK
  <2>8. handlers' \in SUBSET Agents!Post
    BY <1>0, <1>3, <2>1 DEF Agents!PersistMessage
  <2>9. QED
    BY <1>0, <1>1, <1>3, <2>5, <2>6, <2>7, <2>8, <2>10, <2>11 DEF Agents!PersistMessage
<1>4. ASSUME NEW event \in Agents!Event, inbox' = Agents!Told(event), UNCHANGED <<conv, tab, history, presence, left>>,
             handlers' \in SUBSET Agents!Post, joins' \in SUBSET Agents!Join, unusual' \in Odd
      PROVE  Agents!TypeOK'
  <2>1. /\ inbox' \in [Tabs -> Seq(Agents!Event)]
        /\ \A t \in Tabs : inbox'[t] = IF tab[t].up THEN Append(inbox[t], event) ELSE inbox[t]
    BY <1>0, <1>4, ToldTyped
  <2>2. \A t \in Tabs : TabOK(tab[t], inbox[t])'
    BY <1>0, <1>4, <2>1 DEF TabOK
  <2>3. \A t \in Tabs, c \in Convs : QueryOK(history[t][c], c)'
    BY <1>0, <1>4 DEF QueryOK
  <2>4. QED
    BY <1>0, <1>1, <1>4, <2>1, <2>2, <2>3
<1>5. ASSUME NEW p \in handlers, Agents!Announce(p) PROVE Agents!TypeOK'
  <2>1. [kind |-> "incoming", conv |-> p.conv, isNew |-> p.isNew] \in Agents!Event
    BY <1>0 DEF Agents!Event, Agents!Post
  <2>2. QED
    BY <1>0, <1>4, <1>5, <2>1 DEF Agents!Announce
<1>6. ASSUME NEW j \in joins, Agents!MarkRead(j) \/ Agents!Assign(j) PROVE Agents!TypeOK'
  <2>1. joins' \in SUBSET Agents!Join /\ j.conv \in Convs
    BY <1>0, <1>6, JoinGoes DEF Agents!Join
  <2>2. PICK row \in Agents!Conversation : /\ conv' = [conv EXCEPT ![j.conv] = row]
                                           /\ row.unread \in {0, conv[j.conv].unread} /\ row.posted = conv[j.conv].posted
    <3>1. CASE Agents!MarkRead(j)
      <4>. DEFINE row == [conv[j.conv] EXCEPT !.unread = 0]
      <4>1. conv' = [conv EXCEPT ![j.conv] = row]
        BY <1>0, <2>1, <3>1 DEF Agents!MarkRead
      <4>2. conv[j.conv] \in Agents!Conversation
        BY <1>0, <2>1
      <4>3. row \in Agents!Conversation /\ row.unread = 0 /\ row.posted = conv[j.conv].posted
        BY <4>2 DEF Agents!Conversation
      <4>4. QED
        BY <4>1, <4>3
    <3>2. CASE Agents!Assign(j)
      <4>. DEFINE row == [conv[j.conv] EXCEPT !.assigned = TRUE]
      <4>1. conv' = [conv EXCEPT ![j.conv] = row]
        BY <1>0, <2>1, <3>2 DEF Agents!Assign
      <4>2. conv[j.conv] \in Agents!Conversation
        BY <1>0, <2>1
      <4>3. row \in Agents!Conversation /\ row.unread = conv[j.conv].unread /\ row.posted = conv[j.conv].posted
        BY <4>2 DEF Agents!Conversation
      <4>4. QED
        BY <4>1, <4>3
    <3>3. QED
      BY <1>6, <3>1, <3>2
  <2>3. conv' \in [Convs -> Agents!Conversation]
    BY <1>0, <2>1, <2>2
  <2>4. \A c \in Convs : /\ conv'[c].posted = conv[c].posted /\ conv[c].posted \in Nat
                         /\ conv'[c].unread \in {0, conv[c].unread}
    BY <1>0, <2>1, <2>2 DEF Agents!Conversation
  <2>5. \A c \in Convs : conv'[c].unread <= conv'[c].posted
    BY <1>0, <2>4
  <2>6. UNCHANGED <<handlers, tab, history, inbox, presence, left, unusual>>
    BY <1>6 DEF Agents!MarkRead, Agents!Assign
  <2>7. /\ \A t \in Tabs : TabOK(tab[t], inbox[t])'
        /\ \A t \in Tabs, c \in Convs : QueryOK(history[t][c], c)'
    BY <1>0, <2>4, <2>6 DEF TabOK, QueryOK
  <2>8. QED
    BY <1>0, <1>1, <2>1, <2>3, <2>5, <2>6, <2>7
<1>7. ASSUME NEW j \in joins, Agents!TellReceived(j) \/ Agents!TellAssigned(j) PROVE Agents!TypeOK'
  <2>1. joins' \in SUBSET Agents!Join /\ j.conv \in Convs
    BY <1>0, <1>7, JoinGoes DEF Agents!Join
  <2>2. \A again \in BOOLEAN : [kind |-> "taken", conv |-> j.conv, again |-> again] \in Agents!Event
    BY <2>1 DEF Agents!Event
  <2>3. {p.conv : p \in {p \in handlers : p.conv = j.conv /\ p.isNew}} \in SUBSET Convs
    BY <1>0 DEF Agents!Post
  <2>4. unusual' \in Odd
    <3>. DEFINE b == {p.conv : p \in {p \in handlers : p.conv = j.conv /\ p.isNew}}
    <3>1. unusual' \in {unusual, [unusual EXCEPT !.late = @ \cup b]}
      BY <1>7 DEF Agents!TellReceived, Agents!TellAssigned
    <3>2. b \in SUBSET Convs
      BY <2>3
    <3>. HIDE DEF b
    <3>3. QED
      BY <1>0, <3>1, <3>2, OddMarked
  <2>5. QED
    BY <1>0, <1>4, <1>7, <2>1, <2>2, <2>4 DEF Agents!TellReceived, Agents!TellAssigned
<1>8. ASSUME NEW t \in Tabs, NEW s \in Agents!Tab, tab' = [tab EXCEPT ![t] = s], s.up = tab[t].up,
             inbox' \in [Tabs -> Seq(Agents!Event)], \A u \in Tabs : inbox[u] = <<>> => inbox'[u] = <<>>,
             conv' = conv, handlers' = handlers, presence' = presence, joins' \in SUBSET Agents!Join,
             left' \in Agents!Scenario, unusual' \in Odd, ~s.sound => s.ring = 0,
             history' \in [Tabs -> [Convs -> Agents!Query]],
             \A u \in Tabs, c \in Convs : QueryOK(history[u][c], c)'
      PROVE  Agents!TypeOK'
  <2>1. tab' \in [Tabs -> Agents!Tab] /\ tab'[t] = s /\ \A u \in Tabs \ {t} : tab'[u] = tab[u]
    BY <1>8, TabsTyped
  <2>2. \A u \in Tabs : TabOK(tab[u], inbox[u])'
    BY <1>0, <1>8, <2>1 DEF TabOK
  <2>3. Online'
    BY <1>0, <1>8, <2>1
  <2>4. QED
    BY <1>0, <1>1, <1>8, <2>1, <2>2, <2>3
<1>9. ASSUME NEW t \in Tabs, Agents!Connect(t) \/ Agents!Disconnect(t) PROVE Agents!TypeOK'
  <2>1. PICK s \in Agents!Tab : /\ tab' = [tab EXCEPT ![t] = s] /\ s.up = ~tab[t].up
                                /\ \A f \in {"open", "thread", "call", "ring", "sound"} : s[f] = tab[t][f]
    BY <1>9, ConnectionMoves
  <2>2. tab' \in [Tabs -> Agents!Tab] /\ tab'[t] = s /\ \A u \in Tabs \ {t} : tab'[u] = tab[u]
    BY <2>1, TabsTyped
  <2>3. tab[t].open \in Convs \cup {0} /\ tab[t].up \in BOOLEAN
    BY <1>0 DEF Agents!Tab, Agents!None
  <2>4. CASE Agents!Connect(t)
    <3>1. joins' \in SUBSET Agents!Join
      BY <1>0, <2>3, <2>4, JoiningTyped DEF Agents!Connect, Agents!None
    <3>2. unusual' \in Odd
      BY <1>0, <2>3, <2>4 DEF Agents!Connect, Agents!None
    <3>3. /\ inbox' = inbox /\ conv' = conv /\ handlers' = handlers /\ left' = left
          /\ presence' = presence \cup {UserOf[t]} /\ ~tab[t].up
      BY <2>4 DEF Agents!Connect
    <3>4. \A u \in Tabs : TabOK(tab[u], inbox[u])'
      BY <1>0, <2>1, <2>2, <3>3 DEF TabOK
    <3>5. Online'
      BY <1>0, <2>1, <2>2, <3>3
    <3>7. history' = history /\ \A u \in Tabs, c \in Convs : QueryOK(history[u][c], c)'
      BY <1>0, <2>4, <3>3 DEF Agents!Connect, QueryOK
    <3>6. QED
      BY <1>0, <1>1, <2>2, <3>1, <3>2, <3>3, <3>4, <3>5, <3>7
  <2>5. CASE Agents!Disconnect(t)
    <3>1. unusual' \in Odd
      BY <1>0, <2>3, <2>5 DEF Agents!Disconnect, Agents!None
    <3>2. left' \in Agents!Scenario
      <4>1. left' = [left EXCEPT !.drops = left.drops - 1] /\ left.drops > 0
        BY <2>5 DEF Agents!Disconnect
      <4>0. left.drops \in Nat
        BY <1>0, ScenarioUsed
      <4>2. left.drops - 1 \in Nat
        BY <4>0, <4>1
      <4>3. QED
        BY <1>0, <4>1, <4>2, ScenarioUsed
    <3>3. /\ inbox' = [inbox EXCEPT ![t] = <<>>] /\ conv' = conv /\ handlers' = handlers /\ joins' = joins
          /\ presence' = presence \ {UserOf[t]} /\ tab[t].up
      BY <2>5 DEF Agents!Disconnect
    <3>4. inbox' \in [Tabs -> Seq(Agents!Event)] /\ inbox'[t] = <<>> /\ \A u \in Tabs \ {t} : inbox'[u] = inbox[u]
      BY <1>0, <3>3
    <3>5. \A u \in Tabs : TabOK(tab[u], inbox[u])'
      BY <1>0, <2>1, <2>2, <3>3, <3>4 DEF TabOK
    <3>6. Online'
      BY <1>0, <2>1, <2>2, <3>3
    <3>8. history' = history /\ \A u \in Tabs, c \in Convs : QueryOK(history[u][c], c)'
      BY <1>0, <2>5, <3>3 DEF Agents!Disconnect, QueryOK
    <3>7. QED
      BY <1>0, <1>1, <2>2, <3>1, <3>2, <3>3, <3>4, <3>5, <3>6, <3>8
  <2>6. QED
    BY <1>9, <2>4, <2>5
<1>10. ASSUME NEW t \in Tabs, NEW c \in Convs, Agents!OpenConversation(t, c) PROVE Agents!TypeOK'
  <2>1. \E s \in Agents!Tab, q \in Agents!Query, b \in SUBSET Convs, k \in SUBSET Convs : OpensAs(t, c, s, q, b, k)
    BY <1>10, Opens
  <2>2. PICK s \in Agents!Tab, q \in Agents!Query, b \in SUBSET Convs, k \in SUBSET Convs : OpensAs(t, c, s, q, b, k)
    BY <2>1
  <2>3. left' \in Agents!Scenario
    <3>1. left' = [left EXCEPT !.opens = left.opens - 1] /\ left.opens > 0
      BY <1>10 DEF Agents!OpenConversation
    <3>0. left.opens \in Nat
      BY <1>0, ScenarioUsed
    <3>2. left.opens - 1 \in Nat
      BY <3>0, <3>1
    <3>3. QED
      BY <1>0, <3>1, <3>2, ScenarioUsed
  <2>4. joins' \in SUBSET Agents!Join
    BY <1>0, <1>10, JoiningTyped DEF Agents!OpenConversation
  <2>5. unusual' \in Odd
    <3>1. unusual' = [unusual EXCEPT !.blind = @ \cup b, !.joined = @ \cup k]
      BY <2>2 DEF OpensAs
    <3>2. QED
      BY <1>0, <3>1
  <2>6. conv' = conv /\ handlers' = handlers /\ inbox' = inbox /\ presence' = presence
    BY <1>10 DEF Agents!OpenConversation
  <2>7. QueryOK(q, c)
    <3>1. QueryOK(history[t][c], c)
      BY <1>0
    <3>2. QED
      BY <2>2, <3>1 DEF OpensAs, QueryOK
  <2>8. history' \in [Tabs -> [Convs -> Agents!Query]] /\ \A u \in Tabs, d \in Convs : QueryOK(history[u][d], d)'
    <3>1. history' = [history EXCEPT ![t][c] = q]
      BY <2>2 DEF OpensAs
    <3>2. QED
      BY <2>6, <2>7, <3>1, QueriesTyped
  <2>9. tab' = [tab EXCEPT ![t] = s] /\ (~s.sound => s.ring = 0) /\ s.up = tab[t].up
    <3>1. TabOK(tab[t], inbox[t])
      BY <1>0
    <3>2. QED
      BY <2>2, <3>1 DEF OpensAs, TabOK
  <2>10. QED
    BY <1>0, <1>8, <2>3, <2>4, <2>5, <2>6, <2>8, <2>9
<1>11. ASSUME NEW t \in Tabs, Agents!Receive(t) PROVE Agents!TypeOK'
  <2>. DEFINE s == Agents!Heard(tab[t], Head(inbox[t]))
  <2>1. /\ inbox[t] \in Seq(Agents!Event) /\ inbox[t] # <<>> /\ Head(inbox[t]) \in Agents!Event
        /\ tab' = [tab EXCEPT ![t] = s]
        /\ inbox' = [inbox EXCEPT ![t] = Tail(@)]
    BY <1>11, Receives
  <2>2. tab[t] \in Agents!Tab
    BY <1>0
  <2>3. /\ s \in Agents!Tab /\ \A f \in {"up", "open", "thread", "sound"} : s[f] = tab[t][f]
        /\ ~tab[t].sound /\ tab[t].ring = 0 => s.ring = 0
    <3>. DEFINE r == tab[t]  event == Head(inbox[t])
    <3>1. r \in Agents!Tab /\ event \in Agents!Event /\ s = Agents!Heard(r, event)
      BY <2>1, <2>2
    <3>. HIDE DEF r, event, s
    <3>2. /\ s \in Agents!Tab /\ \A f \in {"up", "open", "thread", "sound"} : s[f] = r[f]
          /\ ~r.sound /\ r.ring = 0 => s.ring = 0
      <4>1. 0 \notin Convs
        BY <1>0
      <4>2. QED
        BY <4>1, <3>1, HeardTyped
    <3>3. QED
      BY <3>2 DEF r
  <2>. HIDE DEF s
  <2>4. Tail(inbox[t]) \in Seq(Agents!Event)
    BY <2>1
  <2>5. inbox' \in [Tabs -> Seq(Agents!Event)] /\ \A u \in Tabs : inbox[u] = <<>> => inbox'[u] = <<>>
    BY <1>0, <2>1, <2>4
  <2>6. conv' = conv /\ handlers' = handlers /\ joins' = joins /\ presence' = presence /\ left' = left
    BY <1>11 DEF Agents!Receive
  <2>7. unusual' \in Odd
    <3>. DEFINE rung == Agents!Rung(t, Head(inbox[t]))
                k == {c \in Again(t) : ~history[t][c].there /\ Agents!Missed(history[t][c], c)}
    <3>1. unusual' = [unusual EXCEPT !.twice = @ \cup rung, !.joined = @ \cup k]
      BY <1>11, Receives
    <3>2. rung \in SUBSET Tabs
      BY DEF Agents!Rung
    <3>3. k \in SUBSET Convs
      <4>1. Head(inbox[t]).conv \in Convs
        BY <2>1 DEF Agents!Event
      <4>2. k \subseteq {Head(inbox[t]).conv}
        BY DEF Again
      <4>3. QED
        BY <4>1, <4>2
    <3>. HIDE DEF rung, k
    <3>4. QED
      BY <1>0, <3>1, <3>2, <3>3
  <2>8. TabOK(tab[t], inbox[t])
    BY <1>0
  <2>9. history' \in [Tabs -> [Convs -> Agents!Query]] /\ \A u \in Tabs, d \in Convs : QueryOK(history[u][d], d)'
    BY <1>11, ReceivesQueries
  <2>10. QED
    <3>1. (~s.sound => s.ring = 0) /\ s.up = tab[t].up
      BY <2>3, <2>8 DEF TabOK
    <3>2. joins' \in SUBSET Agents!Join /\ left' \in Agents!Scenario
      BY <1>0, <2>6
    <3>3. QED
      BY <1>0, <1>8, <2>1, <2>3, <2>5, <2>6, <2>7, <2>9, <3>1, <3>2
<1>12. ASSUME NEW t \in Tabs, NEW c \in Convs,
              Agents!ReadHistory(t, c) \/ Agents!Refetch(t, c) \/ Agents!FetchFails(t, c)
       PROVE  Agents!TypeOK'
  <2>1. PICK q \in Agents!Query : history' = [history EXCEPT ![t][c] = q] /\ QueryOK(q, c)
    BY <1>12, QueryMoves, QueryFails
  <2>2. UNCHANGED <<conv, tab, handlers, joins, inbox, presence>>
    BY <1>12 DEF Agents!ReadHistory, Agents!Refetch, Agents!FetchFails
  <2>3. history' \in [Tabs -> [Convs -> Agents!Query]] /\ \A u \in Tabs, d \in Convs : QueryOK(history[u][d], d)'
    BY <2>1, <2>2, QueriesTyped
  <2>4. left' \in Agents!Scenario
    <3>1. left' = left \/ (left' = [left EXCEPT !.drops = left.drops - 1] /\ left.drops > 0)
      BY <1>12 DEF Agents!ReadHistory, Agents!Refetch, Agents!FetchFails
    <3>2. left.drops \in Nat
      BY <1>0, ScenarioUsed
    <3>3. left.drops > 0 => left.drops - 1 \in Nat
      BY <3>2
    <3>4. CASE left' = left
      BY <1>0, <3>4
    <3>5. CASE left' = [left EXCEPT !.drops = left.drops - 1] /\ left.drops > 0
      BY <1>0, <3>3, <3>5, ScenarioUsed
    <3>6. QED
      BY <3>1, <3>4, <3>5
  <2>5. unusual' \in Odd
    <3>. DEFINE b == {c}
    <3>1. unusual' = unusual \/ unusual' = [unusual EXCEPT !.blind = @ \cup b]
      BY <1>12 DEF Agents!ReadHistory, Agents!Refetch, Agents!FetchFails
    <3>2. b \in SUBSET Convs
      OBVIOUS
    <3>. HIDE DEF b
    <3>3. QED
      BY <1>0, <3>1, <3>2, OddMarked
  <2>6. \A u \in Tabs : TabOK(tab[u], inbox[u])'
    BY <1>0, <2>2 DEF TabOK
  <2>7. QED
    BY <1>0, <1>1, <2>2, <2>3, <2>4, <2>5, <2>6
<1>16. ASSUME NEW t \in Tabs, Agents!LeaveThread(t) PROVE Agents!TypeOK'
  <2>1. PICK s \in Agents!Tab : /\ tab' = [tab EXCEPT ![t] = s]
                                /\ \A f \in {"up", "open", "call", "ring", "sound"} : s[f] = tab[t][f]
    BY <1>16, LeavesTyped
  <2>2. UNCHANGED <<conv, handlers, joins, history, inbox, presence>>
    BY <1>16 DEF Agents!LeaveThread
  <2>3. left' \in Agents!Scenario
    <3>1. left' = [left EXCEPT !.leaves = left.leaves - 1] /\ left.leaves > 0
      BY <1>16 DEF Agents!LeaveThread
    <3>0. left.leaves \in Nat
      BY <1>0, ScenarioUsed
    <3>2. left.leaves - 1 \in Nat
      BY <3>0, <3>1
    <3>3. QED
      BY <1>0, <3>1, <3>2, ScenarioUsed
  <2>4. unusual' \in Odd
    <3>. DEFINE b == Agents!Shown(t) \cap Agents!UnderWay(t)
    <3>1. unusual' = [unusual EXCEPT !.blind = @ \cup b]
      BY <1>16 DEF Agents!LeaveThread
    <3>2. b \in SUBSET Convs
      BY UnderWayTyped
    <3>. HIDE DEF b
    <3>3. QED
      BY <1>0, <3>1, <3>2
  <2>5. TabOK(tab[t], inbox[t]) /\ \A u \in Tabs, c \in Convs : QueryOK(history[u][c], c)'
    BY <1>0, <2>2 DEF QueryOK
  <2>6. QED
    BY <1>0, <1>8, <2>1, <2>2, <2>3, <2>4, <2>5 DEF TabOK
<1>13. ASSUME NEW t \in Tabs, Agents!RingerEnds(t) \/ Agents!Silence(t) \/ Agents!ToggleSound(t)
       PROVE  Agents!TypeOK'
  <2>1. PICK s \in Agents!Tab :
           /\ tab' = [tab EXCEPT ![t] = s]
           /\ \A f \in {"up", "open", "thread"} : s[f] = tab[t][f]
           /\ ~s.sound => s.ring = 0
    BY <1>13, TabMoves
  <2>2. UNCHANGED <<conv, handlers, joins, history, inbox, presence, unusual>>
    BY <1>13 DEF Agents!RingerEnds, Agents!Silence, Agents!ToggleSound
  <2>3. left' \in Agents!Scenario
    <3>1. left' = left \/ (left' = [left EXCEPT !.switches = left.switches - 1] /\ left.switches > 0)
      BY <1>13 DEF Agents!RingerEnds, Agents!Silence, Agents!ToggleSound
    <3>2. left.switches \in Nat
      BY <1>0, ScenarioUsed
    <3>3. left.switches > 0 => left.switches - 1 \in Nat
      BY <3>2
    <3>4. QED
      <4>1. CASE left' = left
        BY <1>0, <4>1
      <4>2. CASE left' = [left EXCEPT !.switches = left.switches - 1] /\ left.switches > 0
        BY <1>0, <3>3, <4>2, ScenarioUsed
      <4>3. QED
        BY <3>1, <4>1, <4>2
  <2>4. TabOK(tab[t], inbox[t]) /\ \A u \in Tabs, c \in Convs : QueryOK(history[u][c], c)'
    BY <1>0, <2>2 DEF QueryOK
  <2>5. QED
    BY <1>0, <1>8, <2>1, <2>2, <2>3, <2>4 DEF TabOK
<1>14. CASE UNCHANGED Agents!vars
  BY <1>0, <1>1, <1>14 DEF Agents!vars, TabOK, QueryOK
<1>15. QED
  BY <1>2, <1>3, <1>5, <1>6, <1>7, <1>9, <1>10, <1>11, <1>12, <1>13, <1>14, <1>16 DEF Agents!Next

-----------------------------------------------------------------------------
(* The banner and the ringer.                                              *)

\* Whoever has been marked stays marked.
LEMMA OddKept ==
  ASSUME Agents!TypeOK, [Agents!Next]_(Agents!vars)
  PROVE  /\ unusual.blind \subseteq unusual'.blind /\ unusual.late \subseteq unusual'.late
         /\ unusual.joined \subseteq unusual'.joined
         /\ unusual.twice \subseteq unusual'.twice /\ unusual.cut \subseteq unusual'.cut
<1>0. unusual \in [blind : SUBSET Convs, joined : SUBSET Convs, twice : SUBSET Tabs, cut : SUBSET Tabs, late : SUBSET Convs]
  BY DEF Agents!TypeOK
<1>1. ASSUME NEW j \in joins, Agents!TellAssigned(j)
      PROVE  \E b : unusual' = [unusual EXCEPT !.late = @ \cup b]
  BY <1>1 DEF Agents!TellAssigned
<1>2. ASSUME NEW t \in Tabs, Agents!Connect(t) PROVE \E b : unusual' = [unusual EXCEPT !.blind = @ \cup b]
  BY <1>2 DEF Agents!Connect
<1>3. ASSUME NEW t \in Tabs, Agents!Disconnect(t)
      PROVE  \E b, k : /\ k \in {unusual.cut, unusual.cut \cup {t}}
                        /\ unusual' = [unusual EXCEPT !.blind = @ \cup b, !.cut = k]
  <2>. DEFINE k == IF tab[t].ring = 0 /\ inbox[t] = <<>> THEN unusual.cut ELSE unusual.cut \cup {t}
  <2>1. unusual' = [unusual EXCEPT !.blind = @ \cup ({tab[t].open} \ {0}), !.cut = k]
    BY <1>0, <1>3 DEF Agents!Disconnect, Agents!None
  <2>2. k \in {unusual.cut, unusual.cut \cup {t}}
    OBVIOUS
  <2>. HIDE DEF k
  <2>3. QED
    BY <2>1, <2>2
<1>4. ASSUME NEW t \in Tabs, NEW c \in Convs, Agents!OpenConversation(t, c)
      PROVE  \E b, k : unusual' = [unusual EXCEPT !.blind = @ \cup b, !.joined = @ \cup k]
  <2>1. \E s \in Agents!Tab, q \in Agents!Query, b \in SUBSET Convs, k \in SUBSET Convs : OpensAs(t, c, s, q, b, k)
    BY <1>4, Opens
  <2>2. PICK s \in Agents!Tab, q \in Agents!Query, b \in SUBSET Convs, k \in SUBSET Convs : OpensAs(t, c, s, q, b, k)
    BY <2>1
  <2>3. unusual' = [unusual EXCEPT !.blind = @ \cup b, !.joined = @ \cup k]
    BY <2>2 DEF OpensAs
  <2>4. QED
    BY <2>3
<1>5. ASSUME NEW t \in Tabs, Agents!Receive(t)
      PROVE  \E b, k : unusual' = [unusual EXCEPT !.twice = @ \cup b, !.joined = @ \cup k]
  BY <1>5, Zenon DEF Agents!Receive
<1>12. ASSUME NEW t \in Tabs, Agents!LeaveThread(t) PROVE \E b : unusual' = [unusual EXCEPT !.blind = @ \cup b]
  BY <1>12 DEF Agents!LeaveThread
<1>13. ASSUME NEW t \in Tabs, NEW c \in Convs, Agents!FetchFails(t, c)
       PROVE  \E b : unusual' = [unusual EXCEPT !.blind = @ \cup b]
  BY <1>13 DEF Agents!FetchFails
<1>6. CASE \/ \E c \in Convs : Agents!MerchantMessage(c)
           \/ \E p \in handlers : Agents!PersistMessage(p) \/ Agents!Announce(p)
           \/ \E j \in joins : Agents!MarkRead(j) \/ Agents!TellReceived(j) \/ Agents!Assign(j)
           \/ \E t \in Tabs : \/ Agents!RingerEnds(t) \/ Agents!Silence(t) \/ Agents!ToggleSound(t)
                             \/ \E c \in Convs : Agents!ReadHistory(t, c) \/ Agents!Refetch(t, c)
           \/ UNCHANGED Agents!vars
  <2>1. unusual' = unusual
    BY <1>6 DEF Agents!MerchantMessage, Agents!PersistMessage, Agents!Announce, Agents!MarkRead,
       Agents!TellReceived, Agents!Assign, Agents!ReadHistory, Agents!Refetch, Agents!RingerEnds, Agents!Silence,
       Agents!ToggleSound, Agents!vars
  <2>2. QED
    BY <2>1
<1>7. CASE \E j \in joins : Agents!TellAssigned(j)
  BY <1>0, <1>1, <1>7
<1>8. CASE \E t \in Tabs : \/ Agents!Connect(t) \/ Agents!LeaveThread(t)
                           \/ \E c \in Convs : Agents!FetchFails(t, c)
  <2>1. PICK b : unusual' = [unusual EXCEPT !.blind = @ \cup b]
    BY <1>2, <1>8, <1>12, <1>13
  <2>2. QED
    BY <1>0, <2>1
<1>14. CASE \E t \in Tabs, c \in Convs : Agents!OpenConversation(t, c)
  <2>1. PICK b, k : unusual' = [unusual EXCEPT !.blind = @ \cup b, !.joined = @ \cup k]
    BY <1>4, <1>14
  <2>2. QED
    BY <1>0, <2>1
<1>9. CASE \E t \in Tabs : Agents!Disconnect(t)
  <2>1. PICK b, k : unusual.cut \subseteq k /\ unusual' = [unusual EXCEPT !.blind = @ \cup b, !.cut = k]
    BY <1>3, <1>9
  <2>2. QED
    BY <1>0, <2>1
<1>10. CASE \E t \in Tabs : Agents!Receive(t)
  <2>1. PICK b, k : unusual' = [unusual EXCEPT !.twice = @ \cup b, !.joined = @ \cup k]
    BY <1>5, <1>10
  <2>2. QED
    BY <1>0, <2>1
<1>11. QED
  BY <1>6, <1>7, <1>8, <1>9, <1>10, <1>14 DEF Agents!Next

\* A tab rings for the conversation of its banner, and not without a connection; only a second
\* message of a ringing conversation, and a connection lost while it rings, make it otherwise.
BannerInv ==
  \A t \in Tabs : /\ t \notin unusual.twice => tab[t].ring \in {0, tab[t].call}
                  /\ t \notin unusual.cut /\ ~tab[t].up => tab[t].ring = 0

\* No event, click or lost connection makes it otherwise.
LEMMA BannerStep ==
  ASSUME Agents!Numbered
  PROVE  Agents!TypeOK /\ BannerInv /\ [Agents!Next]_(Agents!vars) => BannerInv'
<1>. SUFFICES ASSUME Agents!TypeOK, BannerInv, [Agents!Next]_(Agents!vars) PROVE BannerInv'
  OBVIOUS
<1>0. unusual.twice \subseteq unusual'.twice /\ unusual.cut \subseteq unusual'.cut
  BY OddKept
<1>1. ASSUME NEW t \in Tabs, NEW s \in Agents!Tab, tab' = [tab EXCEPT ![t] = s],
             t \notin unusual'.twice => s.ring \in {0, s.call},
             t \notin unusual'.cut /\ ~s.up => s.ring = 0
      PROVE  BannerInv'
  <2>1. tab'[t] = s /\ \A u \in Tabs \ {t} : tab'[u] = tab[u]
    BY <1>1, TabsTyped
  <2>2. QED
    BY <1>0, <1>1, <2>1 DEF BannerInv
<1>2. ASSUME tab' = tab PROVE BannerInv'
  BY <1>0, <1>2 DEF BannerInv
<1>3. ASSUME NEW t \in Tabs
      PROVE  /\ t \notin unusual'.twice => tab[t].ring \in {0, tab[t].call}
             /\ t \notin unusual'.cut /\ ~tab[t].up => tab[t].ring = 0
             /\ tab[t].up \in BOOLEAN /\ tab[t] \in Agents!Tab
  BY <1>0 DEF BannerInv, Agents!TypeOK, Agents!Tab
<1>4. ASSUME NEW t \in Tabs, Agents!Connect(t) \/ Agents!Disconnect(t) PROVE BannerInv'
  <2>1. PICK s \in Agents!Tab : /\ tab' = [tab EXCEPT ![t] = s] /\ s.up = ~tab[t].up
                                /\ \A f \in {"open", "thread", "call", "ring", "sound"} : s[f] = tab[t][f]
    BY <1>4, ConnectionMoves
  <2>2. Agents!Disconnect(t) => t \in unusual'.cut \/ tab[t].ring = 0
    BY DEF Agents!Disconnect, Agents!TypeOK, Agents!None
  <2>3. Agents!Connect(t) => ~tab[t].up
    BY DEF Agents!Connect
  <2>4. QED
    BY <1>1, <1>3, <1>4, <2>1, <2>2, <2>3
<1>5. ASSUME NEW t \in Tabs, (\E c \in Convs : Agents!OpenConversation(t, c)) \/ Agents!LeaveThread(t) PROVE BannerInv'
  <2>1. PICK s \in Agents!Tab :
           /\ tab' = [tab EXCEPT ![t] = s]
           /\ \A f \in {"up", "sound"} : s[f] = tab[t][f]
           /\ \/ s.ring = 0 /\ s.call = 0
              \/ s.ring = tab[t].ring /\ s.call = tab[t].call
    BY <1>5, OpensTyped, LeavesTyped
  <2>2. QED
    BY <1>1, <1>3, <2>1
<1>6. ASSUME NEW t \in Tabs, Agents!RingerEnds(t) \/ Agents!Silence(t) \/ Agents!ToggleSound(t) PROVE BannerInv'
  <2>1. PICK s \in Agents!Tab :
           /\ tab' = [tab EXCEPT ![t] = s]
           /\ \A f \in {"up", "open", "thread"} : s[f] = tab[t][f]
           /\ s.ring = 0 \/ (s.ring = tab[t].ring /\ s.call = tab[t].call)
    BY <1>6, TabMoves
  <2>2. QED
    BY <1>1, <1>3, <2>1
<1>8. ASSUME NEW t \in Tabs, Agents!Receive(t) PROVE BannerInv'
  <2>. DEFINE r == tab[t]  event == Head(inbox[t])  s == Agents!Heard(r, event)
  <2>1. event \in Agents!Event /\ tab' = [tab EXCEPT ![t] = s]
    BY <1>8, Receives
  <2>2. r \in Agents!Tab /\ r.up /\ 0 \notin Convs
    <3>1. inbox[t] # <<>>
      BY <1>8 DEF Agents!Receive
    <3>2. QED
      BY <1>3, <3>1 DEF Agents!TypeOK, Agents!Numbered, Agents!None
  <2>3. event.kind \in {"incoming", "taken"}
    BY <2>1 DEF Agents!Event
  <2>4. event.kind = "incoming" /\ event.isNew /\ r.ring = event.conv => t \in unusual'.twice
    <3>1. PICK k : unusual' = [unusual EXCEPT !.twice = @ \cup Agents!Rung(t, event), !.joined = @ \cup k]
      BY <1>8, Receives
    <3>2. event.kind = "incoming" /\ event.isNew /\ r.ring = event.conv => t \in Agents!Rung(t, event)
      BY DEF Agents!Rung
    <3>. HIDE DEF event, r, s
    <3>3. QED
      BY <3>1, <3>2 DEF Agents!TypeOK
  <2>5. t \notin unusual'.twice => r.ring \in {0, r.call}
    BY <1>3
  <2>. HIDE DEF s, r, event
  <2>6. s \in Agents!Tab /\ s.up
    BY <2>1, <2>2, HeardTyped DEF s
  <2>7. t \notin unusual'.twice => s.ring \in {0, s.call}
    <3>1. CASE event.kind = "taken"
      BY <2>1, <2>2, <2>5, <3>1, HeardTyped DEF s
    <3>2. CASE event.kind = "incoming" /\ ~event.isNew
      BY <2>1, <2>2, <2>5, <3>2, HeardTyped DEF s
    <3>3. CASE event.kind = "incoming" /\ event.isNew
      BY <2>1, <2>2, <2>4, <2>5, <3>3, HeardTyped DEF s
    <3>4. QED
      BY <2>3, <3>1, <3>2, <3>3
  <2>8. QED
    BY <1>1, <2>1, <2>6, <2>7
<1>9. CASE \/ \E c \in Convs : Agents!MerchantMessage(c)
           \/ \E p \in handlers : Agents!PersistMessage(p) \/ Agents!Announce(p)
           \/ \E j \in joins : Agents!MarkRead(j) \/ Agents!TellReceived(j) \/ Agents!Assign(j) \/ Agents!TellAssigned(j)
           \/ \E t \in Tabs, c \in Convs :
                Agents!ReadHistory(t, c) \/ Agents!Refetch(t, c) \/ Agents!FetchFails(t, c)
           \/ UNCHANGED Agents!vars
  <2>1. tab' = tab
    BY <1>9 DEF Agents!MerchantMessage, Agents!PersistMessage, Agents!Announce, Agents!MarkRead,
       Agents!TellReceived, Agents!Assign, Agents!TellAssigned, Agents!ReadHistory, Agents!Refetch,
       Agents!FetchFails, Agents!vars
  <2>2. QED
    BY <1>2, <2>1
<1>10. QED
  BY <1>4, <1>5, <1>6, <1>8, <1>9 DEF Agents!Next

-----------------------------------------------------------------------------
(* What has been read has been fetched.                                    *)

\* A message of the conversation is on its way in the inbox.
Rings(s, c) == \E i \in 1 .. Len(s) : s[i].kind = "incoming" /\ s[i].conv = c

\* A message that is in the inbox stays in it until it is received.
LEMMA RingsKept ==
  ASSUME NEW s \in Seq(Agents!Event), NEW e \in Agents!Event, NEW c
  PROVE  /\ Rings(s, c) => Rings(Append(s, e), c)
         /\ e.kind = "incoming" /\ e.conv = c => Rings(Append(s, e), c)
         /\ s # <<>> /\ Rings(s, c) => Rings(Tail(s), c) \/ (Head(s).kind = "incoming" /\ Head(s).conv = c)
<1>1. Len(s) \in Nat /\ Len(Append(s, e)) = Len(s) + 1 /\ Append(s, e)[Len(s) + 1] = e
      /\ \A i \in 1 .. Len(s) : Append(s, e)[i] = s[i]
  BY AppendProperties, LenProperties
<1>2. Rings(s, c) => Rings(Append(s, e), c)
  BY <1>1 DEF Rings
<1>3. e.kind = "incoming" /\ e.conv = c => Rings(Append(s, e), c)
  BY <1>1 DEF Rings
<1>4. ASSUME s # <<>>, Rings(s, c)
      PROVE  Rings(Tail(s), c) \/ (Head(s).kind = "incoming" /\ Head(s).conv = c)
  <2>1. PICK i \in 1 .. Len(s) : s[i].kind = "incoming" /\ s[i].conv = c
    BY <1>4 DEF Rings
  <2>2. /\ Len(Tail(s)) = Len(s) - 1 /\ Head(s) = s[1]
        /\ \A k \in 1 .. Len(s) - 1 : Tail(s)[k] = s[k + 1]
    BY <1>4, HeadTailProperties
  <2>3. CASE i = 1
    BY <2>1, <2>2, <2>3
  <2>4. CASE i # 1
    <3>1. i - 1 \in 1 .. Len(s) - 1 /\ (i - 1) + 1 = i
      BY <1>1, <2>4
    <3>2. Tail(s)[i - 1] = s[i]
      BY <2>2, <3>1
    <3>3. QED
      BY <2>1, <2>2, <3>1, <3>2 DEF Rings
  <2>5. QED
    BY <2>3, <2>4
<1>5. QED
  BY <1>2, <1>3, <1>4

\* The tab shows the conversation, and has a connection.
Opened(t, c) == tab[t].up /\ tab[t].open = c /\ tab[t].thread
\* A message of the conversation will make a tab that shows it ask.
Held(t, c) == (\E p \in handlers : p.conv = c /\ p.stored) \/ Rings(inbox[t], c)

\* The tab has fetched the first n messages of c, or is going to.
Fetches(t, c, n) == Brings(history[t][c], n) \/ (Opened(t, c) /\ Held(t, c))

\* The messages that are counted as read are fetched by some tab, a tab that shows a conversation
\* fetches all of its messages, and markRead is for a conversation that its tab shows.
ReadOf(c) ==
  /\ \/ conv[c].unread = conv[c].posted
     \/ \E t \in Tabs : Fetches(t, c, conv[c].posted - conv[c].unread)
  /\ \A t \in Tabs : Opened(t, c) => Fetches(t, c, conv[c].posted)
  /\ \A j \in joins : j.conv = c => Opened(j.tab, c)

\* So it is with every conversation that nobody was cut off from, or left while something was
\* under way, and whose request was not joined after it had missed a message.
ReadInv == \A c \in Convs \ (unusual.blind \cup unusual.joined) : ReadOf(c)

\* A step that leaves the rows alone, and with which no tab fetches less or shows more.
LEMMA ReadKept ==
  ASSUME Agents!TypeOK, NEW c \in Convs, ReadOf(c),
         conv'[c].posted = conv[c].posted, conv'[c].unread = conv[c].unread,
         \A t \in Tabs, n \in Nat : n <= conv[c].posted /\ Fetches(t, c, n) => Fetches(t, c, n)',
         \A t \in Tabs : Opened(t, c)' => Opened(t, c) \/ Brings(history'[t][c], conv[c].posted),
         \A j \in joins' : j.conv = c => Opened(j.tab, c)'
  PROVE  ReadOf(c)'
<1>1. conv[c].posted \in Nat /\ conv[c].unread \in Nat /\ conv[c].unread <= conv[c].posted
  BY DEF Agents!TypeOK, Agents!Conversation
<1>2. \/ conv'[c].unread = conv'[c].posted
      \/ \E t \in Tabs : Fetches(t, c, conv[c].posted - conv[c].unread)'
  <2>1. PICK n \in Nat : n = conv[c].posted - conv[c].unread /\ n <= conv[c].posted
    BY <1>1
  <2>2. CASE conv[c].unread = conv[c].posted
    BY <2>2
  <2>3. CASE conv[c].unread # conv[c].posted
    <3>1. PICK t \in Tabs : Fetches(t, c, n)
      BY <2>1, <2>3 DEF ReadOf
    <3>2. Fetches(t, c, n)'
      BY <2>1, <3>1
    <3>3. conv'[c].posted - conv'[c].unread = n
      BY <2>1
    <3>4. QED
      BY <3>2, <3>3 DEF Fetches, Brings, Opened, Held
  <2>4. QED
    BY <2>2, <2>3
<1>3. ASSUME NEW t \in Tabs, Opened(t, c)' PROVE Fetches(t, c, conv[c].posted)'
  <2>1. CASE Brings(history'[t][c], conv[c].posted)
    BY <2>1 DEF Fetches, Brings
  <2>2. CASE Opened(t, c)
    <3>1. PICK n \in Nat : n = conv[c].posted
      BY <1>1
    <3>2. Fetches(t, c, n)
      BY <2>2, <3>1 DEF ReadOf
    <3>3. Fetches(t, c, n)'
      BY <3>1, <3>2
    <3>4. conv'[c].posted = n
      BY <3>1
    <3>5. QED
      BY <3>3, <3>4 DEF Fetches, Brings, Opened, Held
  <2>3. QED
    BY <1>3, <2>1, <2>2
<1>4. QED
  BY <1>2, <1>3 DEF ReadOf

\* The tabs stay as they are, their queries bring no less, and those that show the conversation
\* are still told.
LEMMA ReadKeptByTabs ==
  ASSUME Agents!TypeOK, NEW c \in Convs, ReadOf(c), tab' = tab,
         \A t \in Tabs, n \in Nat : n <= conv[c].posted /\ Brings(history[t][c], n) => Brings(history'[t][c], n),
         conv'[c].posted = conv[c].posted, conv'[c].unread = conv[c].unread,
         \A t \in Tabs : tab[t].up /\ Held(t, c) => Held(t, c)',
         \A j \in joins' : j.conv = c => \E k \in joins : k.tab = j.tab /\ k.conv = c
  PROVE  ReadOf(c)'
<1>1. \A t \in Tabs, n \in Nat : n <= conv[c].posted /\ Fetches(t, c, n) => Fetches(t, c, n)'
  <2>1. ASSUME NEW t \in Tabs, NEW n \in Nat, n <= conv[c].posted, Fetches(t, c, n)
        PROVE  Brings(history'[t][c], n) \/ (Opened(t, c)' /\ Held(t, c)')
    BY <2>1 DEF Fetches, Opened
  <2>2. QED
    BY <2>1 DEF Fetches, Brings
<1>2. \A t \in Tabs : Opened(t, c)' => Opened(t, c)
  BY DEF Opened
<1>3. \A j \in joins' : j.conv = c => Opened(j.tab, c)'
  BY DEF ReadOf, Opened
<1>4. QED
  BY <1>1, <1>2, <1>3, ReadKept

\* Only the tab changes, and becomes s, with which it fetches no less of c.
OneTab(t, c, s) ==
  /\ conv' = conv
  /\ tab' = [tab EXCEPT ![t] = s]
  /\ \A u \in Tabs \ {t} : history'[u][c] = history[u][c]
  /\ \A n \in Nat : n <= conv[c].posted /\ Fetches(t, c, n) =>
       Brings(history'[t][c], n) \/ (s.up /\ s.open = c /\ s.thread /\ Held(t, c)')
  /\ s.up /\ s.open = c /\ s.thread => Opened(t, c) \/ Brings(history'[t][c], conv[c].posted)
  /\ \A u \in Tabs \ {t} : Held(u, c) => Held(u, c)'
  /\ \A j \in joins' : j.conv = c => IF j.tab = t THEN s.up /\ s.open = c /\ s.thread
                                      ELSE \E k \in joins : k.tab = j.tab /\ k.conv = c

\* One tab changes.
LEMMA ReadKeptByOthers ==
  ASSUME Agents!TypeOK, NEW c \in Convs, ReadOf(c), NEW t \in Tabs, NEW s \in Agents!Tab, OneTab(t, c, s)
  PROVE  ReadOf(c)'
<1>5. tab' = [tab EXCEPT ![t] = s]
  BY DEF OneTab
<1>0. tab'[t] = s /\ \A u \in Tabs \ {t} : tab'[u] = tab[u]
  BY <1>5, TabsTyped
<1>1. ASSUME NEW u \in Tabs, NEW n \in Nat, n <= conv[c].posted, Fetches(u, c, n) PROVE Fetches(u, c, n)'
  <2>1. Brings(history'[u][c], n) \/ (Opened(u, c)' /\ Held(u, c)')
    <3>1. CASE u = t
      BY <1>0, <1>1, <3>1 DEF Opened, OneTab
    <3>2. CASE u # t
      BY <1>0, <1>1, <3>2 DEF Fetches, Opened, OneTab
    <3>3. QED
      BY <3>1, <3>2
  <2>2. QED
    BY <2>1 DEF Fetches, Brings
<1>2. \A u \in Tabs : Opened(u, c)' => Opened(u, c) \/ Brings(history'[u][c], conv[c].posted)
  BY <1>0 DEF Opened, OneTab
<1>3. ASSUME NEW j \in joins', j.conv = c PROVE Opened(j.tab, c)'
  <2>1. CASE j.tab = t
    BY <1>0, <1>3, <2>1 DEF Opened, OneTab
  <2>2. CASE j.tab # t
    <3>1. PICK k \in joins : k.tab = j.tab /\ k.conv = c
      BY <1>3, <2>2 DEF OneTab
    <3>2. Opened(j.tab, c) /\ j.tab \in Tabs
      BY <3>1 DEF ReadOf, Agents!TypeOK, Agents!Join
    <3>3. QED
      BY <1>0, <2>2, <3>2 DEF Opened
  <2>3. QED
    BY <2>1, <2>2
<1>6. conv'[c].posted = conv[c].posted /\ conv'[c].unread = conv[c].unread
  BY DEF OneTab
<1>4. QED
  BY <1>1, <1>2, <1>3, <1>6, ReadKept

\* A message that is told is in the inbox of every tab that is connected.
LEMMA ToldRings ==
  ASSUME Agents!TypeOK, NEW event \in Agents!Event, inbox' = Agents!Told(event), NEW c, NEW t \in Tabs
  PROVE  /\ Rings(inbox[t], c) => Rings(inbox'[t], c)
         /\ tab[t].up /\ event.kind = "incoming" /\ event.conv = c => Rings(inbox'[t], c)
<1>1. inbox'[t] = (IF tab[t].up THEN Append(inbox[t], event) ELSE inbox[t]) /\ inbox[t] \in Seq(Agents!Event)
  BY ToldTyped DEF Agents!TypeOK
<1>2. QED
  BY <1>1, RingsKept

\* A conversation that the tab shows, and of which nothing is under way.
LEMMA NothingUnderWay ==
  ASSUME Agents!TypeOK, NEW t \in Tabs, NEW c \in Convs, Opened(t, c), NEW b,
         Agents!Shown(t) \cap Agents!UnderWay(t) \subseteq b, c \notin b
  PROVE  ~Held(t, c) /\ \A j \in joins : j.conv # c
<1>. DEFINE all == handlers \cup joins \cup Agents!ToSet(inbox[t])
<1>1. Agents!UnderWay(t) = {x.conv : x \in all}
  BY Zenon DEF Agents!UnderWay
<1>2. \A x \in all : x.conv # c
  <2>. HIDE DEF all
  <2>1. c \in Agents!Shown(t)
    BY DEF Opened, Agents!Shown
  <2>2. QED
    BY <1>1, <2>1
<1>3. \A i \in 1 .. Len(inbox[t]) : inbox[t][i].conv # c
  <2>1. DOMAIN inbox[t] = 1 .. Len(inbox[t])
    BY LenProperties DEF Agents!TypeOK
  <2>2. QED
    BY <1>2, <2>1 DEF Agents!ToSet
<1>4. QED
  BY <1>2, <1>3 DEF Held, Rings

\* No message, opening, request, answer or join breaks that.
LEMMA ReadStep ==
  ASSUME Agents!Numbered
  PROVE  Agents!TypeOK /\ ReadInv /\ [Agents!Next]_(Agents!vars) => ReadInv'
<1>. SUFFICES ASSUME Agents!TypeOK, ReadInv, [Agents!Next]_(Agents!vars), NEW c \in Convs,
                    c \notin unusual'.blind, c \notin unusual'.joined
             PROVE  ReadOf(c)'
  BY DEF ReadInv
<1>0. ReadOf(c) /\ c # 0
  BY OddKept DEF ReadInv, Agents!Numbered, Agents!None
<1>1. /\ handlers \in SUBSET Agents!Post /\ joins \in SUBSET Agents!Join /\ tab \in [Tabs -> Agents!Tab]
      /\ conv \in [Convs -> Agents!Conversation] /\ inbox \in [Tabs -> Seq(Agents!Event)]
      /\ conv[c].posted \in Nat /\ conv[c].unread \in Nat
  BY DEF Agents!TypeOK, Agents!Conversation
<1>2. ASSUME NEW d \in Convs, Agents!MerchantMessage(d) PROVE ReadOf(c)'
  <2>1. handlers \subseteq handlers' /\ UNCHANGED <<conv, tab, history, inbox, joins>>
    BY <1>2 DEF Agents!MerchantMessage
  <2>2. \A t \in Tabs : Held(t, c) => Held(t, c)'
    BY <2>1 DEF Held
  <2>3. QED
    BY <1>0, <2>1, <2>2, ReadKeptByTabs
<1>3. ASSUME NEW p \in handlers, Agents!PersistMessage(p) PROVE ReadOf(c)'
  <2>1. /\ ~p.stored /\ p.conv \in Convs
        /\ conv' = [conv EXCEPT ![p.conv].posted = @ + 1, ![p.conv].unread = @ + 1]
        /\ handlers' = (handlers \ {p}) \cup {[p EXCEPT !.stored = TRUE]}
        /\ UNCHANGED <<tab, history, inbox, joins>>
    BY <1>1, <1>3 DEF Agents!PersistMessage, Agents!Post
  <2>2. CASE p.conv # c
    <3>1. conv'[c] = conv[c]
      BY <1>1, <2>1, <2>2
    <3>2. \A t \in Tabs : Held(t, c) => Held(t, c)'
      BY <2>1 DEF Held
    <3>3. QED
      BY <1>0, <2>1, <3>1, <3>2, ReadKeptByTabs
  <2>3. CASE p.conv = c
    <3>1. [p EXCEPT !.stored = TRUE].stored /\ [p EXCEPT !.stored = TRUE].conv = c
      BY <1>1, <2>3 DEF Agents!Post
    <3>2. \A t \in Tabs : Held(t, c)'
      BY <2>1, <3>1 DEF Held
    <3>3. conv'[c].posted = conv[c].posted + 1 /\ conv'[c].unread = conv[c].unread + 1
      <4>. DEFINE n == conv[c].posted + 1  m == conv[c].unread + 1
      <4>1. conv' = [conv EXCEPT ![c] = [conv[c] EXCEPT !.posted = n, !.unread = m]]
        BY <1>1, <2>1, <2>3
      <4>. HIDE DEF n, m
      <4>2. conv'[c].posted = n /\ conv'[c].unread = m
        BY <1>1, <4>1 DEF Agents!Conversation
      <4>3. QED
        BY <4>2 DEF n, m
    <3>4. conv'[c].unread = conv'[c].posted \/ \E t \in Tabs : Fetches(t, c, conv[c].posted - conv[c].unread)'
      <4>5. \A x, y \in Nat : (x + 1) - (y + 1) = x - y
        OBVIOUS
      <4>0. conv'[c].posted - conv'[c].unread = conv[c].posted - conv[c].unread
        BY <1>1, <3>3, <4>5
      <4>1. PICK n : n = conv[c].posted - conv[c].unread /\ n = conv'[c].posted - conv'[c].unread
        BY <4>0
      <4>2. CASE conv[c].unread = conv[c].posted
        BY <3>3, <4>2
      <4>3. CASE conv[c].unread # conv[c].posted
        <5>1. PICK t \in Tabs : Fetches(t, c, n)
          BY <1>0, <4>1, <4>3 DEF ReadOf
        <5>2. Brings(history'[t][c], n) \/ (Opened(t, c)' /\ Held(t, c)')
          BY <2>1, <3>2, <5>1 DEF Fetches, Opened
        <5>3. QED
          BY <4>1, <5>2 DEF Fetches, Brings
      <4>4. QED
        BY <4>2, <4>3
    <3>5. \A t \in Tabs : Opened(t, c)' => Fetches(t, c, conv[c].posted)'
      BY <3>2 DEF Fetches
    <3>6. \A j \in joins' : j.conv = c => Opened(j.tab, c)'
      BY <1>0, <2>1 DEF ReadOf, Opened
    <3>7. QED
      BY <3>4, <3>5, <3>6 DEF ReadOf
  <2>4. QED
    BY <2>2, <2>3
<1>4. ASSUME NEW p \in handlers, Agents!Announce(p) PROVE ReadOf(c)'
  <2>. DEFINE event == [kind |-> "incoming", conv |-> p.conv, isNew |-> p.isNew]
  <2>1. event \in Agents!Event /\ event.kind = "incoming" /\ event.conv = p.conv
    BY <1>1 DEF Agents!Event, Agents!Post
  <2>2. inbox' = Agents!Told(event) /\ handlers' = handlers \ {p} /\ UNCHANGED <<conv, tab, history, joins>>
    BY <1>4 DEF Agents!Announce
  <2>. HIDE DEF event
  <2>3. \A t \in Tabs : tab[t].up /\ Held(t, c) => Held(t, c)'
    BY <2>1, <2>2, ToldRings DEF Held
  <2>4. QED
    BY <1>0, <2>2, <2>3, ReadKeptByTabs
<1>5. ASSUME NEW j \in joins, Agents!MarkRead(j) PROVE ReadOf(c)'
  <2>0. \A k \in joins' : k.conv = c => \E l \in joins : l.tab = k.tab /\ l.conv = c
    BY <1>5, JoinGoes
  <2>1. conv' = [conv EXCEPT ![j.conv].unread = 0] /\ UNCHANGED <<handlers, tab, history, inbox>> /\ j.conv \in Convs
    BY <1>1, <1>5 DEF Agents!MarkRead, Agents!Join
  <2>2. \A t \in Tabs : Held(t, c) => Held(t, c)'
    BY <2>1 DEF Held
  <2>3. CASE j.conv # c
    <3>1. conv'[c] = conv[c]
      BY <1>1, <2>1, <2>3
    <3>2. QED
      BY <1>0, <2>0, <2>1, <2>2, <3>1, ReadKeptByTabs
  <2>4. CASE j.conv = c
    <3>1. conv'[c].posted = conv[c].posted /\ conv'[c].unread = 0
      BY <1>1, <2>1, <2>4 DEF Agents!Conversation
    <3>2. PICK n \in Nat : n = conv[c].posted
      BY <1>1
    <3>3. \A t \in Tabs : Opened(t, c) => Fetches(t, c, n)
      BY <1>0, <3>2 DEF ReadOf
    <3>4. \A t \in Tabs : Opened(t, c) => Brings(history'[t][c], n) \/ (Opened(t, c)' /\ Held(t, c)')
      BY <2>1, <2>2, <3>3 DEF Fetches, Opened
    <3>5. \A t \in Tabs : Opened(t, c)' => Opened(t, c)
      BY <2>1 DEF Opened
    <3>6. Opened(j.tab, c) /\ j.tab \in Tabs
      BY <1>0, <1>1, <2>4 DEF ReadOf, Agents!Join
    <3>7. conv'[c].posted = n /\ conv'[c].posted - conv'[c].unread = n
      BY <3>1, <3>2
    <3>8. \A k \in joins' : k.conv = c => Opened(k.tab, c)'
      BY <1>0, <2>0, <2>1 DEF ReadOf, Opened
    <3>9. \A t \in Tabs : Opened(t, c)' => Fetches(t, c, conv[c].posted)'
      BY <3>4, <3>5, <3>7 DEF Fetches, Brings
    <3>10. \E t \in Tabs : Fetches(t, c, conv[c].posted - conv[c].unread)'
      BY <3>4, <3>6, <3>7 DEF Fetches, Brings
    <3>11. QED
      BY <3>8, <3>9, <3>10 DEF ReadOf
  <2>5. QED
    BY <2>3, <2>4
<1>6. ASSUME NEW j \in joins, Agents!Assign(j) PROVE ReadOf(c)'
  <2>1. conv' = [conv EXCEPT ![j.conv].assigned = TRUE] /\ UNCHANGED <<handlers, tab, history, inbox>>
    BY <1>6 DEF Agents!Assign
  <2>2. conv'[c].posted = conv[c].posted /\ conv'[c].unread = conv[c].unread
    BY <1>1, <2>1 DEF Agents!Conversation
  <2>3. \A t \in Tabs : Held(t, c) => Held(t, c)'
    BY <2>1 DEF Held
  <2>4. \A k \in joins' : k.conv = c => \E l \in joins : l.tab = k.tab /\ l.conv = c
    BY <1>6, JoinGoes
  <2>5. QED
    BY <1>0, <2>1, <2>2, <2>3, <2>4, ReadKeptByTabs
<1>7. ASSUME NEW j \in joins, Agents!TellReceived(j) \/ Agents!TellAssigned(j) PROVE ReadOf(c)'
  <2>. DEFINE told(again) == [kind |-> "taken", conv |-> j.conv, again |-> again]
  <2>1. PICK event : event \in Agents!Event /\ inbox' = Agents!Told(event)
    <3>1. \A again \in BOOLEAN : told(again) \in Agents!Event
      BY <1>1 DEF Agents!Event, Agents!Join
    <3>2. PICK again \in BOOLEAN : inbox' = Agents!Told(told(again))
      BY <1>7 DEF Agents!TellReceived, Agents!TellAssigned
    <3>. HIDE DEF told
    <3>3. QED
      BY <3>1, <3>2
  <2>2. UNCHANGED <<conv, tab, history, handlers>>
    BY <1>7 DEF Agents!TellReceived, Agents!TellAssigned
  <2>3. \A t \in Tabs : Held(t, c) => Held(t, c)'
    BY <2>1, <2>2, ToldRings DEF Held
  <2>4. \A k \in joins' : k.conv = c => \E l \in joins : l.tab = k.tab /\ l.conv = c
    BY <1>7, JoinGoes
  <2>5. QED
    BY <1>0, <2>2, <2>3, <2>4, ReadKeptByTabs
<1>8. ASSUME NEW t \in Tabs, Agents!Connect(t) PROVE ReadOf(c)'
  <2>1. PICK s \in Agents!Tab : /\ tab' = [tab EXCEPT ![t] = s]
                                /\ \A f \in {"open", "thread", "call", "ring", "sound"} : s[f] = tab[t][f]
    BY <1>8, ConnectionMoves
  <2>2. tab[t].open # c
    BY <1>0, <1>8 DEF Agents!Connect, Agents!TypeOK, Agents!None
  <2>3. conv' = conv /\ handlers' = handlers /\ inbox' = inbox /\ history' = history
    BY <1>8 DEF Agents!Connect
  <2>4. \A j \in joins' : j.conv = c => j \in joins /\ j.tab # t
    <3>1. \A j \in joins' : j \in joins \/ j.conv = tab[t].open
      BY <1>8 DEF Agents!Connect, Agents!Joining
    <3>2. QED
      BY <1>0, <2>2, <3>1 DEF ReadOf, Opened
  <2>5. \A u \in Tabs : Held(u, c) => Held(u, c)'
    BY <2>3 DEF Held
  <2>6. \A n \in Nat : Fetches(t, c, n) => Brings(history'[t][c], n)
    BY <2>2, <2>3 DEF Fetches, Opened
  <2>20. OneTab(t, c, s)
    BY <1>0, <2>1, <2>2, <2>3, <2>4, <2>5, <2>6 DEF OneTab
  <2>7. QED
    BY <1>0, <2>1, <2>20, ReadKeptByOthers
<1>9. ASSUME NEW t \in Tabs, Agents!Disconnect(t) PROVE ReadOf(c)'
  <2>1. PICK s \in Agents!Tab : /\ tab' = [tab EXCEPT ![t] = s]
                                /\ \A f \in {"open", "thread", "call", "ring", "sound"} : s[f] = tab[t][f]
    BY <1>9, ConnectionMoves
  <2>2. tab[t].open # c
    <3>1. PICK k : unusual' = [unusual EXCEPT !.blind = @ \cup ({tab[t].open} \ {0}), !.cut = k]
      BY <1>9 DEF Agents!Disconnect, Agents!None
    <3>2. QED
      BY <1>0, <3>1 DEF Agents!TypeOK
  <2>3. conv' = conv /\ handlers' = handlers /\ joins' = joins /\ inbox' = [inbox EXCEPT ![t] = <<>>] /\ history' = history
    BY <1>9 DEF Agents!Disconnect
  <2>4. \A j \in joins' : j.conv = c => j \in joins /\ j.tab # t
    BY <1>0, <2>2, <2>3 DEF ReadOf, Opened
  <2>5. \A u \in Tabs \ {t} : Held(u, c) => Held(u, c)'
    BY <1>1, <2>3 DEF Held
  <2>6. \A n \in Nat : Fetches(t, c, n) => Brings(history'[t][c], n)
    BY <2>2, <2>3 DEF Fetches, Opened
  <2>20. OneTab(t, c, s)
    BY <1>0, <2>1, <2>2, <2>3, <2>4, <2>5, <2>6 DEF OneTab
  <2>7. QED
    BY <1>0, <2>1, <2>20, ReadKeptByOthers
<1>10. ASSUME NEW t \in Tabs, NEW d \in Convs, Agents!OpenConversation(t, d) PROVE ReadOf(c)'
  <2>0. \E s \in Agents!Tab, q \in Agents!Query, b \in SUBSET Convs, k \in SUBSET Convs : OpensAs(t, d, s, q, b, k)
    BY <1>10, Opens
  <2>1. PICK s \in Agents!Tab, q \in Agents!Query, b \in SUBSET Convs, k \in SUBSET Convs : OpensAs(t, d, s, q, b, k)
    BY <2>0
  <2>2. /\ conv' = conv /\ handlers' = handlers /\ inbox' = inbox /\ d \notin Agents!Shown(t)
        /\ joins' = IF tab[t].up THEN joins \cup Agents!Joining(t, d) ELSE joins
    BY <1>10 DEF Agents!OpenConversation
  <2>3. \A u \in Tabs : Held(u, c) => Held(u, c)'
    BY <2>2 DEF Held
  <2>4. \A j \in joins' : j \in joins \/ (j.tab = t /\ j.conv = d /\ tab[t].up)
    BY <2>2 DEF Agents!Joining
  <2>5. /\ tab' = [tab EXCEPT ![t] = s] /\ s.open = d /\ s.up = tab[t].up
        /\ Agents!Shown(t) \cap Agents!UnderWay(t) \subseteq b
    BY <2>1 DEF OpensAs
  <2>6. c \notin b /\ c \notin k
    <3>1. unusual' = [unusual EXCEPT !.blind = @ \cup b, !.joined = @ \cup k]
      BY <2>1 DEF OpensAs
    <3>2. QED
      BY <3>1 DEF Agents!TypeOK
  <2>7. /\ history'[t][d] = q
        /\ \A u \in Tabs, e \in Convs : u # t \/ e # d => history'[u][e] = history[u][e]
    <3>1. history' = [history EXCEPT ![t][d] = q]
      BY <2>1 DEF OpensAs
    <3>2. QED
      BY <3>1 DEF Agents!TypeOK
  <2>8. CASE d = c
    <3>0. Brings(q, conv[c].posted) /\ s.thread
      BY <2>1, <2>6, <2>8 DEF OpensAs
    <3>1. \A j \in joins : j.conv = c => j.tab # t
      BY <1>0, <2>2, <2>8 DEF ReadOf, Opened, Agents!Shown
    <3>2. \A j \in joins' : j.conv = c => IF j.tab = t THEN s.up /\ s.open = c /\ s.thread
                                          ELSE \E i \in joins : i.tab = j.tab /\ i.conv = c
      BY <2>4, <2>5, <2>8, <3>0, <3>1
    <3>3. \A n \in Nat : n <= conv[c].posted => Brings(q, n)
      BY <1>1, <3>0 DEF Brings, Agents!Query
    <3>4. QED
      <4>1. Brings(history'[t][c], conv[c].posted) /\ \A u \in Tabs \ {t} : Held(u, c) => Held(u, c)'
        BY <2>3, <2>7, <2>8, <3>0
      <4>2. \A n \in Nat : n <= conv[c].posted /\ Fetches(t, c, n) =>
              Brings(history'[t][c], n) \/ (s.up /\ s.open = c /\ s.thread /\ Held(t, c)')
        BY <2>7, <2>8, <3>3
      <4>3. conv' = conv /\ tab' = [tab EXCEPT ![t] = s] /\ \A u \in Tabs \ {t} : history'[u][c] = history[u][c]
        BY <2>2, <2>5, <2>7
      <4>4. conv' = conv /\ tab' = [tab EXCEPT ![t] = s]
        BY <4>3
      <4>5. \A u \in Tabs \ {t} : history'[u][c] = history[u][c]
        BY <4>3
      <4>6. s.up /\ s.open = c /\ s.thread => Opened(t, c) \/ Brings(history'[t][c], conv[c].posted)
        BY <4>1
      <4>7. \A u \in Tabs \ {t} : Held(u, c) => Held(u, c)'
        BY <4>1
      <4>20. OneTab(t, c, s)
        BY <1>0, <2>1, <3>2, <4>2, <4>4, <4>5, <4>6, <4>7 DEF OneTab
      <4>8. QED
        BY <1>0, <2>1, <4>20, ReadKeptByOthers
  <2>9. CASE d # c
    <3>1. Opened(t, c) => ~Held(t, c) /\ \A j \in joins : j.conv # c
      BY <2>5, <2>6, NothingUnderWay
    <3>2. history'[t][c] = history[t][c]
      BY <2>7, <2>9
    <3>3. \A n \in Nat : Fetches(t, c, n) => Brings(history'[t][c], n)
      BY <3>1, <3>2 DEF Fetches
    <3>4. \A j \in joins : j.conv = c => j.tab # t
      BY <1>0, <3>1 DEF ReadOf
    <3>5. \A j \in joins' : j.conv = c => j \in joins /\ j.tab # t
      BY <2>4, <2>9, <3>4
    <3>6. QED
      <4>1. s.open # c /\ \A u \in Tabs \ {t} : Held(u, c) => Held(u, c)'
        BY <2>3, <2>5, <2>9
      <4>2. \A n \in Nat : n <= conv[c].posted /\ Fetches(t, c, n) =>
              Brings(history'[t][c], n) \/ (s.up /\ s.open = c /\ s.thread /\ Held(t, c)')
        BY <3>3
      <4>3. \A j \in joins' : j.conv = c => IF j.tab = t THEN s.up /\ s.open = c /\ s.thread
                                            ELSE \E i \in joins : i.tab = j.tab /\ i.conv = c
        BY <3>5
      <4>4. conv' = conv /\ tab' = [tab EXCEPT ![t] = s] /\ \A u \in Tabs \ {t} : history'[u][c] = history[u][c]
        BY <2>2, <2>5, <2>7
      <4>5. conv' = conv /\ tab' = [tab EXCEPT ![t] = s]
        BY <4>4
      <4>6. \A u \in Tabs \ {t} : history'[u][c] = history[u][c]
        BY <4>4
      <4>7. s.up /\ s.open = c /\ s.thread => Opened(t, c) \/ Brings(history'[t][c], conv[c].posted)
        BY <4>1
      <4>8. \A u \in Tabs \ {t} : Held(u, c) => Held(u, c)'
        BY <4>1
      <4>20. OneTab(t, c, s)
        BY <1>0, <2>1, <4>2, <4>3, <4>5, <4>6, <4>7, <4>8 DEF OneTab
      <4>9. QED
        BY <1>0, <2>1, <4>20, ReadKeptByOthers
  <2>10. QED
    BY <2>8, <2>9
<1>11. ASSUME NEW t \in Tabs, Agents!Receive(t) PROVE ReadOf(c)'
  <2>. DEFINE r == tab[t]  event == Head(inbox[t])  s == Agents!Heard(r, event)
  <2>1. /\ event \in Agents!Event /\ tab' = [tab EXCEPT ![t] = s]
        /\ inbox[t] \in Seq(Agents!Event) /\ inbox[t] # <<>> /\ inbox' = [inbox EXCEPT ![t] = Tail(@)]
    BY <1>11, Receives
  <2>2. r \in Agents!Tab /\ 0 \notin Convs
    BY <1>1 DEF Agents!Numbered, Agents!None
  <2>3. s \in Agents!Tab /\ \A f \in {"up", "open", "thread", "sound"} : s[f] = r[f]
    <3>. HIDE DEF r, event
    <3>1. QED
      BY <2>1, <2>2, HeardTyped
  <2>. HIDE DEF s
  <2>4. conv' = conv /\ handlers' = handlers /\ joins' = joins
    BY <1>11 DEF Agents!Receive
  <2>5. Rings(inbox[t], c) => Rings(inbox'[t], c) \/ (event.kind = "incoming" /\ event.conv = c)
    BY <1>1, <2>1, RingsKept
  <2>6. /\ \A u \in Tabs \ {t} : history'[u][c] = history[u][c]
        /\ IF c \in Again(t) THEN Brings(history'[t][c], conv[c].posted) ELSE history'[t][c] = history[t][c]
        /\ history'[t][c] \in Agents!Query
    BY <1>11, ReceivesQueries
  <2>7. r.thread /\ r.open = c /\ event.kind = "incoming" /\ event.conv = c => c \in Again(t)
    BY DEF Again, Agents!Shown
  <2>8. ASSUME NEW n \in Nat, n <= conv[c].posted, Fetches(t, c, n)
        PROVE  Brings(history'[t][c], n) \/ (s.up /\ s.open = c /\ s.thread /\ Held(t, c)')
    <3>1. CASE c \in Again(t)
      <4>. DEFINE q == history'[t][c]
      <4>1. Brings(q, conv[c].posted) /\ q \in Agents!Query /\ conv[c].posted \in Nat
        BY <1>1, <2>6, <3>1
      <4>. HIDE DEF q
      <4>2. Brings(q, n)
        BY <2>8, <4>1 DEF Brings, Agents!Query
      <4>3. QED
        BY <4>2 DEF q
    <3>2. CASE c \notin Again(t)
      <4>1. history'[t][c] = history[t][c]
        BY <2>6, <3>2
      <4>2. Opened(t, c) /\ Held(t, c) => s.up /\ s.open = c /\ s.thread /\ Held(t, c)'
        BY <2>3, <2>4, <2>5, <2>7, <3>2 DEF Opened, Held
      <4>3. QED
        BY <2>8, <4>1, <4>2 DEF Fetches
    <3>3. QED
      BY <3>1, <3>2
  <2>9. \A u \in Tabs \ {t} : Held(u, c) => Held(u, c)'
    BY <1>1, <2>1, <2>4 DEF Held
  <2>10. s.up /\ s.open = c /\ s.thread => Opened(t, c)
    BY <2>3 DEF Opened
  <2>11. \A j \in joins' : j.conv = c => IF j.tab = t THEN s.up /\ s.open = c /\ s.thread
                                         ELSE \E k \in joins : k.tab = j.tab /\ k.conv = c
    BY <1>0, <2>3, <2>4 DEF ReadOf, Opened
  <2>20. OneTab(t, c, s)
    BY <1>0, <2>1, <2>3, <2>4, <2>6, <2>8, <2>9, <2>10, <2>11 DEF OneTab
  <2>12. QED
    BY <1>0, <2>3, <2>20, ReadKeptByOthers
<1>12. ASSUME NEW t \in Tabs, Agents!LeaveThread(t) PROVE ReadOf(c)'
  <2>1. PICK s \in Agents!Tab : tab' = [tab EXCEPT ![t] = s] /\ s.thread = FALSE
    BY <1>12, LeavesTyped
  <2>2. UNCHANGED <<conv, handlers, joins, history, inbox>>
    BY <1>12 DEF Agents!LeaveThread
  <2>. DEFINE b == Agents!Shown(t) \cap Agents!UnderWay(t)
  <2>3. c \notin b
    <3>1. unusual' = [unusual EXCEPT !.blind = @ \cup b]
      BY <1>12 DEF Agents!LeaveThread
    <3>. HIDE DEF b
    <3>2. QED
      BY <3>1 DEF Agents!TypeOK
  <2>4. Opened(t, c) => ~Held(t, c) /\ \A j \in joins : j.conv # c
    BY <2>3, NothingUnderWay
  <2>5. \A n \in Nat : n <= conv[c].posted /\ Fetches(t, c, n) =>
          Brings(history'[t][c], n) \/ (s.up /\ s.open = c /\ s.thread /\ Held(t, c)')
    BY <2>2, <2>4 DEF Fetches
  <2>6. \A u \in Tabs \ {t} : Held(u, c) => Held(u, c)'
    BY <2>2 DEF Held
  <2>7. \A j \in joins' : j.conv = c => IF j.tab = t THEN s.up /\ s.open = c /\ s.thread
                                        ELSE \E k \in joins : k.tab = j.tab /\ k.conv = c
    BY <1>0, <2>2, <2>4 DEF ReadOf
  <2>8. conv' = conv /\ \A u \in Tabs \ {t} : history'[u][c] = history[u][c]
    BY <2>2
  <2>9. ~(s.up /\ s.open = c /\ s.thread)
    BY <2>1
  <2>20. OneTab(t, c, s)
    BY <1>0, <2>1, <2>5, <2>6, <2>7, <2>8, <2>9 DEF OneTab
  <2>10. QED
    BY <1>0, <2>1, <2>20, ReadKeptByOthers
<1>13. ASSUME NEW t \in Tabs, NEW d \in Convs,
              Agents!ReadHistory(t, d) \/ Agents!Refetch(t, d) \/ Agents!FetchFails(t, d)
       PROVE  ReadOf(c)'
  <2>1. UNCHANGED <<conv, tab, handlers, joins, inbox>>
    BY <1>13 DEF Agents!ReadHistory, Agents!Refetch, Agents!FetchFails
  <2>2. \A u \in Tabs, n \in Nat : n <= conv[c].posted /\ Brings(history[u][c], n) => Brings(history'[u][c], n)
    <3>1. CASE Agents!ReadHistory(t, d) \/ Agents!Refetch(t, d)
      <4>1. PICK q \in Agents!Query :
              /\ history' = [history EXCEPT ![t][d] = q]
              /\ QueryOK(q, d)
              /\ \A n \in Nat : n <= conv[d].posted /\ Brings(history[t][d], n) => Brings(q, n)
        BY <3>1, QueryMoves
      <4>0. conv' = conv /\ history' = [history EXCEPT ![t][d] = q] /\ QueryOK(q, d)
        BY <2>1, <4>1
      <4>2. /\ history'[t][d] = q
            /\ \A u \in Tabs, e \in Convs : u # t \/ e # d => history'[u][e] = history[u][e]
        BY <4>0 DEF Agents!TypeOK
      <4>3. QED
        BY <4>1, <4>2
    <3>2. CASE Agents!FetchFails(t, d)
      <4>1. PICK q \in Agents!Query : history' = [history EXCEPT ![t][d] = q] /\ QueryOK(q, d)
        BY <3>2, QueryFails
      <4>2. c # d
        BY <3>2 DEF Agents!FetchFails, Agents!TypeOK
      <4>3. \A u \in Tabs : history'[u][c] = history[u][c]
        BY <2>1, <4>1, <4>2, QueriesTyped
      <4>4. QED
        BY <4>3
    <3>3. QED
      BY <1>13, <3>1, <3>2
  <2>3. \A u \in Tabs : Held(u, c) => Held(u, c)'
    BY <2>1 DEF Held
  <2>4. QED
    BY <1>0, <2>1, <2>2, <2>3, ReadKeptByTabs
<1>14. ASSUME NEW t \in Tabs, Agents!RingerEnds(t) \/ Agents!Silence(t) \/ Agents!ToggleSound(t) PROVE ReadOf(c)'
  <2>1. PICK s \in Agents!Tab :
           /\ tab' = [tab EXCEPT ![t] = s]
           /\ \A f \in {"up", "open", "thread"} : s[f] = tab[t][f]
    BY <1>14, TabMoves
  <2>2. UNCHANGED <<conv, handlers, joins, history, inbox>>
    BY <1>14 DEF Agents!RingerEnds, Agents!Silence, Agents!ToggleSound
  <2>3. \A u \in Tabs : Held(u, c) => Held(u, c)'
    BY <2>2 DEF Held
  <2>4. \A n \in Nat : n <= conv[c].posted /\ Fetches(t, c, n) =>
          Brings(history'[t][c], n) \/ (s.up /\ s.open = c /\ s.thread /\ Held(t, c)')
    BY <2>1, <2>2, <2>3 DEF Fetches, Opened
  <2>5. s.up /\ s.open = c /\ s.thread => Opened(t, c)
    BY <2>1 DEF Opened
  <2>6. \A j \in joins' : j.conv = c => IF j.tab = t THEN s.up /\ s.open = c /\ s.thread
                                        ELSE \E k \in joins : k.tab = j.tab /\ k.conv = c
    BY <1>0, <2>1, <2>2 DEF ReadOf, Opened
  <2>7. QED
    <3>1. conv' = conv /\ tab' = [tab EXCEPT ![t] = s]
      BY <2>1, <2>2
    <3>2. \A u \in Tabs \ {t} : history'[u][c] = history[u][c]
      BY <2>2
    <3>3. \A u \in Tabs \ {t} : Held(u, c) => Held(u, c)'
      BY <2>3
    <3>4. s.up /\ s.open = c /\ s.thread => Opened(t, c) \/ Brings(history'[t][c], conv[c].posted)
      BY <2>5
    <3>20. OneTab(t, c, s)
      BY <1>0, <2>1, <2>4, <2>6, <3>1, <3>2, <3>3, <3>4 DEF OneTab
    <3>5. QED
      BY <1>0, <2>1, <3>20, ReadKeptByOthers
<1>15. CASE UNCHANGED Agents!vars
  <2>1. UNCHANGED <<conv, tab, history, handlers, inbox, joins>>
    BY <1>15 DEF Agents!vars
  <2>2. \A t \in Tabs : Held(t, c) => Held(t, c)'
    BY <2>1 DEF Held
  <2>3. QED
    BY <1>0, <2>1, <2>2, ReadKeptByTabs
<1>16. QED
  BY <1>2, <1>3, <1>4, <1>5, <1>6, <1>7, <1>8, <1>9, <1>10, <1>11, <1>12, <1>13, <1>14, <1>15 DEF Agents!Next

-----------------------------------------------------------------------------
(* An answered call is silent.                                             *)

\* A message that rings.
IsNew(e, c) == e.kind = "incoming" /\ e.conv = c /\ e.isNew
\* The news that the conversation was taken.
IsTaken(e, c) == e.kind = "taken" /\ e.conv = c

\* That news is on its way.
Silences(s, c) == \E k \in 1 .. Len(s) : IsTaken(s[k], c)

\* In the inbox, whatever would ring is followed by what stops it.
Closed(s, c) == \A i \in 1 .. Len(s) : IsNew(s[i], c) => \E k \in 1 .. Len(s) : k > i /\ IsTaken(s[k], c)

\* An event that joins the inbox rings no conversation that is not its own.
LEMMA AppendSilence ==
  ASSUME NEW s \in Seq(Agents!Event), NEW e \in Agents!Event, NEW c
  PROVE  /\ ~IsNew(e, c) /\ Closed(s, c) => Closed(Append(s, e), c)
         /\ IsTaken(e, c) => Closed(Append(s, e), c) /\ Silences(Append(s, e), c)
         /\ Silences(s, c) => Silences(Append(s, e), c)
<1>. DEFINE a == Append(s, e)
<1>1. /\ Len(s) \in Nat /\ Len(a) = Len(s) + 1 /\ a[Len(s) + 1] = e
      /\ \A i \in 1 .. Len(s) : a[i] = s[i]
  BY AppendProperties, LenProperties
<1>. HIDE DEF a
<1>2. Silences(s, c) => Silences(a, c)
  BY <1>1 DEF Silences
<1>3. ASSUME ~IsNew(e, c), Closed(s, c) PROVE Closed(a, c)
  <2>. SUFFICES ASSUME NEW i \in 1 .. Len(a), IsNew(a[i], c)
                PROVE  \E k \in 1 .. Len(a) : k > i /\ IsTaken(a[k], c)
    BY DEF Closed
  <2>1. i \in 1 .. Len(s) /\ IsNew(s[i], c)
    BY <1>1, <1>3
  <2>2. PICK k \in 1 .. Len(s) : k > i /\ IsTaken(s[k], c)
    BY <1>3, <2>1 DEF Closed
  <2>3. QED
    BY <1>1, <2>2
<1>4. ASSUME IsTaken(e, c) PROVE Closed(a, c) /\ Silences(a, c)
  <2>. DEFINE n == Len(s) + 1
  <2>1. n \in 1 .. Len(a) /\ IsTaken(a[n], c)
    BY <1>1, <1>4
  <2>2. \A i \in 1 .. Len(a) : IsNew(a[i], c) => n > i
    <3>1. ~IsNew(a[n], c)
      BY <1>1, <1>4 DEF IsNew, IsTaken
    <3>2. QED
      BY <1>1, <3>1
  <2>3. QED
    BY <2>1, <2>2 DEF Closed, Silences
<1>5. QED
  BY <1>2, <1>3, <1>4 DEF a

\* An event that leaves the inbox leaves what stops its ringing.
LEMMA TailSilence ==
  ASSUME NEW s \in Seq(Agents!Event), s # <<>>, NEW c
  PROVE  /\ Closed(s, c) => Closed(Tail(s), c)
         /\ Closed(s, c) /\ IsNew(Head(s), c) => Silences(Tail(s), c)
         /\ Silences(s, c) /\ ~IsTaken(Head(s), c) => Silences(Tail(s), c)
<1>. DEFINE b == Tail(s)  h == Head(s)
<1>1. /\ Len(s) \in Nat /\ Len(s) > 0 /\ Len(b) = Len(s) - 1 /\ h = s[1]
      /\ \A k \in 1 .. Len(s) - 1 : b[k] = s[k + 1]
  BY HeadTailProperties, LenProperties, EmptySeq
<1>. HIDE DEF b, h
<1>2. ASSUME NEW k \in 1 .. Len(s), k > 1 PROVE k - 1 \in 1 .. Len(b) /\ b[k - 1] = s[k]
  <2>1. k - 1 \in 1 .. Len(s) - 1 /\ (k - 1) + 1 = k
    BY <1>1, <1>2
  <2>2. QED
    BY <1>1, <2>1
<1>3. ASSUME Closed(s, c) PROVE Closed(b, c)
  <2>. SUFFICES ASSUME NEW i \in 1 .. Len(b), IsNew(b[i], c)
                PROVE  \E k \in 1 .. Len(b) : k > i /\ IsTaken(b[k], c)
    BY DEF Closed
  <2>1. i + 1 \in 1 .. Len(s) /\ IsNew(s[i + 1], c)
    BY <1>1
  <2>2. PICK k \in 1 .. Len(s) : k > i + 1 /\ IsTaken(s[k], c)
    BY <1>3, <2>1 DEF Closed
  <2>3. k > 1 /\ k - 1 > i
    BY <2>2
  <2>4. QED
    BY <1>2, <2>2, <2>3
<1>4. ASSUME Closed(s, c), IsNew(h, c) PROVE Silences(b, c)
  <2>1. PICK k \in 1 .. Len(s) : k > 1 /\ IsTaken(s[k], c)
    BY <1>1, <1>4 DEF Closed
  <2>2. QED
    BY <1>2, <2>1 DEF Silences
<1>5. ASSUME Silences(s, c), ~IsTaken(h, c) PROVE Silences(b, c)
  <2>1. PICK k \in 1 .. Len(s) : IsTaken(s[k], c)
    BY <1>5 DEF Silences
  <2>2. k > 1
    BY <1>1, <1>5, <2>1
  <2>3. QED
    BY <1>2, <2>1, <2>2 DEF Silences
<1>6. QED
  BY <1>3, <1>4, <1>5 DEF b, h

\* A tab that rings for c will be told, and not be rung again.
Silenced(t, c) == (tab[t].ring = c => Silences(inbox[t], c)) /\ Closed(inbox[t], c)

\* No message of the conversation is being posted that will ring.
NoNew(c) == \A p \in handlers : p.conv = c => ~p.isNew
\* Somebody took the conversation and is about to tell.
ToTell(c) == \E j \in joins : j.conv = c /\ j.pc = "tell"

\* Once a conversation is assigned, either this is still to be told, or no message of it is on
\* its way that rings, and every tab that rings for it has the news in its inbox.
AnsweredOf(c) ==
  conv[c].assigned =>
    \/ ToTell(c)
    \/ NoNew(c) /\ \A t \in Tabs \ (unusual.twice \cup unusual.cut) : Silenced(t, c)

\* So it is with every conversation that was taken while no new message was on its way.
AnsweredInv == \A c \in Convs \ unusual.late : AnsweredOf(c)

\* A step that assigns nothing anew, and after which whoever was silenced still is.
LEMMA AnsweredKept ==
  ASSUME Agents!TypeOK, [Agents!Next]_(Agents!vars), NEW c \in Convs, AnsweredOf(c),
         conv'[c].assigned => conv[c].assigned,
         \A j \in joins : j.conv = c /\ j.pc = "tell" => \E k \in joins' : k.conv = c /\ k.pc = "tell",
         conv[c].assigned /\ NoNew(c) => \A p \in handlers' : p.conv = c => ~p.isNew,
         NoNew(c) => \A t \in Tabs \ (unusual'.twice \cup unusual'.cut) :
           Silenced(t, c) => (tab'[t].ring = c => Silences(inbox'[t], c)) /\ Closed(inbox'[t], c)
  PROVE  AnsweredOf(c)'
<1>1. unusual.twice \subseteq unusual'.twice /\ unusual.cut \subseteq unusual'.cut
  BY OddKept
<1>2. ASSUME conv'[c].assigned, ToTell(c) PROVE ToTell(c)'
  BY <1>2 DEF ToTell
<1>3. ASSUME conv'[c].assigned, NoNew(c), \A t \in Tabs \ (unusual.twice \cup unusual.cut) : Silenced(t, c)
      PROVE  NoNew(c)' /\ \A t \in Tabs \ (unusual'.twice \cup unusual'.cut) : Silenced(t, c)'
  BY <1>1, <1>3 DEF NoNew, Silenced
<1>4. QED
  BY <1>2, <1>3 DEF AnsweredOf, ToTell, NoNew, Silenced

\* What is told does not ring, unless it is a new message.
LEMMA ToldSilence ==
  ASSUME Agents!TypeOK, NEW event \in Agents!Event, inbox' = Agents!Told(event), tab' = tab,
         NEW c, NEW t \in Tabs
  PROVE  /\ ~IsNew(event, c) /\ Silenced(t, c)
              => (tab'[t].ring = c => Silences(inbox'[t], c)) /\ Closed(inbox'[t], c)
         /\ IsTaken(event, c) /\ tab[t].up => Closed(inbox'[t], c) /\ Silences(inbox'[t], c)
<1>1. inbox'[t] = (IF tab[t].up THEN Append(inbox[t], event) ELSE inbox[t]) /\ inbox[t] \in Seq(Agents!Event)
  BY ToldTyped DEF Agents!TypeOK
<1>2. QED
  BY <1>1, AppendSilence DEF Silenced

\* No message, event or assignment makes an answered conversation ring again.
LEMMA AnsweredStep ==
  ASSUME Agents!Numbered
  PROVE  Agents!TypeOK /\ BannerInv /\ AnsweredInv /\ [Agents!Next]_(Agents!vars) => AnsweredInv'
<1>. SUFFICES ASSUME Agents!TypeOK, BannerInv, AnsweredInv, [Agents!Next]_(Agents!vars),
                     NEW c \in Convs, c \notin unusual'.late
             PROVE  AnsweredOf(c)'
  BY DEF AnsweredInv
<1>0. AnsweredOf(c) /\ c # 0
  BY OddKept DEF AnsweredInv, Agents!Numbered, Agents!None
<1>1. /\ handlers \in SUBSET Agents!Post /\ joins \in SUBSET Agents!Join /\ tab \in [Tabs -> Agents!Tab]
      /\ conv \in [Convs -> Agents!Conversation] /\ inbox \in [Tabs -> Seq(Agents!Event)]
  BY DEF Agents!TypeOK
<1>2. ASSUME tab' = tab, inbox' = inbox
      PROVE  \A t \in Tabs : Silenced(t, c) => (tab'[t].ring = c => Silences(inbox'[t], c)) /\ Closed(inbox'[t], c)
  BY <1>2 DEF Silenced
<1>3. ASSUME NEW d \in Convs, Agents!MerchantMessage(d) PROVE AnsweredOf(c)'
  <2>1. UNCHANGED <<conv, tab, inbox, joins>>
    BY <1>3 DEF Agents!MerchantMessage
  <2>. DEFINE x == [id |-> left.sends, conv |-> d, isNew |-> ~conv[d].assigned, stored |-> FALSE]
  <2>2. /\ handlers' = handlers \cup {x} /\ x.conv = d
        /\ conv[d].assigned => ~x.isNew
    BY <1>3, Zenon DEF Agents!MerchantMessage
  <2>. HIDE DEF x
  <2>3. conv[c].assigned /\ NoNew(c) => \A p \in handlers' : p.conv = c => ~p.isNew
    BY <2>2 DEF NoNew
  <2>4. QED
    BY <1>0, <1>2, <2>1, <2>3, AnsweredKept
<1>4. ASSUME NEW p \in handlers, Agents!PersistMessage(p) PROVE AnsweredOf(c)'
  <2>1. /\ conv' = [conv EXCEPT ![p.conv].posted = @ + 1, ![p.conv].unread = @ + 1]
        /\ handlers' = (handlers \ {p}) \cup {[p EXCEPT !.stored = TRUE]} /\ UNCHANGED <<tab, inbox, joins>>
    BY <1>4 DEF Agents!PersistMessage
  <2>2. conv'[c].assigned = conv[c].assigned
    BY <1>1, <2>1 DEF Agents!Conversation
  <2>3. [p EXCEPT !.stored = TRUE].conv = p.conv /\ [p EXCEPT !.stored = TRUE].isNew = p.isNew
    BY <1>1 DEF Agents!Post
  <2>4. NoNew(c) => \A q \in handlers' : q.conv = c => ~q.isNew
    BY <2>1, <2>3 DEF NoNew
  <2>5. QED
    BY <1>0, <1>2, <2>1, <2>2, <2>4, AnsweredKept
<1>5. ASSUME NEW p \in handlers, Agents!Announce(p) PROVE AnsweredOf(c)'
  <2>. DEFINE event == [kind |-> "incoming", conv |-> p.conv, isNew |-> p.isNew]
  <2>1. event \in Agents!Event
    BY <1>1 DEF Agents!Event, Agents!Post
  <2>2. NoNew(c) => ~IsNew(event, c)
    BY DEF NoNew, IsNew
  <2>3. inbox' = Agents!Told(event) /\ handlers' = handlers \ {p} /\ UNCHANGED <<conv, tab, joins>>
    BY <1>5 DEF Agents!Announce
  <2>. HIDE DEF event
  <2>4. NoNew(c) => \A t \in Tabs : Silenced(t, c) => (tab'[t].ring = c => Silences(inbox'[t], c)) /\ Closed(inbox'[t], c)
    BY <2>1, <2>2, <2>3, ToldSilence
  <2>5. NoNew(c) => \A q \in handlers' : q.conv = c => ~q.isNew
    BY <2>3 DEF NoNew
  <2>6. QED
    BY <1>0, <2>3, <2>4, <2>5, AnsweredKept
<1>6. ASSUME NEW j \in joins, Agents!MarkRead(j) PROVE AnsweredOf(c)'
  <2>1. conv' = [conv EXCEPT ![j.conv].unread = 0] /\ UNCHANGED <<handlers, tab, inbox>>
    BY <1>6 DEF Agents!MarkRead
  <2>2. conv'[c].assigned = conv[c].assigned
    BY <1>1, <2>1 DEF Agents!Conversation
  <2>3. \A i \in joins : i.conv = c /\ i.pc = "tell" => \E k \in joins' : k.conv = c /\ k.pc = "tell"
    BY <1>6, JoinGoes
  <2>4. NoNew(c) => \A q \in handlers' : q.conv = c => ~q.isNew
    BY <2>1 DEF NoNew
  <2>5. QED
    BY <1>0, <1>2, <2>1, <2>2, <2>3, <2>4, AnsweredKept
<1>7. ASSUME NEW j \in joins, Agents!TellReceived(j) \/ (Agents!TellAssigned(j) /\ j.conv # c) PROVE AnsweredOf(c)'
  <2>. DEFINE told(again) == [kind |-> "taken", conv |-> j.conv, again |-> again]
  <2>1. PICK event : event \in Agents!Event /\ ~IsNew(event, c) /\ inbox' = Agents!Told(event)
    <3>1. \A again \in BOOLEAN : told(again) \in Agents!Event /\ ~IsNew(told(again), c)
      BY <1>1 DEF Agents!Event, Agents!Join, IsNew
    <3>2. PICK again \in BOOLEAN : inbox' = Agents!Told(told(again))
      BY <1>7 DEF Agents!TellReceived, Agents!TellAssigned
    <3>. HIDE DEF told
    <3>3. QED
      BY <3>1, <3>2
  <2>2. inbox' = Agents!Told(event) /\ UNCHANGED <<conv, tab, handlers>>
    BY <1>7, <2>1 DEF Agents!TellReceived, Agents!TellAssigned
  <2>3. \A t \in Tabs : Silenced(t, c) => (tab'[t].ring = c => Silences(inbox'[t], c)) /\ Closed(inbox'[t], c)
    BY <2>1, <2>2, ToldSilence
  <2>4. j.conv # c \/ j.pc # "tell"
    BY <1>7 DEF Agents!TellReceived
  <2>5. \A i \in joins : i.conv = c /\ i.pc = "tell" => \E k \in joins' : k.conv = c /\ k.pc = "tell"
    BY <1>7, <2>4, JoinGoes
  <2>6. NoNew(c) => \A q \in handlers' : q.conv = c => ~q.isNew
    BY <2>2 DEF NoNew
  <2>7. QED
    BY <1>0, <2>2, <2>3, <2>5, <2>6, AnsweredKept
<1>8. ASSUME NEW j \in joins, Agents!TellAssigned(j), j.conv = c PROVE AnsweredOf(c)'
  <2>. DEFINE event == [kind |-> "taken", conv |-> j.conv, again |-> TRUE]
              b == {p.conv : p \in {p \in handlers : p.conv = j.conv /\ p.isNew}}
  <2>1. event \in Agents!Event /\ IsTaken(event, c)
    BY <1>1, <1>8 DEF Agents!Event, Agents!Join, IsTaken
  <2>2. inbox' = Agents!Told(event) /\ UNCHANGED <<conv, tab, handlers>> /\ unusual' = [unusual EXCEPT !.late = @ \cup b]
    BY <1>8 DEF Agents!TellAssigned
  <2>3. c \notin b
    <3>. HIDE DEF b
    <3>1. QED
      BY <2>2 DEF Agents!TypeOK
  <2>4. NoNew(c)'
    BY <1>8, <2>2, <2>3 DEF NoNew
  <2>5. unusual'.cut = unusual.cut
    <3>. HIDE DEF b
    <3>1. QED
      BY <2>2 DEF Agents!TypeOK
  <2>. HIDE DEF event, b
  <2>6. ASSUME NEW t \in Tabs \ (unusual'.twice \cup unusual'.cut) PROVE Silenced(t, c)'
    <3>1. CASE tab[t].up
      BY <2>1, <2>2, <3>1, ToldSilence DEF Silenced
    <3>2. CASE ~tab[t].up
      <4>1. tab[t].ring = 0 /\ inbox[t] = <<>>
        BY <2>5, <3>2 DEF BannerInv, Agents!TypeOK
      <4>2. inbox'[t] = <<>> /\ tab'[t].ring = 0
        BY <2>1, <2>2, <3>2, <4>1, ToldTyped DEF Agents!TypeOK
      <4>3. Closed(inbox'[t], c)
        BY <4>2 DEF Closed
      <4>4. QED
        BY <1>0, <4>2, <4>3 DEF Silenced
    <3>3. QED
      BY <3>1, <3>2
  <2>7. QED
    BY <2>4, <2>6 DEF AnsweredOf
<1>9. ASSUME NEW j \in joins, Agents!Assign(j) PROVE AnsweredOf(c)'
  <2>1. conv' = [conv EXCEPT ![j.conv].assigned = TRUE] /\ UNCHANGED <<handlers, tab, inbox>>
    BY <1>9 DEF Agents!Assign
  <2>2. CASE j.conv = c
    <3>1. \E k \in joins' : k.conv = c /\ k.pc = "tell"
      BY <1>9, <2>2, JoinGoes
    <3>2. QED
      BY <3>1 DEF AnsweredOf, ToTell
  <2>3. CASE j.conv # c
    <3>1. conv'[c] = conv[c]
      BY <1>1, <2>1, <2>3
    <3>2. \A i \in joins : i.conv = c /\ i.pc = "tell" => \E k \in joins' : k.conv = c /\ k.pc = "tell"
      BY <1>9, <2>3, JoinGoes
    <3>3. NoNew(c) => \A q \in handlers' : q.conv = c => ~q.isNew
      BY <2>1 DEF NoNew
    <3>4. QED
      BY <1>0, <1>2, <2>1, <3>1, <3>2, <3>3, AnsweredKept
  <2>4. QED
    BY <2>2, <2>3
<1>10. ASSUME NEW t \in Tabs, NEW s \in Agents!Tab, tab' = [tab EXCEPT ![t] = s],
              conv' = conv, handlers' = handlers, joins \subseteq joins',
              t \notin unusual'.twice \cup unusual'.cut /\ Silenced(t, c)
                => (s.ring = c => Silences(inbox'[t], c)) /\ Closed(inbox'[t], c),
              \A u \in Tabs \ {t} : inbox'[u] = inbox[u]
       PROVE  AnsweredOf(c)'
  <2>1. tab'[t] = s /\ \A u \in Tabs \ {t} : tab'[u] = tab[u]
    BY <1>10, TabsTyped
  <2>2. ASSUME NEW u \in Tabs \ (unusual'.twice \cup unusual'.cut), Silenced(u, c)
        PROVE  (tab'[u].ring = c => Silences(inbox'[u], c)) /\ Closed(inbox'[u], c)
    <3>1. CASE u = t
      BY <1>10, <2>1, <2>2, <3>1
    <3>2. CASE u # t
      BY <1>10, <2>1, <2>2, <3>2 DEF Silenced
    <3>3. QED
      BY <3>1, <3>2
  <2>3. NoNew(c) => \A q \in handlers' : q.conv = c => ~q.isNew
    BY <1>10 DEF NoNew
  <2>4. QED
    BY <1>0, <1>10, <2>2, <2>3, AnsweredKept
<1>11. ASSUME NEW t \in Tabs, Agents!Connect(t) PROVE AnsweredOf(c)'
  <2>1. PICK s \in Agents!Tab : /\ tab' = [tab EXCEPT ![t] = s]
                                /\ \A f \in {"open", "thread", "call", "ring", "sound"} : s[f] = tab[t][f]
    BY <1>11, ConnectionMoves
  <2>2. conv' = conv /\ handlers' = handlers /\ inbox' = inbox /\ joins \subseteq joins'
    BY <1>11 DEF Agents!Connect
  <2>3. QED
    BY <1>10, <2>1, <2>2 DEF Silenced
<1>12. ASSUME NEW t \in Tabs, Agents!Disconnect(t) PROVE AnsweredOf(c)'
  <2>1. PICK s \in Agents!Tab : /\ tab' = [tab EXCEPT ![t] = s]
                                /\ \A f \in {"open", "thread", "call", "ring", "sound"} : s[f] = tab[t][f]
    BY <1>12, ConnectionMoves
  <2>2. conv' = conv /\ handlers' = handlers /\ joins' = joins /\ inbox' = [inbox EXCEPT ![t] = <<>>]
    BY <1>12 DEF Agents!Disconnect
  <2>3. t \in unusual'.cut \/ tab[t].ring = 0
    BY <1>12 DEF Agents!Disconnect, Agents!TypeOK, Agents!None
  <2>4. inbox'[t] = <<>> /\ \A u \in Tabs \ {t} : inbox'[u] = inbox[u]
    BY <1>1, <2>2
  <2>5. Closed(inbox'[t], c)
    BY <2>4 DEF Closed
  <2>6. t \notin unusual'.twice \cup unusual'.cut => s.ring # c
    BY <1>0, <2>1, <2>3
  <2>7. QED
    BY <1>10, <2>1, <2>2, <2>4, <2>5, <2>6
<1>13. ASSUME NEW t \in Tabs, (\E d \in Convs : Agents!OpenConversation(t, d)) \/ Agents!LeaveThread(t)
       PROVE  AnsweredOf(c)'
  <2>1. PICK s \in Agents!Tab :
           /\ tab' = [tab EXCEPT ![t] = s]
           /\ s.ring = 0 \/ s.ring = tab[t].ring
    BY <1>13, OpensTyped, LeavesTyped
  <2>2. conv' = conv /\ handlers' = handlers /\ inbox' = inbox /\ joins \subseteq joins'
    BY <1>13 DEF Agents!OpenConversation, Agents!LeaveThread
  <2>3. QED
    BY <1>0, <1>10, <2>1, <2>2 DEF Silenced
<1>14. ASSUME NEW t \in Tabs, Agents!RingerEnds(t) \/ Agents!Silence(t) \/ Agents!ToggleSound(t) PROVE AnsweredOf(c)'
  <2>1. PICK s \in Agents!Tab :
           /\ tab' = [tab EXCEPT ![t] = s]
           /\ s.ring = 0 \/ s.ring = tab[t].ring
    BY <1>14, TabMoves
  <2>2. UNCHANGED <<conv, handlers, joins, inbox>>
    BY <1>14 DEF Agents!RingerEnds, Agents!Silence, Agents!ToggleSound
  <2>3. QED
    BY <1>0, <1>10, <2>1, <2>2 DEF Silenced
<1>15. ASSUME NEW t \in Tabs, NEW d \in Convs,
              Agents!ReadHistory(t, d) \/ Agents!Refetch(t, d) \/ Agents!FetchFails(t, d)
       PROVE  AnsweredOf(c)'
  <2>1. UNCHANGED <<conv, tab, handlers, joins, inbox>>
    BY <1>15 DEF Agents!ReadHistory, Agents!Refetch, Agents!FetchFails
  <2>2. NoNew(c) => \A q \in handlers' : q.conv = c => ~q.isNew
    BY <2>1 DEF NoNew
  <2>3. QED
    BY <1>0, <1>2, <2>1, <2>2, AnsweredKept
<1>16. ASSUME NEW t \in Tabs, Agents!Receive(t) PROVE AnsweredOf(c)'
  <2>. DEFINE r == tab[t]  event == Head(inbox[t])  s == Agents!Heard(r, event)
  <2>1. /\ event \in Agents!Event /\ tab' = [tab EXCEPT ![t] = s]
        /\ inbox[t] \in Seq(Agents!Event) /\ inbox[t] # <<>> /\ inbox' = [inbox EXCEPT ![t] = Tail(@)]
    BY <1>16, Receives
  <2>2. r \in Agents!Tab /\ 0 \notin Convs
    BY <1>1 DEF Agents!Numbered, Agents!None
  <2>3. /\ s \in Agents!Tab
        /\ event.kind = "taken" /\ r.call = event.conv => s.ring = 0
        /\ event.kind = "taken" /\ r.call # event.conv => s.ring = r.ring
        /\ event.kind = "incoming" /\ ~event.isNew => s.ring = r.ring
        /\ event.kind = "incoming" => s.ring \in {0, event.conv, r.ring}
    <3>. HIDE DEF r, event
    <3>1. QED
      BY <2>1, <2>2, HeardTyped
  <2>. HIDE DEF s
  <2>4. conv' = conv /\ handlers' = handlers /\ joins' = joins
    BY <1>16 DEF Agents!Receive
  <2>5. inbox'[t] = Tail(inbox[t]) /\ \A u \in Tabs \ {t} : inbox'[u] = inbox[u]
    BY <1>1, <2>1
  <2>6. t \notin unusual'.twice => r.ring \in {0, r.call}
    BY OddKept DEF BannerInv
  <2>7. /\ Closed(inbox[t], c) => Closed(inbox'[t], c)
        /\ Closed(inbox[t], c) /\ IsNew(event, c) => Silences(inbox'[t], c)
        /\ Silences(inbox[t], c) /\ ~IsTaken(event, c) => Silences(inbox'[t], c)
    BY <2>1, <2>5, TailSilence
  <2>8. event.kind \in {"incoming", "taken"}
    BY <2>1 DEF Agents!Event
  <2>9. ASSUME t \notin unusual'.twice \cup unusual'.cut, Silenced(t, c), s.ring = c PROVE Silences(inbox'[t], c)
    <3>1. CASE IsNew(event, c)
      BY <2>7, <2>9, <3>1 DEF Silenced
    <3>2. CASE ~IsNew(event, c)
      <4>1. r.ring = c
        BY <1>0, <2>3, <2>8, <2>9, <3>2 DEF IsNew
      <4>2. ~IsTaken(event, c)
        BY <1>0, <2>3, <2>6, <2>9, <4>1 DEF IsTaken
      <4>3. QED
        BY <2>7, <2>9, <4>1, <4>2 DEF Silenced
    <3>3. QED
      BY <3>1, <3>2
  <2>10. Silenced(t, c) => Closed(inbox'[t], c)
    BY <2>7 DEF Silenced
  <2>11. QED
    BY <1>10, <2>1, <2>3, <2>4, <2>5, <2>9, <2>10
<1>17. CASE UNCHANGED Agents!vars
  <2>1. UNCHANGED <<conv, tab, handlers, inbox, joins>>
    BY <1>17 DEF Agents!vars
  <2>2. NoNew(c) => \A q \in handlers' : q.conv = c => ~q.isNew
    BY <2>1 DEF NoNew
  <2>3. QED
    BY <1>0, <1>2, <2>1, <2>2, AnsweredKept
<1>18. QED
  BY <1>3, <1>4, <1>5, <1>6, <1>7, <1>8, <1>9, <1>11, <1>12, <1>13, <1>14, <1>15, <1>16, <1>17 DEF Agents!Next

-----------------------------------------------------------------------------
\* Whatever tabs open and lose, in whatever order messages, joins and fetches come, once
\* nothing is under way every message that counts as read has been fetched by some tab, for all
\* conversations that were not left or cut off at the wrong moment, and whose request was not
\* joined after it had missed a message (agent:join, markRead, ConversationThread).
THEOREM ReadSafety ==
  ASSUME Agents!Numbered
  PROVE  Agents!Spec => [](Agents!TypeOK /\ Agents!ReadMeansFetched)
<1>1. Agents!Init => ReadInv
  <2>. SUFFICES ASSUME Agents!Init, NEW c \in Convs PROVE ReadOf(c)
    BY DEF ReadInv
  <2>1. conv[c].unread = conv[c].posted /\ joins = {} /\ \A t \in Tabs : ~tab[t].up
    BY DEF Agents!Init
  <2>2. QED
    BY <2>1 DEF ReadOf, Opened
<1>2. Agents!TypeOK /\ ReadInv => Agents!ReadMeansFetched
  <2>. SUFFICES ASSUME Agents!TypeOK, ReadInv, Agents!Quiet, NEW c \in Convs \ (unusual.blind \cup unusual.joined),
                       NEW n \in 1 .. conv[c].posted, n <= conv[c].posted - conv[c].unread
                PROVE  \E t \in Tabs : n <= history[t][c].seen
    BY DEF Agents!ReadMeansFetched
  <2>1. conv[c].posted \in Nat /\ conv[c].unread \in Nat
    BY DEF Agents!TypeOK, Agents!Conversation
  <2>2. PICK m \in Nat : m = conv[c].posted - conv[c].unread /\ n <= m
    BY <2>1
  <2>3. PICK t \in Tabs : Fetches(t, c, m)
    BY <2>1, <2>2 DEF ReadInv, ReadOf
  <2>4. ~Held(t, c) /\ history[t][c].pc = "idle"
    BY DEF Agents!Quiet, Held, Rings
  <2>5. m <= history[t][c].seen /\ history[t][c].seen \in Nat
    BY <2>3, <2>4 DEF Fetches, Brings, Agents!TypeOK, Agents!Query
  <2>6. QED
    BY <2>2, <2>5
<1>3. QED
  BY <1>1, <1>2, AgentsTypeInit, AgentsTypeStep, ReadStep, PTL DEF Agents!Spec

\* The agents' tabs among the chat's parts: once all is delivered, a message that counts as read was fetched
\* by some tab, but in conversations that a tab was cut off from, did not show or left, and those whose
\* request was joined after it had missed a message (agentChatSocket, markRead, ConversationThread).
THEOREM ReadMeansFetchedHolds == ChatSpec => []ReadMeansFetched
<1>1. [ChatNext]_allVars => part' = part
  BY DEF ChatNext, allVars
<1>2. ChatInit /\ part = "agents" => Agents!Init
  BY DEF ChatInit
<1>3. [ChatNext]_allVars /\ part = "agents" => [Agents!Next]_(Agents!vars)
  BY DEF ChatNext, allVars, Agents!vars, agents
<1>4. Agents!Spec => [](Agents!TypeOK /\ Agents!ReadMeansFetched)
  BY ReadSafety, ConstantsAssumption DEF ConstantsAssumption
<1>5. part = "agents" /\ part' = part => (part = "agents")'
  OBVIOUS
<1>6. part # "agents" /\ part' = part => (part # "agents")'
  OBVIOUS
<1>7. (part # "agents" => ReadMeansFetched) /\ (Agents!TypeOK /\ Agents!ReadMeansFetched => ReadMeansFetched)
  BY DEF ReadMeansFetched
<1>8. part = "agents" \/ part # "agents"
  OBVIOUS
<1>9. QED
  BY <1>1, <1>2, <1>3, <1>4, <1>5, <1>6, <1>7, <1>8, PTL DEF ChatSpec, Agents!Spec

\* Whoever takes a conversation and whoever rings, once nothing is under way no tab rings for
\* an assigned conversation, and none rings without a banner, but for the tabs and conversations
\* that were marked (startCallRinger, chat:received, conversation:assigned).
THEOREM SilenceSafety ==
  ASSUME Agents!Numbered
  PROVE  Agents!Spec => []Agents!AnsweredIsSilent
<1>1. Agents!Init => BannerInv /\ AnsweredInv
  <2>. SUFFICES ASSUME Agents!Init PROVE BannerInv /\ AnsweredInv
    OBVIOUS
  <2>1. (\A t \in Tabs : tab[t].ring = 0) /\ \A c \in Convs : conv[c].assigned = FALSE
    BY DEF Agents!Init, Agents!None
  <2>2. QED
    BY <2>1 DEF BannerInv, AnsweredInv, AnsweredOf
<1>2. Agents!TypeOK /\ BannerInv /\ AnsweredInv => Agents!AnsweredIsSilent
  <2>. SUFFICES ASSUME Agents!TypeOK, BannerInv, AnsweredInv, Agents!Quiet,
                       NEW t \in Tabs \ (unusual.twice \cup unusual.cut)
                PROVE  /\ tab[t].ring # 0 => tab[t].call = tab[t].ring
                       /\ \A c \in Convs \ unusual.late : conv[c].assigned => tab[t].ring # c
    BY DEF Agents!AnsweredIsSilent, Agents!None
  <2>1. tab[t].ring # 0 => tab[t].call = tab[t].ring
    BY DEF BannerInv
  <2>2. ASSUME NEW c \in Convs \ unusual.late, conv[c].assigned PROVE tab[t].ring # c
    <3>1. ~ToTell(c)
      BY DEF Agents!Quiet, ToTell
    <3>2. Silenced(t, c)
      BY <2>2, <3>1 DEF AnsweredInv, AnsweredOf
    <3>3. inbox[t] = <<>>
      BY DEF Agents!Quiet
    <3>4. ~Silences(inbox[t], c)
      BY <3>3 DEF Silences
    <3>5. QED
      BY <3>2, <3>4 DEF Silenced
  <2>3. QED
    BY <2>1, <2>2
<1>3. QED
  BY <1>1, <1>2, AgentsTypeInit, AgentsTypeStep, BannerStep, AnsweredStep, PTL DEF Agents!Spec

\* The agents' tabs among the chat's parts: once all is delivered, an assigned conversation rings in no tab,
\* and nothing rings without a banner, but in tabs that were cut off or rang again (agentChatSocket).
THEOREM AnsweredIsSilentHolds == ChatSpec => []AnsweredIsSilent
<1>1. [ChatNext]_allVars => part' = part
  BY DEF ChatNext, allVars
<1>2. ChatInit /\ part = "agents" => Agents!Init
  BY DEF ChatInit
<1>3. [ChatNext]_allVars /\ part = "agents" => [Agents!Next]_(Agents!vars)
  BY DEF ChatNext, allVars, Agents!vars, agents
<1>4. Agents!Spec => [](Agents!AnsweredIsSilent)
  BY SilenceSafety, ConstantsAssumption DEF ConstantsAssumption
<1>5. part = "agents" /\ part' = part => (part = "agents")'
  OBVIOUS
<1>6. part # "agents" /\ part' = part => (part # "agents")'
  OBVIOUS
<1>7. (part # "agents" => AnsweredIsSilent) /\ (Agents!AnsweredIsSilent => AnsweredIsSilent)
  BY DEF AnsweredIsSilent
<1>8. part = "agents" \/ part # "agents"
  OBVIOUS
<1>9. QED
  BY <1>1, <1>2, <1>3, <1>4, <1>5, <1>6, <1>7, <1>8, PTL DEF ChatSpec, Agents!Spec
-----------------------------------------------------------------------------
(* The widgets: types.                                                     *)

Kinds == {"merchant", "reply", "note", "announcement", "notice"}
Event(ms, cs) ==
  [kind : {"conversation"}, conv : cs] \cup [kind : {"history"}, rows : Seq(ms)] \cup [kind : {"message"}, msg : ms]
Opening(ms, cs) ==
  {NoOpen} \cup [pc : {"create"}] \cup [pc : {"read"}, conv : cs] \cup [pc : {"history"}, conv : cs, rows : Seq(ms)]
Conversation(ms) == [status : {"OPEN", "CLOSED"}, last : {0} \cup ms]
Row(cs) == [conv : cs, kind : Kinds, to : {"nobody", "room"}]
Widget(ms, cs) == [conn : Nat, conv : {0} \cup cs, shown : Seq(ms), room : {0} \cup cs]
Posting(ms) == [msg : ms, from : [tab : Widgets \cup {"none"}, conn : Nat]]

\* The types over the messages ms and the conversations cs.
Over(ms, cs) ==
  /\ convs \in Seq(Conversation(ms))
  /\ msgs \in Seq(Row(cs))
  /\ widget \in [Widgets -> Widget(ms, cs)]
  /\ pipe \in [Widgets -> Seq(Event(ms, cs))]
  /\ opens \in [Widgets -> Opening(ms, cs)]
  /\ posts \subseteq Posting(ms)

\* A connection's room is the conversation it has opened; it has no events once it is gone.
Connections ==
  \A w \in Widgets :
    /\ widget[w].conn \in {0, conns[w]}
    /\ widget[w].conn = 0 => pipe[w] = <<>> /\ widget[w].room = 0
    /\ opens[w].pc \in {"read", "history"} => widget[w].conn # 0 /\ widget[w].room = opens[w].conv
    /\ opens[w].pc = "create" => widget[w].room = 0

\* A message is being posted once; a merchant's, and the notice that follows it, is of a connection;
\* what is told to a room is a merchant's or a reply; and who opens meanwhile is marked.
PostsInv ==
  /\ \A p, q \in posts : p.msg = q.msg => p = q
  /\ \A p \in posts : msgs[p.msg].kind \in {"merchant", "notice"} => p.from.conn # 0
  /\ \A m \in Rows : msgs[m].to = "room" => msgs[m].kind \in {"merchant", "reply"}
  /\ \A w \in Widgets : Races(w) => w \in raced

WidgetTypes == Over(Rows, DOMAIN convs) /\ conns \in [Widgets -> Nat] /\ Connections

\* No tab is connected yet.
LEMMA WidgetTypeInit == Init => WidgetTypes
<1>. SUFFICES ASSUME Init PROVE WidgetTypes
  OBVIOUS
<1>1. \A ms : <<>> \in Seq(ms)
  OBVIOUS
<1>2. \A w \in Widgets : widget[w] = [conn |-> 0, conv |-> 0, shown |-> <<>>, room |-> 0] /\ pipe[w] = <<>> /\ opens[w] = NoOpen
  BY DEF Init
<1>3. \A ms, cs : [conn |-> 0, conv |-> 0, shown |-> <<>>, room |-> 0] \in Widget(ms, cs)
  BY <1>1 DEF Widget
<1>4. \A ms, cs : Over(ms, cs)
  BY <1>1, <1>2, <1>3 DEF Init, Over, Opening
<1>5. QED
  BY <1>2, <1>4 DEF Init, WidgetTypes, Connections, NoOpen

\* What is well typed stays so with more messages and conversations.
LEMMA Widened ==
  ASSUME NEW ms, NEW more, NEW cs, NEW wider, ms \subseteq more, cs \subseteq wider
  PROVE  /\ Seq(ms) \subseteq Seq(more)
         /\ Event(ms, cs) \subseteq Event(more, wider) /\ Seq(Event(ms, cs)) \subseteq Seq(Event(more, wider))
         /\ Opening(ms, cs) \subseteq Opening(more, wider)
         /\ Seq(Conversation(ms)) \subseteq Seq(Conversation(more))
         /\ Seq(Row(cs)) \subseteq Seq(Row(wider))
         /\ Widget(ms, cs) \subseteq Widget(more, wider)
         /\ Posting(ms) \subseteq Posting(more)
<1>1. Seq(ms) \subseteq Seq(more)
  BY SeqMonotonic
<1>2. Event(ms, cs) \subseteq Event(more, wider)
  BY <1>1 DEF Event
<1>3. Conversation(ms) \subseteq Conversation(more) /\ Row(cs) \subseteq Row(wider) /\ Posting(ms) \subseteq Posting(more)
  BY DEF Conversation, Row, Posting
<1>4. Opening(ms, cs) \subseteq Opening(more, wider) /\ Widget(ms, cs) \subseteq Widget(more, wider)
  BY <1>1 DEF Opening, Widget
<1>5. \A s, t : s \subseteq t => Seq(s) \subseteq Seq(t)
  BY SeqMonotonic
<1>6. QED
  BY <1>1, <1>2, <1>3, <1>4, <1>5

\* So is the whole state.
LEMMA OverWidened ==
  ASSUME NEW ms, NEW more, NEW cs, NEW wider, ms \subseteq more, cs \subseteq wider, Over(ms, cs)
  PROVE  Over(more, wider)
<1>1. /\ convs \in Seq(Conversation(more)) /\ msgs \in Seq(Row(wider)) /\ posts \subseteq Posting(more)
  BY Widened DEF Over
<1>2. ASSUME NEW w \in Widgets
      PROVE  /\ widget[w] \in Widget(more, wider) /\ pipe[w] \in Seq(Event(more, wider)) /\ opens[w] \in Opening(more, wider)
  <2>1. widget[w] \in Widget(ms, cs) /\ pipe[w] \in Seq(Event(ms, cs)) /\ opens[w] \in Opening(ms, cs)
    BY DEF Over
  <2>2. /\ Widget(ms, cs) \subseteq Widget(more, wider) /\ Seq(Event(ms, cs)) \subseteq Seq(Event(more, wider))
        /\ Opening(ms, cs) \subseteq Opening(more, wider)
    BY Widened
  <2>3. QED
    BY <2>1, <2>2
<1>3. QED
  BY <1>1, <1>2 DEF Over

\* An event is emitted to some sockets.
LEMMA EmittedTyped ==
  ASSUME NEW ms, NEW cs, pipe \in [Widgets -> Seq(Event(ms, cs))], NEW event \in Event(ms, cs), NEW sockets
  PROVE  Emitted(sockets, event) \in [Widgets -> Seq(Event(ms, cs))]
<1>1. \A w \in Widgets : Append(pipe[w], event) \in Seq(Event(ms, cs))
  BY AppendProperties
<1>2. QED
  BY <1>1 DEF Emitted

\* A handler's first answer.
LEMMA JoinsTyped ==
  ASSUME NEW ms, NEW cs, Over(ms, cs), NEW w \in Widgets, NEW n \in Nat, NEW c \in cs, Joins(w, n, c)
  PROVE  /\ widget'[w].conn = n /\ widget'[w].room = c /\ \A u \in Widgets : u # w => widget'[u] = widget[u]
         /\ widget' \in [Widgets -> Widget(ms, cs)]
         /\ pipe' \in [Widgets -> Seq(Event(ms, cs))]
         /\ opens' \in [Widgets -> Opening(ms, cs)]
         /\ opens'[w] = [pc |-> "read", conv |-> c]
<1>. DEFINE r == [widget[w] EXCEPT !.conn = n, !.room = c]
            e == [kind |-> "conversation", conv |-> c]
<1>1. widget' = [widget EXCEPT ![w] = r]
  BY DEF Joins
<1>2. r \in Widget(ms, cs) /\ r.conn = n /\ r.room = c
  BY DEF Over, Widget
<1>3. Append(pipe[w], e) \in Seq(Event(ms, cs))
  <2>1. e \in Event(ms, cs)
    BY DEF Event
  <2>. HIDE DEF e
  <2>2. pipe[w] \in Seq(Event(ms, cs))
    BY DEF Over
  <2>3. QED
    BY <2>1, <2>2, AppendProperties
<1>4. pipe' = [pipe EXCEPT ![w] = Append(pipe[w], e)]
  BY DEF Joins
<1>5. [pc |-> "read", conv |-> c] \in Opening(ms, cs)
  BY DEF Opening
<1>. HIDE DEF r, e
<1>6. widget'[w] = r /\ widget' \in [Widgets -> Widget(ms, cs)] /\ \A u \in Widgets : u # w => widget'[u] = widget[u]
  BY <1>1, <1>2 DEF Over
<1>7. pipe' \in [Widgets -> Seq(Event(ms, cs))]
  BY <1>3, <1>4 DEF Over
<1>8. opens' \in [Widgets -> Opening(ms, cs)] /\ opens'[w] = [pc |-> "read", conv |-> c]
  BY <1>5 DEF Over, Joins
<1>9. QED
  BY <1>2, <1>6, <1>7, <1>8

\* A message is appended, and its post begins.
LEMMA RowAdded ==
  ASSUME NEW cs, msgs \in Seq(Row(cs)), NEW row \in Row(cs)
  PROVE  /\ Append(msgs, row) \in Seq(Row(cs)) /\ Len(Append(msgs, row)) = Len(msgs) + 1
         /\ DOMAIN Append(msgs, row) = Rows \cup {Len(msgs) + 1} /\ Len(msgs) + 1 \notin Rows /\ Len(msgs) \in Nat
         /\ \A m \in Rows : Append(msgs, row)[m] = msgs[m]
         /\ Append(msgs, row)[Len(msgs) + 1] = row
<1>1. Rows = 1 .. Len(msgs) /\ Len(msgs) \in Nat
  BY LenProperties DEF Rows
<1>2. /\ Append(msgs, row) \in Seq(Row(cs)) /\ Len(Append(msgs, row)) = Len(msgs) + 1
      /\ \A i \in 1 .. Len(msgs) : Append(msgs, row)[i] = msgs[i]
      /\ Append(msgs, row)[Len(msgs) + 1] = row
  BY AppendProperties
<1>3. DOMAIN Append(msgs, row) = 1 .. Len(Append(msgs, row))
  BY <1>2, LenProperties
<1>4. QED
  BY <1>1, <1>2, <1>3

\* A post begins.
LEMMA PostsTyped ==
  ASSUME WidgetTypes, NEW c \in DOMAIN convs, NEW kind \in Kinds, NEW from \in [tab : Widgets \cup {"none"}, conn : Nat],
         Posts(c, kind, from)
  PROVE  /\ Rows' = Rows \cup {Len(msgs) + 1} /\ Len(msgs) + 1 \notin Rows
         /\ \A m \in Rows : msgs'[m] = msgs[m]
         /\ msgs'[Len(msgs) + 1] = [conv |-> c, kind |-> kind, to |-> "nobody"]
         /\ msgs' \in Seq(Row(DOMAIN convs)) /\ posts' \subseteq Posting(Rows')
<1>. DEFINE row == [conv |-> c, kind |-> kind, to |-> "nobody"]
<1>1. row \in Row(DOMAIN convs) /\ msgs' = Append(msgs, row)
  BY DEF Row, Posts
<1>2. msgs \in Seq(Row(DOMAIN convs)) /\ posts \subseteq Posting(Rows)
  BY DEF WidgetTypes, Over
<1>. HIDE DEF row
<1>3. /\ msgs' \in Seq(Row(DOMAIN convs)) /\ Rows' = Rows \cup {Len(msgs) + 1} /\ Len(msgs) + 1 \notin Rows
      /\ \A m \in Rows : msgs'[m] = msgs[m]
      /\ msgs'[Len(msgs) + 1] = row
  BY <1>1, <1>2, RowAdded DEF Rows
<1>4. posts' = posts \cup {[msg |-> Len(msgs) + 1, from |-> from]}
  BY DEF Posts
<1>5. posts' \subseteq Posting(Rows')
  BY <1>2, <1>3, <1>4 DEF Posting
<1>6. QED
  BY <1>3, <1>5 DEF row

\* A conversation's lastMessageAt is set.
LEMMA BumpedTyped ==
  ASSUME WidgetTypes, NEW m \in Rows, Bumped(m)
  PROVE  convs' \in Seq(Conversation(Rows)) /\ DOMAIN convs' = DOMAIN convs
<1>1. convs \in Seq(Conversation(Rows)) /\ msgs \in Seq(Row(DOMAIN convs))
  BY DEF WidgetTypes, Over
<1>2. msgs[m] \in Row(DOMAIN convs)
  BY <1>1, ElementOfSeq, LenProperties DEF Rows
<1>3. msgs[m].conv \in DOMAIN convs
  BY <1>2 DEF Row
<1>4. [convs[msgs[m].conv] EXCEPT !.last = m] \in Conversation(Rows)
  <2>1. convs[msgs[m].conv] \in Conversation(Rows)
    BY <1>1, <1>3, ElementOfSeq, LenProperties
  <2>2. QED
    BY <2>1 DEF Conversation
<1>5. convs' = [convs EXCEPT ![msgs[m].conv] = [convs[msgs[m].conv] EXCEPT !.last = m]]
  BY DEF Bumped
<1>6. QED
  BY <1>1, <1>3, <1>4, <1>5, ExceptSeq

\* Connections drop.
LEMMA DroppedTyped ==
  ASSUME WidgetTypes, NEW gone, Dropped(gone)
  PROVE  /\ widget' \in [Widgets -> Widget(Rows, DOMAIN convs)] /\ pipe' \in [Widgets -> Seq(Event(Rows, DOMAIN convs))]
         /\ \A w \in Widgets : /\ w \in gone => widget'[w].conn = 0 /\ widget'[w].room = 0 /\ pipe'[w] = <<>>
                               /\ w \notin gone => widget'[w] = widget[w] /\ pipe'[w] = pipe[w]
<1>1. \A w \in Widgets : /\ [widget[w] EXCEPT !.conn = 0, !.room = 0] \in Widget(Rows, DOMAIN convs)
                        /\ [widget[w] EXCEPT !.conn = 0, !.room = 0].conn = 0
                        /\ [widget[w] EXCEPT !.conn = 0, !.room = 0].room = 0
  BY DEF WidgetTypes, Over, Widget
<1>2. <<>> \in Seq(Event(Rows, DOMAIN convs))
  OBVIOUS
<1>3. QED
  BY <1>1, <1>2 DEF Dropped, WidgetTypes, Over

\* What the head of the pipe does to the screen.
LEMMA ReceiveTyped ==
  ASSUME WidgetTypes, NEW w \in Widgets, Receive(w)
  PROVE  /\ widget' \in [Widgets -> Widget(Rows, DOMAIN convs)] /\ pipe' \in [Widgets -> Seq(Event(Rows, DOMAIN convs))]
         /\ \A u \in Widgets : /\ widget'[u].conn = widget[u].conn /\ widget'[u].room = widget[u].room
                               /\ u # w => widget'[u] = widget[u] /\ pipe'[u] = pipe[u]
         /\ pipe[w] # <<>> /\ pipe'[w] = Tail(pipe[w])
         /\ Head(pipe[w]).kind = "history" => widget'[w].shown = Head(pipe[w]).rows
         /\ Head(pipe[w]).kind = "message" => widget'[w].shown = Append(widget[w].shown, Head(pipe[w]).msg)
         /\ Head(pipe[w]).kind = "conversation" => widget'[w].shown = widget[w].shown
<1>. DEFINE e == Head(pipe[w])
            rows == CASE e.kind = "history" -> e.rows
                      [] e.kind = "message" -> Append(widget[w].shown, e.msg)
                      [] OTHER -> widget[w].shown
            c == IF e.kind = "conversation" THEN e.conv ELSE widget[w].conv
            r == [widget[w] EXCEPT !.conv = c, !.shown = rows]
<1>1. pipe[w] # <<>> /\ pipe[w] \in Seq(Event(Rows, DOMAIN convs)) /\ widget[w] \in Widget(Rows, DOMAIN convs)
  BY DEF Receive, WidgetTypes, Over
<1>2. e \in Event(Rows, DOMAIN convs) /\ Tail(pipe[w]) \in Seq(Event(Rows, DOMAIN convs))
  BY <1>1, HeadTailProperties
<1>3. widget' = [widget EXCEPT ![w] = r] /\ pipe' = [pipe EXCEPT ![w] = Tail(pipe[w])]
  BY DEF Receive
<1>. HIDE DEF e
<1>4. c \in {0} \cup DOMAIN convs
  BY <1>1, <1>2 DEF Event, Widget
<1>5. rows \in Seq(Rows)
  <2>1. CASE e.kind = "history"
    BY <1>2, <2>1 DEF Event
  <2>2. CASE e.kind = "message"
    <3>1. e.msg \in Rows /\ widget[w].shown \in Seq(Rows)
      BY <1>1, <1>2, <2>2 DEF Event, Widget
    <3>2. QED
      BY <2>2, <3>1, AppendProperties
  <2>3. CASE e.kind = "conversation"
    BY <1>1, <2>3 DEF Widget
  <2>4. QED
    BY <1>2, <2>1, <2>2, <2>3 DEF Event
<1>6. /\ e.kind = "history" => rows = e.rows
      /\ e.kind = "message" => rows = Append(widget[w].shown, e.msg)
      /\ e.kind = "conversation" => rows = widget[w].shown
  OBVIOUS
<1>. HIDE DEF c, rows
<1>7. /\ r \in Widget(Rows, DOMAIN convs) /\ r.conn = widget[w].conn /\ r.room = widget[w].room /\ r.shown = rows
  BY <1>1, <1>4, <1>5 DEF Widget
<1>. HIDE DEF r
<1>8. /\ widget' \in [Widgets -> Widget(Rows, DOMAIN convs)] /\ pipe' \in [Widgets -> Seq(Event(Rows, DOMAIN convs))]
      /\ widget'[w] = r /\ pipe'[w] = Tail(pipe[w])
      /\ \A u \in Widgets : u # w => widget'[u] = widget[u] /\ pipe'[u] = pipe[u]
  BY <1>2, <1>3, <1>7 DEF WidgetTypes, Over
<1>9. QED
  BY <1>1, <1>6, <1>7, <1>8 DEF e

\* A message is told to its room, and a notice may follow it.
LEMMA TellRoomTyped ==
  ASSUME WidgetTypes, NEW p \in posts, TellRoom(p)
  PROVE  /\ p.msg \in Rows /\ msgs' \in Seq(Row(DOMAIN convs))
         /\ \A m \in Rows : /\ msgs'[m].conv = msgs[m].conv /\ msgs'[m].kind = msgs[m].kind
                            /\ msgs'[m].to = IF m = p.msg THEN "room" ELSE msgs[m].to
         /\ \/ Rows' = Rows /\ posts' = posts \ {p}
            \/ /\ Rows' = Rows \cup {Len(msgs) + 1} /\ Len(msgs) + 1 \notin Rows
               /\ msgs'[Len(msgs) + 1] = [conv |-> msgs[p.msg].conv, kind |-> "notice", to |-> "nobody"]
               /\ posts' = (posts \ {p}) \cup {[msg |-> Len(msgs) + 1, from |-> p.from]}
<1>1. p.msg \in Rows /\ p.msg \in 1 .. Len(msgs) /\ Rows = 1 .. Len(msgs) /\ msgs \in Seq(Row(DOMAIN convs))
  <2>1. msgs \in Seq(Row(DOMAIN convs)) /\ posts \subseteq Posting(Rows)
    BY DEF WidgetTypes, Over
  <2>2. Rows = 1 .. Len(msgs)
    BY <2>1, LenProperties DEF Rows
  <2>3. p.msg \in Rows
    BY <2>1 DEF Posting
  <2>4. QED
    BY <2>1, <2>2, <2>3
<1>. DEFINE told == [msgs[p.msg] EXCEPT !.to = "room"]
            marked == [msgs EXCEPT ![p.msg] = told]
            row == [conv |-> msgs[p.msg].conv, kind |-> "notice", to |-> "nobody"]
<1>2. /\ msgs[p.msg] \in Row(DOMAIN convs) /\ told \in Row(DOMAIN convs) /\ row \in Row(DOMAIN convs)
      /\ told.conv = msgs[p.msg].conv /\ told.kind = msgs[p.msg].kind /\ told.to = "room"
  <2>1. msgs[p.msg] \in Row(DOMAIN convs)
    BY <1>1, ElementOfSeq
  <2>2. QED
    BY <2>1 DEF Row, Kinds
<1>3. \/ posts' = posts \ {p} /\ msgs' = marked
      \/ posts' = (posts \ {p}) \cup {[msg |-> Len(msgs) + 1, from |-> p.from]} /\ msgs' = Append(marked, row)
  BY DEF TellRoom
<1>. HIDE DEF told, row
<1>4. /\ marked \in Seq(Row(DOMAIN convs)) /\ Len(marked) = Len(msgs)
      /\ \A m \in 1 .. Len(msgs) : marked[m] = IF m = p.msg THEN told ELSE msgs[m]
  BY <1>1, <1>2, ExceptSeq
<1>. HIDE DEF marked
<1>5. \A m \in Rows : /\ marked[m].conv = msgs[m].conv /\ marked[m].kind = msgs[m].kind
                     /\ marked[m].to = IF m = p.msg THEN "room" ELSE msgs[m].to
  BY <1>1, <1>2, <1>4
<1>6. DOMAIN marked = 1 .. Len(marked) /\ Len(marked) \in Nat
  BY <1>4, LenProperties
<1>7. CASE posts' = posts \ {p} /\ msgs' = marked
  BY <1>1, <1>4, <1>5, <1>6, <1>7 DEF Rows
<1>8. CASE posts' = (posts \ {p}) \cup {[msg |-> Len(msgs) + 1, from |-> p.from]} /\ msgs' = Append(marked, row)
  <2>1. /\ msgs' \in Seq(Row(DOMAIN convs)) /\ Len(msgs') = Len(msgs) + 1
        /\ \A m \in 1 .. Len(msgs) : msgs'[m] = marked[m]
        /\ msgs'[Len(msgs) + 1] = row
    BY <1>2, <1>4, <1>8, AppendProperties
  <2>2. DOMAIN msgs' = 1 .. Len(msgs')
    BY <2>1, LenProperties
  <2>3. Rows' = Rows \cup {Len(msgs) + 1} /\ Len(msgs) + 1 \notin Rows
    BY <1>1, <1>4, <1>6, <2>1, <2>2 DEF Rows
  <2>4. QED
    BY <1>1, <1>5, <1>8, <2>1, <2>3 DEF row
<1>9. QED
  BY <1>3, <1>7, <1>8

\* What a step leaves of the types.
\* Whatever connects, posts, tells, receives or drops, the state is well typed.
LEMMA WidgetTypeStep == WidgetTypes /\ PostsInv /\ [Next]_vars => WidgetTypes'
<1>. SUFFICES ASSUME WidgetTypes, PostsInv, [Next]_vars PROVE WidgetTypes'
  OBVIOUS
<1>0. /\ convs \in Seq(Conversation(Rows)) /\ msgs \in Seq(Row(DOMAIN convs))
      /\ widget \in [Widgets -> Widget(Rows, DOMAIN convs)] /\ pipe \in [Widgets -> Seq(Event(Rows, DOMAIN convs))]
      /\ opens \in [Widgets -> Opening(Rows, DOMAIN convs)] /\ posts \subseteq Posting(Rows)
      /\ conns \in [Widgets -> Nat] /\ Over(Rows, DOMAIN convs)
      /\ 0 \notin DOMAIN convs /\ DOMAIN convs = 1 .. Len(convs) /\ Rows = 1 .. Len(msgs) /\ Len(convs) \in Nat
  <2>1. convs \in Seq(Conversation(Rows)) /\ msgs \in Seq(Row(DOMAIN convs))
    BY DEF WidgetTypes, Over
  <2>2. DOMAIN convs = 1 .. Len(convs) /\ Rows = 1 .. Len(msgs) /\ Len(convs) \in Nat
    BY <2>1, LenProperties DEF Rows
  <2>3. QED
    BY <2>2 DEF WidgetTypes, Over
<1>1. ASSUME NEW w \in Widgets, Connect(w) PROVE WidgetTypes'
  <2>1. /\ convs' = convs /\ msgs' = msgs /\ posts' = posts /\ conns' = [conns EXCEPT ![w] = conns[w] + 1]
        /\ widget[w].conn = 0 /\ opens[w].pc = "none"
    BY <1>1 DEF Connect
  <2>2. conns' \in [Widgets -> Nat] /\ conns[w] + 1 \in Nat /\ conns[w] + 1 # 0
    BY <1>0, <2>1
  <2>3. CASE Latest = {}
    <3>1. /\ widget' = [widget EXCEPT ![w] = [widget[w] EXCEPT !.conn = conns[w] + 1]]
          /\ opens' = [opens EXCEPT ![w] = [pc |-> "create"]] /\ pipe' = pipe
      BY <1>1, <2>3 DEF Connect
    <3>. DEFINE r == [widget[w] EXCEPT !.conn = conns[w] + 1]
    <3>2. r \in Widget(Rows, DOMAIN convs) /\ r.conn = conns[w] + 1 /\ r.room = widget[w].room
      BY <1>0, <2>2 DEF Widget
    <3>3. [pc |-> "create"] \in Opening(Rows, DOMAIN convs)
      BY DEF Opening
    <3>4. widget[w].room = 0
      BY <2>1 DEF WidgetTypes, Connections
    <3>. HIDE DEF r
    <3>5. Over(Rows, DOMAIN convs)'
      BY <1>0, <2>1, <3>1, <3>2, <3>3 DEF Over, Rows, r
    <3>6. Connections'
      BY <1>0, <2>1, <2>2, <3>1, <3>2, <3>4 DEF WidgetTypes, Connections, r
    <3>7. QED
      BY <2>2, <3>5, <3>6 DEF WidgetTypes
  <2>4. CASE Latest # {}
    <3>1. PICK c \in Latest : Joins(w, conns[w] + 1, c)
      BY <1>1, <2>4 DEF Connect
    <3>2. c \in DOMAIN convs
      BY DEF Latest
    <3>3. /\ widget'[w].conn = conns[w] + 1 /\ widget'[w].room = c /\ \A u \in Widgets : u # w => widget'[u] = widget[u]
          /\ widget' \in [Widgets -> Widget(Rows, DOMAIN convs)] /\ pipe' \in [Widgets -> Seq(Event(Rows, DOMAIN convs))]
          /\ opens' \in [Widgets -> Opening(Rows, DOMAIN convs)] /\ opens'[w] = [pc |-> "read", conv |-> c]
      BY <1>0, <2>2, <3>1, <3>2, JoinsTyped
    <3>4. /\ opens' = [opens EXCEPT ![w] = [pc |-> "read", conv |-> c]]
          /\ \A u \in Widgets : u # w => pipe'[u] = pipe[u]
      BY <1>0, <3>1 DEF Joins
    <3>6. Over(Rows, DOMAIN convs)'
      BY <1>0, <2>1, <3>3 DEF Over, Rows
    <3>7. Connections'
      BY <1>0, <2>1, <2>2, <3>2, <3>3, <3>4 DEF WidgetTypes, Connections
    <3>8. QED
      BY <2>2, <3>6, <3>7 DEF WidgetTypes
  <2>5. QED
    BY <2>3, <2>4
<1>2. ASSUME NEW w \in Widgets, CreateConversation(w) PROVE WidgetTypes'
  <2>. DEFINE new == [status |-> "OPEN", last |-> 0]
  <2>1. new \in Conversation(Rows) /\ convs' = Append(convs, new) /\ msgs' = msgs /\ posts' = posts /\ conns' = conns
    BY <1>2 DEF CreateConversation, Conversation
  <2>. HIDE DEF new
  <2>2. convs' \in Seq(Conversation(Rows)) /\ DOMAIN convs' = DOMAIN convs \cup {Len(convs) + 1} /\ Len(convs) + 1 # 0
    <3>1. convs' \in Seq(Conversation(Rows)) /\ Len(convs') = Len(convs) + 1
      BY <1>0, <2>1, AppendProperties
    <3>2. DOMAIN convs' = 1 .. Len(convs')
      BY <3>1, LenProperties
    <3>3. QED
      BY <1>0, <3>1, <3>2
  <2>3. PICK cs : cs = (DOMAIN convs)'
    OBVIOUS
  <2>4. Over(Rows, cs)
    BY <1>0, <2>2, <2>3, OverWidened
  <2>5. CASE widget[w].conn = 0
    <3>1. opens' = [opens EXCEPT ![w] = NoOpen] /\ widget' = widget /\ pipe' = pipe
      BY <1>2, <2>5 DEF CreateConversation
    <3>2. Over(Rows, cs)'
      BY <2>1, <2>2, <2>4, <3>1 DEF Over, Opening, Rows
    <3>3. Connections'
      BY <1>0, <2>1, <3>1 DEF WidgetTypes, Connections, NoOpen
    <3>4. QED
      BY <1>0, <2>1, <2>3, <3>2, <3>3 DEF WidgetTypes
  <2>6. CASE widget[w].conn # 0
    <3>1. PICK c : c = Len(convs) + 1
      OBVIOUS
    <3>2. Joins(w, conns[w], c) /\ c \in cs /\ conns[w] \in Nat /\ c # 0
      BY <1>0, <1>2, <2>2, <2>3, <2>6, <3>1 DEF CreateConversation
    <3>3. /\ widget'[w].conn = conns[w] /\ widget'[w].room = c /\ \A u \in Widgets : u # w => widget'[u] = widget[u]
          /\ widget' \in [Widgets -> Widget(Rows, cs)] /\ pipe' \in [Widgets -> Seq(Event(Rows, cs))]
          /\ opens' \in [Widgets -> Opening(Rows, cs)] /\ opens'[w] = [pc |-> "read", conv |-> c]
      BY <2>4, <3>2, JoinsTyped
    <3>4. /\ opens' = [opens EXCEPT ![w] = [pc |-> "read", conv |-> c]]
          /\ \A u \in Widgets : u # w => pipe'[u] = pipe[u]
      BY <1>0, <3>2 DEF Joins
    <3>6. Over(Rows, cs)'
      BY <2>1, <2>2, <2>4, <3>3 DEF Over, Rows
    <3>7. Connections'
      BY <1>0, <2>1, <2>6, <3>2, <3>3, <3>4 DEF WidgetTypes, Connections
    <3>8. QED
      BY <1>0, <2>1, <2>3, <3>6, <3>7 DEF WidgetTypes
  <2>7. QED
    BY <2>5, <2>6
<1>3. ASSUME NEW w \in Widgets, ReadHistory(w) PROVE WidgetTypes'
  <2>1. PICK rows \in MerchantHistory(opens[w].conv) :
          opens' = [opens EXCEPT ![w] = [pc |-> "history", conv |-> opens[w].conv, rows |-> rows]]
    BY <1>3 DEF ReadHistory
  <2>2. rows \in Seq(Rows)
    <3>1. PICK ms \in SUBSET Rows : rows \in InOrder(ms)
      BY DEF MerchantHistory
    <3>2. rows \in [1 .. Cardinality(ms) -> ms]
      BY <3>1 DEF InOrder
    <3>3. Cardinality(ms) \in Nat
      <4>1. IsFiniteSet(Rows)
        BY <1>0, FS_Interval
      <4>2. IsFiniteSet(ms)
        BY <4>1, FS_Subset
      <4>3. QED
        BY <4>2, FS_CardinalityType
    <3>4. QED
      BY <3>2, <3>3
  <2>3. opens[w].conv \in DOMAIN convs
    <3>1. opens[w] \in [pc : {"read"}, conv : DOMAIN convs]
      BY <1>0, <1>3 DEF ReadHistory, Opening, NoOpen
    <3>2. QED
      BY <3>1
  <2>4. [pc |-> "history", conv |-> opens[w].conv, rows |-> rows] \in Opening(Rows, DOMAIN convs)
    BY <2>2, <2>3 DEF Opening
  <2>5. UNCHANGED <<convs, msgs, widget, conns, pipe, posts>>
    BY <1>3 DEF ReadHistory
  <2>6. Over(Rows, DOMAIN convs)'
    BY <1>0, <2>1, <2>4, <2>5 DEF Over, Rows
  <2>7. Connections'
    BY <1>0, <1>3, <2>1, <2>5 DEF WidgetTypes, Connections, ReadHistory
  <2>8. QED
    BY <1>0, <2>5, <2>6, <2>7 DEF WidgetTypes
<1>4. ASSUME NEW w \in Widgets, SendHistory(w) PROVE WidgetTypes'
  <2>. DEFINE event == [kind |-> "history", rows |-> opens[w].rows]
  <2>1. event \in Event(Rows, DOMAIN convs)
    <3>1. opens[w] \in [pc : {"history"}, conv : DOMAIN convs, rows : Seq(Rows)]
      BY <1>0, <1>4 DEF SendHistory, Opening, NoOpen
    <3>2. opens[w].rows \in Seq(Rows)
      BY <3>1
    <3>3. QED
      BY <3>2 DEF Event
  <2>2. /\ pipe' = Emitted({w}, event) /\ opens' = [opens EXCEPT ![w] = NoOpen] /\ opens[w].pc = "history"
        /\ UNCHANGED <<convs, msgs, widget, conns, posts>>
    BY <1>4 DEF SendHistory
  <2>. HIDE DEF event
  <2>3. pipe' \in [Widgets -> Seq(Event(Rows, DOMAIN convs))]
    BY <1>0, <2>1, <2>2, EmittedTyped
  <2>4. \A u \in Widgets : widget[u].conn = 0 => pipe'[u] = pipe[u]
    BY <2>2 DEF WidgetTypes, Connections, Emitted
  <2>5. Over(Rows, DOMAIN convs)'
    BY <1>0, <2>2, <2>3 DEF Over, Rows, Opening
  <2>6. Connections'
    BY <1>0, <2>2, <2>4 DEF WidgetTypes, Connections, NoOpen
  <2>7. QED
    BY <1>0, <2>2, <2>5, <2>6 DEF WidgetTypes
<1>5. ASSUME NEW c \in DOMAIN convs, NEW kind \in Kinds, NEW from \in [tab : Widgets \cup {"none"}, conn : Nat],
             Posts(c, kind, from), UNCHANGED <<convs, widget, conns, pipe, opens>>
      PROVE  WidgetTypes'
  <2>1. Rows \subseteq Rows' /\ msgs' \in Seq(Row(DOMAIN convs)) /\ posts' \subseteq Posting(Rows')
    BY <1>5, PostsTyped
  <2>2. PICK ms : ms = Rows'
    OBVIOUS
  <2>3. Over(ms, DOMAIN convs)
    <3>1. Rows \subseteq ms /\ Over(Rows, DOMAIN convs) /\ DOMAIN convs \subseteq DOMAIN convs
      BY <1>0, <2>1, <2>2
    <3>2. QED
      BY <3>1, OverWidened
  <2>4. Over(ms, DOMAIN convs)'
    BY <1>5, <2>1, <2>2, <2>3 DEF Over
  <2>5. QED
    BY <1>0, <1>5, <2>2, <2>4 DEF WidgetTypes, Connections
<1>6. ASSUME NEW w \in Widgets, MerchantMessage(w) PROVE WidgetTypes'
  <2>1. widget[w].conv \in DOMAIN convs /\ widget[w].conn \in Nat
    BY <1>0, <1>6 DEF MerchantMessage, Widget
  <2>2. QED
    BY <1>5, <1>6, <2>1 DEF MerchantMessage, Kinds
<1>7. ASSUME OthersPost PROVE WidgetTypes'
  BY <1>5, <1>7 DEF OthersPost, Kinds
<1>8. ASSUME NEW p \in posts, TellRoom(p) PROVE WidgetTypes'
  <2>1. /\ Rows \subseteq Rows' /\ msgs' \in Seq(Row(DOMAIN convs)) /\ p.msg \in Rows
        /\ posts' \subseteq Posting(Rows')
    <3>1. \A q \in posts : q \in Posting(Rows)
      BY <1>0
    <3>2. CASE Rows' = Rows /\ posts' = posts \ {p}
      BY <1>8, <3>1, <3>2, TellRoomTyped
    <3>3. CASE /\ Rows' = Rows \cup {Len(msgs) + 1}
               /\ posts' = (posts \ {p}) \cup {[msg |-> Len(msgs) + 1, from |-> p.from]}
      <4>1. [msg |-> Len(msgs) + 1, from |-> p.from] \in Posting(Rows')
        BY <3>1, <3>3 DEF Posting
      <4>2. Posting(Rows) \subseteq Posting(Rows')
        BY <3>3 DEF Posting
      <4>3. QED
        BY <1>8, <3>1, <3>3, <4>1, <4>2, TellRoomTyped
    <3>4. QED
      BY <1>8, <3>2, <3>3, TellRoomTyped
  <2>2. PICK ms : ms = Rows'
    OBVIOUS
  <2>3. Over(ms, DOMAIN convs)
    <3>1. Rows \subseteq ms /\ Over(Rows, DOMAIN convs) /\ DOMAIN convs \subseteq DOMAIN convs
      BY <1>0, <2>1, <2>2
    <3>2. QED
      BY <3>1, OverWidened
  <2>4. /\ convs' \in Seq(Conversation(ms)) /\ DOMAIN convs' = DOMAIN convs
    <3>1. convs' \in Seq(Conversation(Rows)) /\ DOMAIN convs' = DOMAIN convs
      BY <1>8, <2>1, BumpedTyped DEF TellRoom
    <3>2. Seq(Conversation(Rows)) \subseteq Seq(Conversation(ms))
      BY <2>1, <2>2, Widened
    <3>3. QED
      BY <3>1, <3>2
  <2>5. pipe' \in [Widgets -> Seq(Event(ms, DOMAIN convs))] /\ \A u \in Widgets : widget[u].conn = 0 => pipe'[u] = pipe[u]
    <3>1. [kind |-> "message", msg |-> p.msg] \in Event(ms, DOMAIN convs)
      BY <2>1, <2>2 DEF Event
    <3>2. pipe \in [Widgets -> Seq(Event(ms, DOMAIN convs))]
      BY <2>3 DEF Over
    <3>3. pipe' = Emitted(InRoom(msgs[p.msg].conv), [kind |-> "message", msg |-> p.msg])
      BY <1>8 DEF TellRoom
    <3>4. Emitted(InRoom(msgs[p.msg].conv), [kind |-> "message", msg |-> p.msg]) \in [Widgets -> Seq(Event(ms, DOMAIN convs))]
      BY <3>1, <3>2, EmittedTyped
    <3>5. QED
      BY <3>3, <3>4 DEF Emitted, InRoom
  <2>6. UNCHANGED <<widget, conns, opens>>
    BY <1>8 DEF TellRoom
  <2>7. Over(ms, DOMAIN convs)'
    BY <2>1, <2>2, <2>3, <2>4, <2>5, <2>6 DEF Over
  <2>8. Connections'
    BY <2>5, <2>6 DEF WidgetTypes, Connections
  <2>9. QED
    BY <1>0, <2>2, <2>4, <2>6, <2>7, <2>8 DEF WidgetTypes
<1>9. ASSUME NEW p \in posts, TellNotice(p) \/ TellNobody(p) PROVE WidgetTypes'
  <2>1. /\ p.msg \in Rows /\ Bumped(p.msg) /\ UNCHANGED <<msgs, widget, conns, opens>> /\ posts' = posts \ {p}
    BY <1>0, <1>9 DEF TellNotice, TellNobody, Posting
  <2>2. convs' \in Seq(Conversation(Rows)) /\ DOMAIN convs' = DOMAIN convs
    BY <2>1, BumpedTyped
  <2>3. pipe' \in [Widgets -> Seq(Event(Rows, DOMAIN convs))] /\ \A u \in Widgets : widget[u].conn = 0 => pipe'[u] = pipe[u]
    <3>1. CASE TellNobody(p)
      BY <1>0, <3>1 DEF TellNobody
    <3>2. CASE TellNotice(p)
      <4>1. [kind |-> "message", msg |-> p.msg] \in Event(Rows, DOMAIN convs)
        BY <2>1 DEF Event
      <4>2. PICK sockets : /\ pipe' = Emitted(sockets, [kind |-> "message", msg |-> p.msg])
                           /\ sockets = {w \in Widgets : w = p.from.tab /\ widget[w].conn = p.from.conn}
        BY <3>2 DEF TellNotice
      <4>3. pipe' \in [Widgets -> Seq(Event(Rows, DOMAIN convs))]
        BY <1>0, <4>1, <4>2, EmittedTyped
      <4>4. ASSUME NEW u \in Widgets, widget[u].conn = 0 PROVE pipe'[u] = pipe[u]
        <5>1. p.from.conn # 0
          BY <3>2 DEF PostsInv, TellNotice
        <5>2. QED
          BY <4>2, <4>4, <5>1 DEF Emitted
      <4>5. QED
        BY <4>3, <4>4
    <3>3. QED
      BY <1>9, <3>1, <3>2
  <2>4. Over(Rows, DOMAIN convs)'
    BY <1>0, <2>1, <2>2, <2>3 DEF Over, Rows
  <2>5. Connections'
    BY <2>1, <2>3 DEF WidgetTypes, Connections
  <2>6. QED
    BY <1>0, <2>1, <2>4, <2>5 DEF WidgetTypes
<1>10. ASSUME NEW w \in Widgets, Receive(w) PROVE WidgetTypes'
  <2>1. UNCHANGED <<convs, msgs, conns, opens, posts>>
    BY <1>10 DEF Receive
  <2>2. Over(Rows, DOMAIN convs)'
    BY <1>0, <1>10, <2>1, ReceiveTyped DEF Over, Rows
  <2>3. Connections'
    <3>1. WidgetTypes
      OBVIOUS
    <3>2. /\ \A u \in Widgets : widget'[u].conn = widget[u].conn /\ widget'[u].room = widget[u].room
          /\ \A u \in Widgets : u # w => pipe'[u] = pipe[u]
          /\ pipe[w] # <<>>
      BY <1>10, <3>1, ReceiveTyped
    <3>3. widget[w].conn # 0
      BY <3>2 DEF WidgetTypes, Connections
    <3>4. ASSUME NEW u \in Widgets
          PROVE  /\ widget[u].conn \in {0, conns[u]}
                 /\ widget[u].conn = 0 => pipe'[u] = <<>> /\ widget[u].room = 0
                 /\ opens[u].pc \in {"read", "history"} => widget[u].conn # 0 /\ widget[u].room = opens[u].conv
                 /\ opens[u].pc = "create" => widget[u].room = 0
      BY <3>2, <3>3 DEF WidgetTypes, Connections
    <3>5. QED
      BY <2>1, <3>2, <3>4 DEF Connections
  <2>4. QED
    BY <1>0, <2>1, <2>2, <2>3 DEF WidgetTypes
<1>11. ASSUME NEW w \in Widgets, Disconnect(w) PROVE WidgetTypes'
  <2>1. /\ Dropped({w}) /\ opens' = [opens EXCEPT ![w] = IF opens[w].pc = "create" THEN opens[w] ELSE NoOpen]
        /\ UNCHANGED <<convs, msgs, conns, posts>>
    BY <1>11 DEF Disconnect
  <2>2. opens' \in [Widgets -> Opening(Rows, DOMAIN convs)]
    BY <1>0, <2>1 DEF Opening
  <2>3. Over(Rows, DOMAIN convs)'
    BY <1>0, <2>1, <2>2, DroppedTyped DEF Over, Rows
  <2>4. Connections'
    BY <1>0, <2>1, DroppedTyped DEF WidgetTypes, Connections, NoOpen
  <2>5. QED
    BY <1>0, <2>1, <2>3, <2>4 DEF WidgetTypes
<1>12. ASSUME ServerDies PROVE WidgetTypes'
  <2>1. Dropped(Widgets) /\ opens' = [u \in Widgets |-> NoOpen] /\ posts' = {} /\ UNCHANGED <<convs, msgs, conns>>
    BY <1>12 DEF ServerDies
  <2>2. opens' \in [Widgets -> Opening(Rows, DOMAIN convs)]
    BY <2>1 DEF Opening
  <2>3. Over(Rows, DOMAIN convs)'
    BY <1>0, <2>1, <2>2, DroppedTyped DEF Over, Rows
  <2>4. Connections'
    BY <1>0, <2>1, DroppedTyped DEF WidgetTypes, Connections, NoOpen
  <2>5. QED
    BY <1>0, <2>1, <2>3, <2>4 DEF WidgetTypes
<1>13. ASSUME SetStatus PROVE WidgetTypes'
  <2>1. PICK c \in DOMAIN convs, s \in {"OPEN", "CLOSED"} : convs' = [convs EXCEPT ![c] = [convs[c] EXCEPT !.status = s]]
    BY <1>13 DEF SetStatus
  <2>2. UNCHANGED <<msgs, widget, conns, pipe, opens, posts>>
    BY <1>13 DEF SetStatus
  <2>3. [convs[c] EXCEPT !.status = s] \in Conversation(Rows)
    <3>1. convs[c] \in Conversation(Rows)
      BY <1>0, ElementOfSeq
    <3>2. QED
      BY <3>1 DEF Conversation
  <2>4. convs' \in Seq(Conversation(Rows)) /\ DOMAIN convs' = DOMAIN convs
    BY <1>0, <2>1, <2>3, ExceptSeq
  <2>5. Over(Rows, DOMAIN convs)'
    BY <1>0, <2>2, <2>4 DEF Over, Rows
  <2>6. QED
    BY <1>0, <2>2, <2>5 DEF WidgetTypes, Connections
<1>14. CASE UNCHANGED vars
  BY <1>14 DEF vars, WidgetTypes, Over, Connections, Rows
<1>15. QED
  BY <1>1, <1>2, <1>3, <1>4, <1>6, <1>7, <1>8, <1>9, <1>10, <1>11, <1>12, <1>13, <1>14 DEF Next, Step

\* Messages stay what they are; they are told by TellRoom alone, and a new post has a new message.
LEMMA MessagesMove ==
  ASSUME WidgetTypes, [Next]_vars
  PROVE  /\ Rows \subseteq Rows' /\ \A m \in Rows : msgs'[m].conv = msgs[m].conv /\ msgs'[m].kind = msgs[m].kind
         /\ \A m \in Rows' \ Rows : msgs'[m].to = "nobody"
         /\ \A m \in Rows : msgs'[m].to = msgs[m].to \/ \E p \in posts : TellRoom(p) /\ p.msg = m
         /\ \A q \in posts' : q \in posts \/ q.msg \notin Rows
         /\ \A p, q \in posts' : p.msg = q.msg => p = q \/ (p \in posts /\ q \in posts)
<1>1. ASSUME NEW c \in DOMAIN convs, NEW kind \in Kinds, NEW from \in [tab : Widgets \cup {"none"}, conn : Nat], Posts(c, kind, from)
      PROVE  /\ Rows \subseteq Rows' /\ \A m \in Rows : msgs'[m] = msgs[m]
             /\ \A m \in Rows' \ Rows : msgs'[m].to = "nobody"
             /\ \A q \in posts' : q \in posts \/ q.msg \notin Rows
             /\ \A p, q \in posts' : p.msg = q.msg => p = q \/ (p \in posts /\ q \in posts)
  <2>1. posts' = posts \cup {[msg |-> Len(msgs) + 1, from |-> from]}
    BY <1>1 DEF Posts
  <2>2. \A p \in posts : p.msg \in Rows
    BY DEF WidgetTypes, Over, Posting
  <2>3. PICK n : n = Len(msgs) + 1
    OBVIOUS
  <2>4. /\ Rows' = Rows \cup {n} /\ n \notin Rows /\ \A m \in Rows : msgs'[m] = msgs[m]
        /\ msgs'[n] = [conv |-> c, kind |-> kind, to |-> "nobody"]
    BY <1>1, <2>3, PostsTyped
  <2>5. msgs'[n].to = "nobody"
    BY <2>4
  <2>6. PICK q : q = [msg |-> n, from |-> from]
    OBVIOUS
  <2>7. q.msg = n /\ posts' = posts \cup {q}
    BY <2>1, <2>3, <2>6
  <2>8. QED
    BY <2>2, <2>4, <2>5, <2>7
<1>2. ASSUME NEW w \in Widgets, MerchantMessage(w)
      PROVE  /\ Rows \subseteq Rows' /\ \A m \in Rows : msgs'[m] = msgs[m]
             /\ \A m \in Rows' \ Rows : msgs'[m].to = "nobody"
             /\ \A q \in posts' : q \in posts \/ q.msg \notin Rows
             /\ \A p, q \in posts' : p.msg = q.msg => p = q \/ (p \in posts /\ q \in posts)
  <2>1. widget[w].conv \in DOMAIN convs /\ widget[w].conn \in Nat
    BY <1>2 DEF MerchantMessage, WidgetTypes, Over, Widget
  <2>2. QED
    BY <1>1, <1>2, <2>1 DEF MerchantMessage, Kinds
<1>3. ASSUME OthersPost
      PROVE  /\ Rows \subseteq Rows' /\ \A m \in Rows : msgs'[m] = msgs[m]
             /\ \A m \in Rows' \ Rows : msgs'[m].to = "nobody"
             /\ \A q \in posts' : q \in posts \/ q.msg \notin Rows
             /\ \A p, q \in posts' : p.msg = q.msg => p = q \/ (p \in posts /\ q \in posts)
  BY <1>1, <1>3 DEF OthersPost, Kinds
<1>4. ASSUME NEW p \in posts, TellRoom(p)
      PROVE  /\ Rows \subseteq Rows' /\ \A m \in Rows : msgs'[m].conv = msgs[m].conv /\ msgs'[m].kind = msgs[m].kind
             /\ \A m \in Rows' \ Rows : msgs'[m].to = "nobody"
             /\ \A m \in Rows : msgs'[m].to = msgs[m].to \/ p.msg = m
             /\ \A q \in posts' : q \in posts \/ q.msg \notin Rows
             /\ \A q, r \in posts' : q.msg = r.msg => q = r \/ (q \in posts /\ r \in posts)
  <2>1. \A q \in posts : q.msg \in Rows
    BY DEF WidgetTypes, Over, Posting
  <2>2. PICK n, q : n = Len(msgs) + 1 /\ q = [msg |-> n, from |-> p.from]
    OBVIOUS
  <2>3. /\ p.msg \in Rows
        /\ \A m \in Rows : /\ msgs'[m].conv = msgs[m].conv /\ msgs'[m].kind = msgs[m].kind
                           /\ msgs'[m].to = IF m = p.msg THEN "room" ELSE msgs[m].to
    BY <1>4, TellRoomTyped
  <2>4. \/ Rows' = Rows /\ posts' = posts \ {p}
        \/ /\ Rows' = Rows \cup {n} /\ n \notin Rows
           /\ msgs'[n] = [conv |-> msgs[p.msg].conv, kind |-> "notice", to |-> "nobody"]
           /\ posts' = (posts \ {p}) \cup {q}
    BY <1>4, <2>2, TellRoomTyped
  <2>5. /\ Rows \subseteq Rows' /\ \A m \in Rows' \ Rows : msgs'[m].to = "nobody"
    BY <2>4
  <2>6. q.msg = n
    BY <2>2
  <2>7. \A r \in posts' : r \in posts \/ r.msg \notin Rows
    BY <2>4, <2>6
  <2>8. \A r, s \in posts' : r.msg = s.msg => r = s \/ (r \in posts /\ s \in posts)
    BY <2>1, <2>4, <2>6
  <2>9. QED
    BY <2>3, <2>5, <2>7, <2>8
<1>5. CASE msgs' = msgs /\ posts' \subseteq posts
  BY <1>5 DEF Rows
<1>6. \/ msgs' = msgs /\ posts' \subseteq posts
      \/ (\E w \in Widgets : MerchantMessage(w)) \/ OthersPost \/ \E p \in posts : TellRoom(p)
  BY DEF Next, Step, vars, Connect, CreateConversation, ReadHistory, SendHistory, Receive, Disconnect, TellNotice,
         TellNobody, ServerDies, SetStatus
<1>7. QED
  BY <1>2, <1>3, <1>4, <1>5, <1>6

\* A post is of its own message, and whoever opens its conversation meanwhile is marked.
LEMMA PostsStep == WidgetTypes /\ PostsInv /\ [Next]_vars => PostsInv'
<1>. SUFFICES ASSUME WidgetTypes, PostsInv, [Next]_vars PROVE PostsInv'
  OBVIOUS
<1>0. /\ Rows \subseteq Rows' /\ \A m \in Rows : msgs'[m].conv = msgs[m].conv /\ msgs'[m].kind = msgs[m].kind
      /\ \A m \in Rows' \ Rows : msgs'[m].to = "nobody"
      /\ \A m \in Rows : msgs'[m].to = msgs[m].to \/ \E p \in posts : TellRoom(p) /\ p.msg = m
      /\ \A q \in posts' : q \in posts \/ q.msg \notin Rows
      /\ \A p, q \in posts' : p.msg = q.msg => p = q \/ (p \in posts /\ q \in posts)
      /\ \A p \in posts : p.msg \in Rows
  BY MessagesMove DEF WidgetTypes, Over, Posting
<1>1. \A p, q \in posts' : p.msg = q.msg => p = q
  BY <1>0 DEF PostsInv
<1>2. ASSUME NEW m \in Rows', msgs'[m].to = "room" PROVE msgs'[m].kind \in {"merchant", "reply"}
  <2>1. m \in Rows
    BY <1>0, <1>2
  <2>2. msgs'[m].kind = msgs[m].kind
    BY <1>0, <2>1
  <2>3. CASE msgs'[m].to = msgs[m].to
    BY <1>2, <2>1, <2>2, <2>3 DEF PostsInv
  <2>4. CASE \E p \in posts : TellRoom(p) /\ p.msg = m
    BY <2>2, <2>4 DEF TellRoom
  <2>5. QED
    BY <1>0, <2>1, <2>3, <2>4
<1>3. \A w \in Widgets : Races(w)' => w \in raced'
  <2>1. CASE Next
    BY <2>1 DEF Next
  <2>2. CASE UNCHANGED vars
    BY <2>2 DEF vars, Races, PostsInv
  <2>3. QED
    BY <2>1, <2>2
<1>4. ASSUME NEW q \in posts', msgs'[q.msg].kind \in {"merchant", "notice"} PROVE q.from.conn # 0
  <2>1. CASE q \in posts
    BY <1>0, <1>4, <2>1 DEF PostsInv
  <2>2. CASE q \notin posts
    <3>1. ASSUME NEW w \in Widgets, MerchantMessage(w) PROVE q.from.conn # 0
      BY <2>2, <3>1 DEF MerchantMessage, Posts
    <3>2. ASSUME OthersPost PROVE FALSE
      <4>1. PICK c \in DOMAIN convs, kind \in {"reply", "note", "announcement"} : Posts(c, kind, [tab |-> "none", conn |-> 0])
        BY <3>2 DEF OthersPost
      <4>2. PICK n : n = Len(msgs) + 1
        OBVIOUS
      <4>3. q.msg = n
        BY <2>2, <4>1, <4>2 DEF Posts
      <4>4. PICK from : from = [tab |-> "none", conn |-> 0]
        OBVIOUS
      <4>7. from \in [tab : Widgets \cup {"none"}, conn : Nat] /\ kind \in Kinds /\ Posts(c, kind, from)
        BY <4>1, <4>4 DEF Kinds
      <4>8. msgs'[n] = [conv |-> c, kind |-> kind, to |-> "nobody"]
        BY <4>2, <4>7, PostsTyped
      <4>5. msgs'[n].kind = kind
        BY <4>8
      <4>6. QED
        BY <1>4, <4>3, <4>5
    <3>3. ASSUME NEW p \in posts, TellRoom(p) PROVE q.from.conn # 0
      <4>1. q.from = p.from
        BY <2>2, <3>3 DEF TellRoom
      <4>2. msgs[p.msg].kind # "reply"
        BY <2>2, <3>3 DEF TellRoom
      <4>3. msgs[p.msg].kind = "merchant"
        BY <3>3, <4>2 DEF TellRoom
      <4>4. QED
        BY <4>1, <4>3 DEF PostsInv
    <3>4. posts' \subseteq posts \/ (\E w \in Widgets : MerchantMessage(w)) \/ OthersPost \/ \E p \in posts : TellRoom(p)
      BY DEF Next, Step, vars, Connect, CreateConversation, ReadHistory, SendHistory, Receive, Disconnect, TellNotice,
             TellNobody, ServerDies, SetStatus
    <3>5. QED
      BY <2>2, <3>1, <3>2, <3>3, <3>4
  <2>3. QED
    BY <2>1, <2>2
<1>5. QED
  BY <1>1, <1>2, <1>3, <1>4 DEF PostsInv

-----------------------------------------------------------------------------
(* The widgets: the screen a tab will have when it has received its line   *)
(* of events.  The cut k is the place of the history in the line, or 0.    *)

Base(screen, line, k) == IF k = 0 THEN screen ELSE line[k].rows
Coming(line, k) == {i \in DOMAIN line : k < i /\ line[i].kind = "message"}
Due(screen, line, k) == ToSet(Base(screen, line, k)) \cup {line[i].msg : i \in Coming(line, k)}

\* Each message will be on the screen once.
Once(screen, line, k) ==
  /\ k \in Nat
  /\ k # 0 => k \in DOMAIN line /\ line[k].kind = "history"
  /\ \A i \in DOMAIN line : line[i].kind = "history" => i <= k
  /\ IsInjective(Base(screen, line, k))
  /\ \A i \in Coming(line, k) : line[i].msg \notin ToSet(Base(screen, line, k))
  /\ \A i, j \in Coming(line, k) : line[i].msg = line[j].msg => i = j

\* Appending to a line.
LEMMA LineGrows ==
  ASSUME NEW S, NEW line \in Seq(S), NEW e \in S
  PROVE  /\ Len(line) \in Nat /\ DOMAIN line = 1 .. Len(line) /\ DOMAIN Append(line, e) = 1 .. Len(line) + 1
         /\ \A i \in DOMAIN line : Append(line, e)[i] = line[i]
         /\ Append(line, e)[Len(line) + 1] = e
<1>1. Append(line, e) \in Seq(S) /\ Len(Append(line, e)) = Len(line) + 1
  BY AppendProperties
<1>2. QED
  BY <1>1, AppendProperties, LenProperties

\* A message that is not yet due is due once it is emitted.
LEMMA DueGrows ==
  ASSUME NEW S, NEW screen, NEW line \in Seq(S), NEW k, Once(screen, line, k),
         NEW e \in S, e.kind = "message", e.msg \notin Due(screen, line, k)
  PROVE  Once(screen, Append(line, e), k) /\ Due(screen, Append(line, e), k) = Due(screen, line, k) \cup {e.msg}
<1>1. PICK n, more : n = Len(line) + 1 /\ more = Append(line, e)
  OBVIOUS
<1>2. /\ n \in Nat /\ DOMAIN line = 1 .. Len(line) /\ Len(line) \in Nat /\ DOMAIN more = DOMAIN line \cup {n} /\ n \notin DOMAIN line
      /\ \A i \in DOMAIN line : more[i] = line[i] /\ i < n
      /\ more[n] = e
  BY <1>1, LineGrows
<1>3. k \in Nat /\ k < n
  <2>1. k \in Nat /\ (k # 0 => k \in DOMAIN line)
    BY DEF Once
  <2>2. n # 0
    BY <1>1, <1>2
  <2>3. QED
    BY <1>2, <2>1, <2>2
<1>4. Coming(more, k) = Coming(line, k) \cup {n}
  BY <1>2, <1>3 DEF Coming
<1>5. Base(screen, more, k) = Base(screen, line, k)
  BY <1>2 DEF Base, Once
<1>6. \A i \in Coming(line, k) : more[i].msg = line[i].msg /\ i \in DOMAIN line
  BY <1>2 DEF Coming
<1>7. Due(screen, more, k) = Due(screen, line, k) \cup {e.msg}
  BY <1>2, <1>4, <1>5, <1>6 DEF Due
<1>8. k # 0 => k \in DOMAIN more /\ more[k].kind = "history"
  BY <1>2 DEF Once
<1>9. \A i \in DOMAIN more : more[i].kind = "history" => i <= k
  <2>1. more[n].kind # "history"
    BY <1>2
  <2>2. QED
    BY <1>2, <2>1 DEF Once
<1>10. \A i \in Coming(more, k) : more[i].msg \notin ToSet(Base(screen, more, k))
  BY <1>2, <1>4, <1>5, <1>6 DEF Once, Due
<1>11. \A i, j \in Coming(more, k) : more[i].msg = more[j].msg => i = j
  BY <1>2, <1>4, <1>6 DEF Once, Due
<1>12. IsInjective(Base(screen, more, k))
  BY <1>5 DEF Once
<1>14. Once(screen, more, k)
  BY <1>3, <1>8, <1>9, <1>10, <1>11, <1>12 DEF Once
<1>13. QED
  BY <1>1, <1>7, <1>14

\* A history replaces the screen, whatever precedes it.
LEMMA HistoryDue ==
  ASSUME NEW screen, NEW more, NEW k \in Nat, k # 0, DOMAIN more = 1 .. k, more[k].kind = "history", IsInjective(more[k].rows)
  PROVE  Once(screen, more, k) /\ Due(screen, more, k) = ToSet(more[k].rows)
<1>1. Coming(more, k) = {} /\ Base(screen, more, k) = more[k].rows
  BY DEF Coming, Base
<1>2. k \in DOMAIN more /\ \A i \in DOMAIN more : i <= k
  OBVIOUS
<1>3. Due(screen, more, k) = ToSet(more[k].rows)
  BY <1>1 DEF Due
<1>4. QED
  BY <1>1, <1>2, <1>3 DEF Once

\* Receiving an event changes nothing of what is due.
LEMMA DueReceived ==
  ASSUME NEW ms, NEW cs, NEW screen \in Seq(ms), NEW line \in Seq(Event(ms, cs)), line # <<>>, NEW k, Once(screen, line, k),
         NEW after \in Seq(ms),
         Head(line).kind = "history" => after = Head(line).rows,
         Head(line).kind = "message" => after = Append(screen, Head(line).msg),
         Head(line).kind = "conversation" => after = screen
  PROVE  \E j : Once(after, Tail(line), j) /\ Due(after, Tail(line), j) = Due(screen, line, k)
<1>0. PICK rest : rest = Tail(line)
  OBVIOUS
<1>. SUFFICES \E j : Once(after, rest, j) /\ Due(after, rest, j) = Due(screen, line, k)
  BY <1>0
<1>1. /\ Len(line) \in Nat /\ Len(line) # 0 /\ DOMAIN line = 1 .. Len(line) /\ DOMAIN rest = 1 .. Len(line) - 1
      /\ \A i \in DOMAIN rest : rest[i] = line[i + 1]
      /\ Head(line) = line[1] /\ line[1] \in Event(ms, cs)
  <2>1. rest \in Seq(Event(ms, cs)) /\ Len(rest) = Len(line) - 1 /\ \A i \in 1 .. Len(rest) : rest[i] = line[i + 1]
    BY <1>0, HeadTailProperties
  <2>2. Head(line) = line[1] /\ Head(line) \in Event(ms, cs)
    BY HeadTailProperties
  <2>3. Len(line) \in Nat /\ DOMAIN line = 1 .. Len(line) /\ DOMAIN rest = 1 .. Len(rest) /\ Len(line) # 0
    BY <2>1, LenProperties, EmptySeq
  <2>4. QED
    BY <2>1, <2>2, <2>3
<1>2. /\ 1 \in DOMAIN line /\ \A i \in DOMAIN rest : i \in Nat /\ i + 1 \in DOMAIN line /\ i + 1 # 1
      /\ \A i \in DOMAIN line : i \in Nat /\ (i # 1 => i - 1 \in DOMAIN rest /\ rest[i - 1] = line[i])
  BY <1>1
<1>3. k \in Nat
  BY DEF Once
<1>4. CASE k # 0
  <2>1. PICK j : j = k - 1
    OBVIOUS
  <2>2. k \in DOMAIN line /\ line[k].kind = "history" /\ j \in Nat /\ (j # 0 => j \in DOMAIN rest /\ rest[j] = line[k])
    <3>1. k \in DOMAIN line /\ line[k].kind = "history"
      BY <1>4 DEF Once
    <3>2. k # 1 => j \in DOMAIN rest /\ rest[j] = line[k]
      BY <1>2, <2>1, <3>1
    <3>3. j \in Nat /\ (j # 0 => k # 1)
      BY <1>3, <1>4, <2>1
    <3>4. QED
      BY <3>1, <3>2, <3>3
  <2>3. Base(after, rest, j) = line[k].rows /\ Base(screen, line, k) = line[k].rows
    <3>1. CASE j = 0
      BY <1>1, <1>3, <1>4, <2>1, <2>2, <3>1 DEF Base
    <3>2. CASE j # 0
      BY <1>4, <2>2, <3>2 DEF Base
    <3>3. QED
      BY <3>1, <3>2
  <2>4. \A i \in DOMAIN rest : i \in Coming(rest, j) <=> i + 1 \in Coming(line, k)
    BY <1>1, <1>2, <1>3, <2>1 DEF Coming
  <2>5. \A i \in Coming(line, k) : i # 1 /\ i \in DOMAIN line /\ i - 1 \in Coming(rest, j) /\ rest[i - 1].msg = line[i].msg
    BY <1>1, <1>2, <1>3, <1>4, <2>1 DEF Coming
  <2>6. \A i \in Coming(rest, j) : i \in DOMAIN rest /\ i + 1 \in Coming(line, k) /\ rest[i].msg = line[i + 1].msg
    BY <1>1, <2>4 DEF Coming
  <2>7. {rest[i].msg : i \in Coming(rest, j)} = {line[i].msg : i \in Coming(line, k)}
    BY <2>5, <2>6
  <2>8. Due(after, rest, j) = Due(screen, line, k)
    BY <2>3, <2>7 DEF Due
  <2>9. \A i \in DOMAIN rest : rest[i].kind = "history" => i <= j
    BY <1>1, <1>2, <1>3, <2>1 DEF Once
  <2>10. \A i \in Coming(rest, j) : rest[i].msg \notin ToSet(line[k].rows)
    BY <2>3, <2>6 DEF Once
  <2>11. \A i, l \in Coming(rest, j) : rest[i].msg = rest[l].msg => i = l
    <3>1. SUFFICES ASSUME NEW i \in Coming(rest, j), NEW l \in Coming(rest, j), rest[i].msg = rest[l].msg PROVE i = l
      OBVIOUS
    <3>2. i + 1 = l + 1
      BY <2>6, <3>1 DEF Once
    <3>3. QED
      BY <1>2, <2>6, <3>2
  <2>12. IsInjective(line[k].rows)
    BY <2>3 DEF Once
  <2>13. Once(after, rest, j)
    BY <2>2, <2>3, <2>9, <2>10, <2>11, <2>12 DEF Once
  <2>14. QED
    BY <2>8, <2>13
<1>5. CASE k = 0
  <2>1. Base(after, rest, k) = after /\ Base(screen, line, k) = screen
    BY <1>5 DEF Base
  <2>2. line[1].kind # "history"
    BY <1>2, <1>5 DEF Once
  <2>3. \A i \in DOMAIN rest : i \in Coming(rest, k) <=> i + 1 \in Coming(line, k)
    BY <1>1, <1>2, <1>5 DEF Coming
  <2>4. \A i \in Coming(line, k) : i # 1 => i \in DOMAIN line /\ i - 1 \in Coming(rest, k) /\ rest[i - 1].msg = line[i].msg
    BY <1>1, <1>2, <1>5 DEF Coming
  <2>5. \A i \in Coming(rest, k) : i \in DOMAIN rest /\ i + 1 \in Coming(line, k) /\ i + 1 # 1 /\ rest[i].msg = line[i + 1].msg
    BY <1>1, <1>2, <2>3 DEF Coming
  <2>6. 1 \in Coming(line, k) <=> line[1].kind = "message"
    BY <1>2, <1>5 DEF Coming
  <2>7. \A i \in DOMAIN rest : rest[i].kind = "history" => i <= k
    BY <1>1, <1>2, <1>5 DEF Once
  <2>8. \A i, l \in Coming(rest, k) : rest[i].msg = rest[l].msg => i = l
    <3>1. SUFFICES ASSUME NEW i \in Coming(rest, k), NEW l \in Coming(rest, k), rest[i].msg = rest[l].msg PROVE i = l
      OBVIOUS
    <3>2. i + 1 = l + 1
      BY <2>5, <3>1 DEF Once
    <3>3. QED
      BY <1>2, <2>5, <3>2
  <2>9. CASE line[1].kind = "conversation"
    <3>1. after = screen
      BY <1>1, <2>9
    <3>8. 1 \notin Coming(line, k)
      BY <2>6, <2>9
    <3>2. {rest[i].msg : i \in Coming(rest, k)} = {line[i].msg : i \in Coming(line, k)}
      <4>1. \A i \in Coming(line, k) : \E j \in Coming(rest, k) : rest[j].msg = line[i].msg
        BY <2>4, <3>8
      <4>2. \A i \in Coming(rest, k) : \E j \in Coming(line, k) : rest[i].msg = line[j].msg
        BY <2>5
      <4>3. QED
        BY <4>1, <4>2
    <3>3. Due(after, rest, k) = Due(screen, line, k)
      BY <2>1, <3>1, <3>2 DEF Due
    <3>4. \A i \in Coming(rest, k) : rest[i].msg \notin ToSet(after)
      BY <2>1, <2>5, <3>1 DEF Once
    <3>5. IsInjective(after)
      BY <2>1, <3>1 DEF Once
    <3>6. Once(after, rest, k)
      BY <1>3, <1>5, <2>1, <2>7, <2>8, <3>4, <3>5 DEF Once
    <3>7. QED
      BY <3>3, <3>6
  <2>10. CASE line[1].kind = "message"
    <3>1. PICK m : m = line[1].msg
      OBVIOUS
    <3>2. m \in ms /\ after = Append(screen, m)
      BY <1>1, <2>10, <3>1 DEF Event
    <3>3. PICK n : n = Len(screen) + 1
      OBVIOUS
    <3>4. /\ DOMAIN after = DOMAIN screen \cup {n} /\ n \notin DOMAIN screen
          /\ \A i \in DOMAIN screen : after[i] = screen[i]
          /\ after[n] = m
      BY <3>2, <3>3, LineGrows
    <3>5. ToSet(after) = ToSet(screen) \cup {m}
      BY <3>4 DEF ToSet
    <3>6. m \notin ToSet(screen) /\ IsInjective(screen)
      BY <2>1, <2>6, <2>10, <3>1 DEF Once
    <3>7. IsInjective(after)
      BY <3>4, <3>6 DEF IsInjective, ToSet
    <3>8. {line[i].msg : i \in Coming(line, k)} = {rest[i].msg : i \in Coming(rest, k)} \cup {m}
      <4>1. \A i \in Coming(line, k) : i = 1 \/ \E j \in Coming(rest, k) : rest[j].msg = line[i].msg
        BY <2>4
      <4>2. \A i \in Coming(rest, k) : \E j \in Coming(line, k) : rest[i].msg = line[j].msg
        BY <2>5
      <4>3. 1 \in Coming(line, k) /\ line[1].msg = m
        BY <2>6, <2>10, <3>1
      <4>4. QED
        BY <4>1, <4>2, <4>3
    <3>9. Due(after, rest, k) = Due(screen, line, k)
      BY <2>1, <3>5, <3>8 DEF Due
    <3>10. \A i \in Coming(rest, k) : rest[i].msg \notin ToSet(screen) /\ rest[i].msg # m
      BY <2>1, <2>5, <2>6, <2>10, <3>1 DEF Once
    <3>11. \A i \in Coming(rest, k) : rest[i].msg \notin ToSet(after)
      BY <3>5, <3>10
    <3>12. Once(after, rest, k)
      BY <1>3, <1>5, <2>1, <2>7, <2>8, <3>7, <3>11 DEF Once
    <3>13. QED
      BY <3>9, <3>12
  <2>11. QED
    BY <1>1, <2>2, <2>9, <2>10 DEF Event
<1>6. QED
  BY <1>4, <1>5

-----------------------------------------------------------------------------
(* The widgets: what a tab has been told.                                  *)

Told(c) == {m \in Rows : msgs[m].conv = c /\ msgs[m].to = "room"}
Showable(m, c) == msgs[m].kind = "notice" \/ (msgs[m].conv = c /\ msgs[m].kind # "note")

\* Unless a message was being posted meanwhile, the history that has been read has all that was told.
HistoryInv ==
  \A w \in Widgets : w \notin raced /\ opens[w].pc = "history" =>
    /\ IsInjective(opens[w].rows)
    /\ \A m \in ToSet(opens[w].rows) : m \in Rows /\ msgs[m].conv = opens[w].conv /\ msgs[m].kind # "note"
    /\ Told(opens[w].conv) \subseteq ToSet(opens[w].rows)

\* What a tab's screen will have is all that was told, and nothing that is yet to be told.
Settled(w, k) ==
  LET due == Due(widget[w].shown, pipe[w], k) IN
  /\ Once(widget[w].shown, pipe[w], k)
  /\ \A m \in due : m \in Rows /\ Showable(m, widget[w].room)
  /\ \A p \in posts : p.msg \notin due
  /\ Told(widget[w].room) \subseteq due

ShownInv ==
  \A w \in Widgets : w \notin raced /\ widget[w].room # 0 /\ opens[w].pc = "none" => \E k : Settled(w, k)

WidgetInv == WidgetTypes /\ PostsInv /\ HistoryInv /\ ShownInv

\* A tab that is not marked was not, unless it has connected anew.
LEMMA RacedStays ==
  ASSUME [Next]_vars, NEW w \in Widgets, w \notin raced', conns'[w] = conns[w]
  PROVE  w \notin raced
BY DEF Next, vars

\* What is told to a room is new to it, and not yet to another.
LEMMA ToldMoves ==
  ASSUME WidgetTypes, PostsInv, [Next]_vars, NEW c
  PROVE  \A m \in Told(c)' : m \in Told(c) \/ \E p \in posts : TellRoom(p) /\ p.msg = m /\ msgs[m].conv = c
<1>. SUFFICES ASSUME NEW m, m \in Told(c)', m \notin Told(c)
              PROVE  \E p \in posts : TellRoom(p) /\ p.msg = m /\ msgs[m].conv = c
  OBVIOUS
<1>1. m \in Rows' /\ msgs'[m].conv = c /\ msgs'[m].to = "room"
  BY DEF Told, Rows
<1>2. m \in Rows /\ msgs[m].conv = c
  BY <1>1, MessagesMove
<1>3. msgs[m].to # "room"
  BY <1>2 DEF Told
<1>4. PICK p \in posts : TellRoom(p) /\ p.msg = m
  BY <1>1, <1>2, <1>3, MessagesMove
<1>5. QED
  BY <1>2, <1>4

\* What is read in merchant:open is the whole history, unless a message was being posted.
LEMMA HistoryStep == WidgetInv /\ [Next]_vars => HistoryInv'
<1>. SUFFICES ASSUME WidgetInv, [Next]_vars, NEW w \in Widgets, w \notin raced', opens'[w].pc = "history"
              PROVE  /\ IsInjective(opens'[w].rows)
                     /\ \A m \in ToSet(opens'[w].rows) : m \in Rows' /\ msgs'[m].conv = opens'[w].conv /\ msgs'[m].kind # "note"
                     /\ Told(opens[w].conv)' \subseteq ToSet(opens'[w].rows)
  BY DEF HistoryInv, Told, Rows
<1>0. WidgetTypes /\ PostsInv /\ HistoryInv /\ opens \in [Widgets -> Opening(Rows, DOMAIN convs)]
  BY DEF WidgetInv, WidgetTypes, Over
<1>1. (opens'[w] = opens[w] /\ conns'[w] = conns[w]) \/ ReadHistory(w)
  <2>1. ASSUME NEW u \in Widgets, Connect(u) PROVE opens'[w] = opens[w] /\ conns'[w] = conns[w]
    <3>1. PICK e : opens' = [opens EXCEPT ![u] = e] /\ e.pc \in {"create", "read"}
      <4>1. [pc |-> "create"].pc = "create" /\ \A c : [pc |-> "read", conv |-> c].pc = "read"
        OBVIOUS
      <4>2. \/ opens' = [opens EXCEPT ![u] = [pc |-> "create"]]
            \/ \E c : opens' = [opens EXCEPT ![u] = [pc |-> "read", conv |-> c]]
        BY <2>1 DEF Connect, Joins
      <4>3. QED
        BY <4>1, <4>2
    <3>2. u # w
      BY <1>0, <3>1
    <3>3. conns' = [conns EXCEPT ![u] = conns[u] + 1]
      BY <2>1 DEF Connect
    <3>4. QED
      BY <1>0, <3>1, <3>2, <3>3 DEF WidgetTypes
  <2>2. ASSUME NEW u \in Widgets, CreateConversation(u) PROVE opens'[w] = opens[w] /\ conns'[w] = conns[w]
    BY <1>0, <2>2 DEF CreateConversation, Joins, NoOpen
  <2>3. ASSUME NEW u \in Widgets, ReadHistory(u), u # w PROVE opens'[w] = opens[w] /\ conns'[w] = conns[w]
    BY <1>0, <2>3 DEF ReadHistory
  <2>4. ASSUME NEW u \in Widgets, SendHistory(u) \/ Disconnect(u) PROVE opens'[w] = opens[w] /\ conns'[w] = conns[w]
    BY <1>0, <2>4 DEF SendHistory, Disconnect, NoOpen
  <2>5. ~ServerDies
    BY DEF ServerDies, NoOpen
  <2>6. \/ \E u \in Widgets : Connect(u) \/ CreateConversation(u) \/ ReadHistory(u) \/ SendHistory(u) \/ Disconnect(u)
        \/ ServerDies
        \/ opens'[w] = opens[w] /\ conns'[w] = conns[w]
    BY DEF Next, Step, vars, MerchantMessage, OthersPost, TellRoom, TellNotice, TellNobody, Receive, SetStatus
  <2>7. QED
    BY <2>1, <2>2, <2>3, <2>4, <2>5, <2>6
<1>2. CASE opens'[w] = opens[w] /\ conns'[w] = conns[w]
  <2>1. w \notin raced
    BY <1>2, RacedStays
  <2>2. /\ IsInjective(opens[w].rows)
        /\ \A m \in ToSet(opens[w].rows) : m \in Rows /\ msgs[m].conv = opens[w].conv /\ msgs[m].kind # "note"
        /\ Told(opens[w].conv) \subseteq ToSet(opens[w].rows)
    BY <1>0, <1>2, <2>1 DEF HistoryInv
  <2>3. \A p \in posts : msgs[p.msg].conv # opens[w].conv
    BY <1>0, <1>2, <2>1 DEF PostsInv, Races
  <2>4. PICK c : c = opens[w].conv
    OBVIOUS
  <2>5. Told(c)' \subseteq Told(c)
    BY <1>0, <2>3, <2>4, ToldMoves
  <2>6. Told(opens[w].conv)' = Told(c)'
    BY <1>2, <2>4 DEF Told
  <2>7. QED
    BY <1>0, <1>2, <2>2, <2>4, <2>5, <2>6, MessagesMove
<1>3. CASE ReadHistory(w)
  <2>1. PICK c : c = opens[w].conv
    OBVIOUS
  <2>2. PICK rows \in MerchantHistory(c) : opens' = [opens EXCEPT ![w] = [pc |-> "history", conv |-> c, rows |-> rows]]
    BY <1>3, <2>1 DEF ReadHistory
  <2>3. opens'[w].conv = c /\ opens'[w].rows = rows
    BY <1>0, <2>2
  <2>4. msgs' = msgs
    BY <1>3 DEF ReadHistory
  <2>5. PICK ms : ms = {m \in Rows : msgs[m].conv = c /\ msgs[m].kind # "note"}
    OBVIOUS
  <2>6. ToSet(rows) = ms /\ rows \in [1 .. Cardinality(ms) -> ms] /\ \A i, j \in DOMAIN rows : i < j => rows[i] < rows[j]
    BY <2>2, <2>5 DEF MerchantHistory, InOrder
  <2>7. IsInjective(rows)
    <3>1. SUFFICES ASSUME NEW i \in DOMAIN rows, NEW j \in DOMAIN rows, rows[i] = rows[j], i # j PROVE FALSE
      BY DEF IsInjective
    <3>2. i \in Int /\ j \in Int
      BY <2>6
    <3>3. rows[i] \in Int
      <4>1. rows[i] \in Rows
        BY <2>5, <2>6
      <4>2. msgs \in Seq(Row(DOMAIN convs))
        BY <1>0 DEF WidgetTypes, Over
      <4>3. Rows = 1 .. Len(msgs)
        BY <4>2, LenProperties DEF Rows
      <4>4. QED
        BY <4>1, <4>3
    <3>4. i < j \/ j < i
      BY <3>1, <3>2
    <3>5. rows[i] < rows[j] \/ rows[j] < rows[i]
      BY <2>6, <3>4
    <3>6. QED
      BY <3>1, <3>3, <3>5
  <2>8. Told(c) \subseteq ms
    BY <1>0, <2>5 DEF Told, PostsInv
  <2>9. Told(opens[w].conv)' = Told(c)
    BY <2>3, <2>4 DEF Told, Rows
  <2>10. \A m \in ms : m \in Rows' /\ msgs'[m].conv = c /\ msgs'[m].kind # "note"
    BY <2>4, <2>5 DEF Rows
  <2>11. QED
    BY <2>3, <2>6, <2>7, <2>8, <2>9, <2>10
<1>4. QED
  BY <1>1, <1>2, <1>3

\* How a tab gets to have its conversation, or keeps it.
LEMMA WidgetMoves ==
  ASSUME WidgetTypes, [Next]_vars, NEW w \in Widgets, widget'[w].room # 0, opens'[w].pc = "none"
  PROVE  /\ conns'[w] = conns[w] /\ widget'[w].room = widget[w].room /\ widget[w].conn # 0
         /\ \/ SendHistory(w)
            \/ Receive(w) /\ opens[w].pc = "none"
            \/ /\ widget'[w].shown = widget[w].shown /\ opens[w].pc = "none"
               /\ (\E p \in posts : TellRoom(p) \/ TellNotice(p)) \/ pipe'[w] = pipe[w]
<1>. DEFINE Still == conns'[w] = conns[w] /\ widget'[w] = widget[w] /\ opens'[w] = opens[w] /\ pipe'[w] = pipe[w]
<1>0. /\ opens \in [Widgets -> Opening(Rows, DOMAIN convs)] /\ conns \in [Widgets -> Nat] /\ Connections
      /\ widget \in [Widgets -> Widget(Rows, DOMAIN convs)] /\ pipe \in [Widgets -> Seq(Event(Rows, DOMAIN convs))]
  BY DEF WidgetTypes, Over
<1>1. \A c : [pc |-> "create"].pc = "create" /\ [pc |-> "read", conv |-> c].pc = "read"
  OBVIOUS
<1>2. ASSUME NEW u \in Widgets, NEW n, NEW c, Joins(u, n, c)
      PROVE  u # w /\ widget'[w] = widget[w] /\ opens'[w] = opens[w] /\ pipe'[w] = pipe[w]
  <2>1. PICK e : e = [pc |-> "read", conv |-> c]
    OBVIOUS
  <2>2. opens' = [opens EXCEPT ![u] = e] /\ e.pc = "read"
    BY <1>1, <1>2, <2>1 DEF Joins
  <2>3. u # w
    BY <1>0, <2>2
  <2>4. opens'[w] = opens[w]
    BY <1>0, <2>2, <2>3
  <2>5. widget'[w] = widget[w] /\ pipe'[w] = pipe[w]
    BY <1>0, <1>2, <2>3 DEF Joins
  <2>6. QED
    BY <2>3, <2>4, <2>5
<1>3. ASSUME NEW u \in Widgets, Connect(u) PROVE Still
  <2>1. conns' = [conns EXCEPT ![u] = conns[u] + 1]
    BY <1>3 DEF Connect
  <2>2. CASE \E c : Joins(u, conns[u] + 1, c)
    BY <1>0, <1>2, <2>1, <2>2
  <2>3. CASE /\ opens' = [opens EXCEPT ![u] = [pc |-> "create"]] /\ UNCHANGED pipe
             /\ widget' = [widget EXCEPT ![u].conn = conns[u] + 1]
    <3>1. u # w
      BY <1>0, <1>1, <2>3
    <3>2. QED
      BY <1>0, <2>1, <2>3, <3>1
  <2>4. QED
    BY <1>3, <2>2, <2>3 DEF Connect
<1>4. ASSUME NEW u \in Widgets, CreateConversation(u) PROVE Still
  <2>1. conns' = conns
    BY <1>4 DEF CreateConversation
  <2>2. CASE Joins(u, conns[u], Len(convs) + 1)
    BY <1>2, <2>1, <2>2
  <2>3. CASE widget[u].conn = 0 /\ opens' = [opens EXCEPT ![u] = NoOpen] /\ UNCHANGED <<widget, pipe>>
    <3>1. u # w
      BY <1>0, <2>3 DEF Connections
    <3>2. QED
      BY <1>0, <2>1, <2>3, <3>1
  <2>4. QED
    BY <1>4, <2>2, <2>3 DEF CreateConversation
<1>5. ASSUME NEW u \in Widgets, ReadHistory(u) PROVE Still
  <2>1. UNCHANGED <<widget, conns, pipe>>
    BY <1>5 DEF ReadHistory
  <2>2. PICK e : opens' = [opens EXCEPT ![u] = e] /\ e.pc = "history"
    <3>1. \A c, rows : [pc |-> "history", conv |-> c, rows |-> rows].pc = "history"
      OBVIOUS
    <3>2. PICK c, rows : opens' = [opens EXCEPT ![u] = [pc |-> "history", conv |-> c, rows |-> rows]]
      BY <1>5 DEF ReadHistory
    <3>3. PICK e : e = [pc |-> "history", conv |-> c, rows |-> rows]
      OBVIOUS
    <3>4. e.pc = "history"
      BY <3>3
    <3>5. QED
      BY <3>2, <3>3, <3>4
  <2>3. u # w
    BY <1>0, <2>2
  <2>4. QED
    BY <1>0, <2>1, <2>2, <2>3
<1>6. ASSUME NEW u \in Widgets, SendHistory(u) PROVE Still \/ SendHistory(w)
  BY <1>0, <1>6 DEF SendHistory, Emitted
<1>7. ASSUME NEW u \in Widgets, Receive(u) PROVE Still \/ (Receive(w) /\ opens[w].pc = "none")
  <2>1. UNCHANGED <<conns, opens>>
    BY <1>7 DEF Receive
  <2>2. CASE u # w
    BY <1>7, <2>1, <2>2, ReceiveTyped
  <2>3. QED
    BY <1>7, <2>1, <2>2
<1>8. ASSUME NEW u \in Widgets, Disconnect(u) PROVE Still
  <2>1. /\ Dropped({u}) /\ opens' = [opens EXCEPT ![u] = IF opens[u].pc = "create" THEN opens[u] ELSE NoOpen]
        /\ UNCHANGED conns
    BY <1>8 DEF Disconnect
  <2>2. u # w /\ widget'[w] = widget[w] /\ pipe'[w] = pipe[w]
    BY <2>1, DroppedTyped
  <2>3. QED
    BY <1>0, <2>1, <2>2
<1>9. ASSUME ServerDies PROVE FALSE
  <2>1. Dropped(Widgets)
    BY <1>9 DEF ServerDies
  <2>2. QED
    BY <2>1, DroppedTyped
<1>10. ASSUME NEW p \in posts, TellRoom(p) \/ TellNotice(p)
       PROVE  conns'[w] = conns[w] /\ widget'[w] = widget[w] /\ opens'[w] = opens[w]
  BY <1>10 DEF TellRoom, TellNotice
<1>11. CASE Still
  <2>1. widget[w].room # 0 /\ opens[w].pc = "none"
    BY <1>11
  <2>2. QED
    BY <1>0, <1>11, <2>1 DEF Connections
<1>12. CASE SendHistory(w)
  <2>1. UNCHANGED <<widget, conns>>
    BY <1>12 DEF SendHistory
  <2>2. QED
    BY <1>0, <1>12, <2>1 DEF Connections
<1>13. CASE Receive(w) /\ opens[w].pc = "none"
  <2>1. widget'[w].room = widget[w].room /\ UNCHANGED conns
    BY <1>13, ReceiveTyped DEF Receive
  <2>2. QED
    BY <1>0, <1>13, <2>1 DEF Connections
<1>14. CASE \E p \in posts : TellRoom(p) \/ TellNotice(p)
  <2>1. conns'[w] = conns[w] /\ widget'[w] = widget[w] /\ opens'[w] = opens[w]
    BY <1>10, <1>14
  <2>2. QED
    BY <1>0, <1>14, <2>1 DEF Connections
<1>15. \/ \E u \in Widgets : \/ Connect(u) \/ CreateConversation(u) \/ ReadHistory(u)
                            \/ SendHistory(u) \/ Receive(u) \/ Disconnect(u)
       \/ ServerDies
       \/ \E p \in posts : TellRoom(p) \/ TellNotice(p)
       \/ Still
  BY DEF Next, Step, vars, MerchantMessage, OthersPost, TellNobody, SetStatus
<1>. HIDE DEF Still
<1>16. QED
  BY <1>3, <1>4, <1>5, <1>6, <1>7, <1>8, <1>9, <1>11, <1>12, <1>13, <1>14, <1>15

\* What a tab will show stays all that was told to its room, once each (ChatWidget, chatGateway).
LEMMA ShownStep == WidgetInv /\ [Next]_vars => ShownInv'
<1>. SUFFICES ASSUME WidgetInv, [Next]_vars, NEW w \in Widgets, w \notin raced', widget'[w].room # 0, opens'[w].pc = "none"
              PROVE  \E k : Settled(w, k)'
  BY DEF ShownInv
<1>0. /\ WidgetTypes /\ PostsInv /\ HistoryInv /\ ShownInv /\ Connections
      /\ opens \in [Widgets -> Opening(Rows, DOMAIN convs)]
      /\ widget[w] \in Widget(Rows, DOMAIN convs) /\ pipe \in [Widgets -> Seq(Event(Rows, DOMAIN convs))]
      /\ \A p \in posts : p.msg \in Rows
  BY DEF WidgetInv, WidgetTypes, Over, Posting
<1>1. /\ conns'[w] = conns[w] /\ widget'[w].room = widget[w].room /\ widget[w].conn # 0
      /\ \/ SendHistory(w)
         \/ Receive(w) /\ opens[w].pc = "none"
         \/ /\ widget'[w].shown = widget[w].shown /\ opens[w].pc = "none"
            /\ (\E p \in posts : TellRoom(p) \/ TellNotice(p)) \/ pipe'[w] = pipe[w]
  BY <1>0, WidgetMoves
<1>2. w \notin raced /\ widget[w].room # 0
  BY <1>1, RacedStays
<1>3. PICK c, screen, line, after, rest :
        c = widget[w].room /\ screen = widget[w].shown /\ line = pipe[w] /\ after = widget'[w].shown /\ rest = pipe'[w]
  OBVIOUS
\* A new screen with what was due, and perhaps a message just told, is settled.
<1>4. ASSUME NEW k, NEW j, Settled(w, k), NEW more, Once(after, rest, j) /\ Due(after, rest, j) = Due(screen, line, k) \cup more,
             \A m \in more : m \in Rows /\ Showable(m, c) /\ \A p \in posts' : p.msg # m,
             \A m \in Told(c)' : m \in Told(c) \cup more
      PROVE  \E i : Settled(w, i)'
  <2>1. PICK due, old : due = Due(after, rest, j) /\ old = Due(screen, line, k)
    OBVIOUS
  <2>2. /\ due = old \cup more
        /\ \A m \in old : m \in Rows /\ Showable(m, c)
        /\ \A p \in posts : p.msg \notin old
        /\ Told(c) \subseteq old
    BY <1>3, <1>4, <2>1 DEF Settled
  <2>3. \A m \in due : m \in Rows' /\ Showable(m, c)'
    BY <1>0, <1>4, <2>2, MessagesMove DEF Showable
  <2>4. \A p \in posts' : p.msg \notin due
    BY <1>0, <1>4, <2>2, MessagesMove
  <2>5. Told(c)' \subseteq due
    BY <1>4, <2>2
  <2>6. widget'[w].room = c /\ Due(widget'[w].shown, pipe'[w], j) = due /\ Once(widget'[w].shown, pipe'[w], j)
    BY <1>1, <1>3, <1>4, <2>1
  <2>7. Settled(w, j)'
    BY <2>3, <2>4, <2>5, <2>6 DEF Settled
  <2>8. QED
    BY <2>7
<1>5. CASE SendHistory(w)
  <2>1. /\ opens[w].pc = "history" /\ opens[w].conv = c /\ UNCHANGED <<msgs, widget, posts>>
        /\ pipe' = Emitted({w}, [kind |-> "history", rows |-> opens[w].rows])
    BY <1>0, <1>3, <1>5 DEF SendHistory, Connections
  <2>2. PICK rows : rows = opens[w].rows
    OBVIOUS
  <2>3. /\ IsInjective(rows) /\ Told(c) \subseteq ToSet(rows) /\ rows \in Seq(Rows)
        /\ \A m \in ToSet(rows) : m \in Rows /\ msgs[m].conv = c /\ msgs[m].kind # "note"
    <3>1. rows \in Seq(Rows)
      <4>1. opens[w] \in Opening(Rows, DOMAIN convs)
        BY <1>0
      <4>2. QED
        BY <2>1, <2>2, <4>1 DEF Opening, NoOpen
    <3>2. QED
      BY <1>0, <1>2, <2>1, <2>2, <3>1 DEF HistoryInv
  <2>4. PICK e : e = [kind |-> "history", rows |-> rows]
    OBVIOUS
  <2>5. e \in Event(Rows, DOMAIN convs) /\ e.kind = "history" /\ e.rows = rows
    BY <2>3, <2>4 DEF Event
  <2>6. rest = Append(line, e) /\ line \in Seq(Event(Rows, DOMAIN convs))
    BY <1>0, <1>3, <2>1, <2>2, <2>4 DEF Emitted
  <2>7. PICK k : k = Len(line) + 1
    OBVIOUS
  <2>14. k \in Nat /\ k # 0 /\ DOMAIN rest = 1 .. k /\ rest[k] = e
    BY <2>5, <2>6, <2>7, LineGrows
  <2>15. Once(after, rest, k) /\ Due(after, rest, k) = ToSet(e.rows)
    BY <2>3, <2>5, <2>14, HistoryDue
  <2>8. Once(widget'[w].shown, pipe'[w], k) /\ Due(widget'[w].shown, pipe'[w], k) = ToSet(rows)
    BY <1>3, <2>5, <2>15
  <2>9. \A p \in posts : p.msg \notin ToSet(rows)
    <3>1. SUFFICES ASSUME NEW p \in posts, p.msg \in ToSet(rows) PROVE FALSE
      OBVIOUS
    <3>2. Races(w)
      BY <2>1, <2>3, <3>1 DEF Races
    <3>3. QED
      BY <1>0, <1>2, <3>2 DEF PostsInv
  <2>10. \A m \in ToSet(rows) : m \in Rows' /\ Showable(m, c)'
    BY <2>1, <2>3 DEF Showable, Rows
  <2>11. Told(c)' = Told(c)
    BY <2>1 DEF Told, Rows
  <2>12. Settled(w, k)'
    BY <1>1, <1>3, <2>1, <2>3, <2>8, <2>9, <2>10, <2>11 DEF Settled
  <2>13. QED
    BY <2>12
<1>6. CASE Receive(w) /\ opens[w].pc = "none"
  <2>1. PICK k : Settled(w, k)
    BY <1>0, <1>2, <1>6 DEF ShownInv
  <2>2. UNCHANGED <<msgs, posts>>
    BY <1>6 DEF Receive
  <2>4. /\ line \in Seq(Event(Rows, DOMAIN convs)) /\ screen \in Seq(Rows) /\ line # <<>> /\ Once(screen, line, k)
    BY <1>0, <1>3, <1>6, <2>1, ReceiveTyped DEF Settled, Widget
  <2>5. /\ rest = Tail(line)
        /\ Head(line).kind = "history" => after = Head(line).rows
        /\ Head(line).kind = "message" => after = Append(screen, Head(line).msg)
        /\ Head(line).kind = "conversation" => after = screen
    BY <1>0, <1>3, <1>6, ReceiveTyped
  <2>6. PICK j : Once(after, rest, j) /\ Due(after, rest, j) = Due(screen, line, k)
    <3>1. PICK ms, cs : ms = Rows /\ cs = DOMAIN convs
      OBVIOUS
    <3>2. line \in Seq(Event(ms, cs)) /\ screen \in Seq(ms) /\ after \in Seq(ms)
      <4>1. widget'[w].shown \in Seq(Rows)
        BY <1>0, <1>6, ReceiveTyped DEF Widget
      <4>2. QED
        BY <1>3, <2>4, <3>1, <4>1
    <3>4. \E j : Once(after, Tail(line), j) /\ Due(after, Tail(line), j) = Due(screen, line, k)
      BY <2>4, <2>5, <3>2, DueReceived
    <3>3. QED
      BY <2>5, <3>4
  <2>7. Told(c)' = Told(c)
    BY <2>2 DEF Told, Rows
  <2>8. PICK more : more = {}
    OBVIOUS
  <2>9. Due(after, rest, j) = Due(screen, line, k) \cup more /\ \A m \in Told(c)' : m \in Told(c) \cup more
    BY <2>6, <2>7, <2>8
  <2>10. \A m \in more : m \in Rows /\ Showable(m, c) /\ \A p \in posts' : p.msg # m
    BY <2>8
  <2>11. QED
    BY <1>4, <2>1, <2>6, <2>9, <2>10
<1>7. ASSUME NEW p \in posts, TellRoom(p) \/ TellNotice(p), widget'[w].shown = widget[w].shown, opens[w].pc = "none"
      PROVE  \E i : Settled(w, i)'
  <2>1. PICK k : Settled(w, k)
    BY <1>0, <1>2, <1>7 DEF ShownInv
  <2>2. PICK e, more : e = [kind |-> "message", msg |-> p.msg] /\ more = {p.msg}
    OBVIOUS
  <2>3. e \in Event(Rows, DOMAIN convs) /\ e.kind = "message" /\ e.msg = p.msg /\ p.msg \in Rows
    BY <1>0, <2>2 DEF Event
  <2>4. e.msg \notin Due(screen, line, k) /\ Once(screen, line, k) /\ after = screen /\ line \in Seq(Event(Rows, DOMAIN convs))
    BY <1>0, <1>3, <1>7, <2>1, <2>3 DEF Settled
  <2>5. \A q \in posts' : q.msg # p.msg
    <3>1. p \notin posts'
      <4>1. \A n : n \notin Rows => [msg |-> n, from |-> p.from] # p
        BY <2>3
      <4>2. CASE TellRoom(p)
        <5>1. \/ posts' = posts \ {p}
              \/ /\ Len(msgs) + 1 \notin Rows
                 /\ posts' = (posts \ {p}) \cup {[msg |-> Len(msgs) + 1, from |-> p.from]}
          BY <1>0, <4>2, TellRoomTyped
        <5>2. QED
          BY <4>1, <5>1
      <4>3. CASE TellNotice(p)
        BY <4>3 DEF TellNotice
      <4>4. QED
        BY <1>7, <4>2, <4>3
    <3>2. QED
      BY <1>0, <2>3, <3>1, MessagesMove DEF PostsInv
  <2>6. \A m \in Told(c)' : m \in Told(c) \/ (m = p.msg /\ TellRoom(p) /\ msgs[m].conv = c)
    <3>1. CASE TellNotice(p)
      <4>1. Told(c)' = Told(c)
        BY <3>1 DEF TellNotice, Told, Rows
      <4>2. QED
        BY <4>1
    <3>2. CASE TellRoom(p)
      <4>1. SUFFICES ASSUME NEW m, m \in Told(c)', m # p.msg PROVE m \in Told(c)
        <5>1. \A m \in Told(c)' : m = p.msg => m \in Told(c) \/ msgs[m].conv = c
          BY <1>0, ToldMoves
        <5>2. QED
          BY <3>2, <5>1
      <4>2. m \in Rows' /\ msgs'[m].conv = c /\ msgs'[m].to = "room"
        BY <4>1 DEF Told, Rows
      <4>3. m \in Rows /\ msgs[m].conv = c
        BY <1>0, <4>2, MessagesMove
      <4>4. msgs'[m].to = IF m = p.msg THEN "room" ELSE msgs[m].to
        BY <1>0, <3>2, <4>3, TellRoomTyped
      <4>5. QED
        BY <4>1, <4>2, <4>3, <4>4 DEF Told
    <3>3. QED
      BY <1>7, <3>1, <3>2
  <2>7. CASE rest = Append(line, e) /\ Showable(p.msg, c)
    <3>1. Once(screen, rest, k) /\ Due(screen, rest, k) = Due(screen, line, k) \cup {e.msg}
      <4>1. PICK S : S = Event(Rows, DOMAIN convs)
        OBVIOUS
      <4>2. line \in Seq(S) /\ e \in S
        BY <2>3, <2>4, <4>1
      <4>3. /\ Once(screen, Append(line, e), k)
            /\ Due(screen, Append(line, e), k) = Due(screen, line, k) \cup {e.msg}
        BY <2>3, <2>4, <4>2, DueGrows
      <4>4. QED
        BY <2>7, <4>3
    <3>2. Once(after, rest, k) /\ Due(after, rest, k) = Due(screen, line, k) \cup more
      BY <2>2, <2>3, <2>4, <3>1
    <3>3. \A m \in Told(c)' : m \in Told(c) \cup more
      BY <2>2, <2>6
    <3>4. \A m \in more : m \in Rows /\ Showable(m, c) /\ \A q \in posts' : q.msg # m
      BY <2>2, <2>3, <2>5, <2>7
    <3>5. QED
      BY <1>4, <2>1, <3>2, <3>3, <3>4
  <2>8. CASE rest = line /\ (TellRoom(p) => msgs[p.msg].conv # c)
    <3>1. PICK none : none = {}
      OBVIOUS
    <3>2. Once(after, rest, k) /\ Due(after, rest, k) = Due(screen, line, k) \cup none
      BY <2>4, <2>8, <3>1
    <3>3. \A m \in Told(c)' : m \in Told(c) \cup none
      BY <2>6, <2>8, <3>1
    <3>4. \A m \in none : m \in Rows /\ Showable(m, c) /\ \A q \in posts' : q.msg # m
      BY <3>1
    <3>5. QED
      BY <1>4, <2>1, <3>2, <3>3, <3>4
  <2>9. CASE TellRoom(p)
    <3>1. pipe' = Emitted(InRoom(msgs[p.msg].conv), e) /\ msgs[p.msg].kind \in {"merchant", "reply"}
      BY <2>2, <2>9 DEF TellRoom
    <3>2. CASE msgs[p.msg].conv = c
      <4>1. w \in InRoom(msgs[p.msg].conv)
        BY <1>1, <1>3, <3>2 DEF InRoom
      <4>2. rest = Append(line, e) /\ Showable(p.msg, c)
        BY <1>3, <3>1, <3>2, <4>1 DEF Emitted, Showable
      <4>3. QED
        BY <2>7, <4>2
    <3>3. CASE msgs[p.msg].conv # c
      <4>1. w \notin InRoom(msgs[p.msg].conv)
        BY <1>3, <3>3 DEF InRoom
      <4>2. rest = line
        BY <1>3, <3>1, <4>1 DEF Emitted
      <4>3. QED
        BY <2>8, <3>3, <4>2
    <3>4. QED
      BY <3>2, <3>3
  <2>10. CASE TellNotice(p) /\ ~TellRoom(p)
    <3>1. PICK sockets : pipe' = Emitted(sockets, e) /\ msgs[p.msg].kind = "notice"
      BY <2>2, <2>10 DEF TellNotice
    <3>2. rest = line \/ rest = Append(line, e)
      BY <1>3, <3>1 DEF Emitted
    <3>3. QED
      BY <2>7, <2>8, <2>10, <3>1, <3>2 DEF Showable
  <2>11. QED
    BY <1>7, <2>9, <2>10
<1>8. CASE widget'[w].shown = widget[w].shown /\ opens[w].pc = "none" /\ pipe'[w] = pipe[w] /\ ~\E p \in posts : TellRoom(p)
  <2>1. PICK k : Settled(w, k)
    BY <1>0, <1>2, <1>8 DEF ShownInv
  <2>2. PICK none : none = {}
    OBVIOUS
  <2>3. Once(after, rest, k) /\ Due(after, rest, k) = Due(screen, line, k) \cup none
    BY <1>3, <1>8, <2>1, <2>2 DEF Settled
  <2>4. \A m \in Told(c)' : m \in Told(c) \cup none
    BY <1>0, <1>8, ToldMoves
  <2>5. \A m \in none : m \in Rows /\ Showable(m, c) /\ \A q \in posts' : q.msg # m
    BY <2>2
  <2>6. QED
    BY <1>4, <2>1, <2>3, <2>4, <2>5
<1>9. QED
  BY <1>1, <1>5, <1>6, <1>7, <1>8

\* A tab at rest shows its conversation: what was told to the room once each, and no note (ChatWidget).
THEOREM WidgetsSafety == Spec => [](TypeOK /\ ShowsConversation)
<1>1. Init => WidgetInv
  <2>1. SUFFICES ASSUME Init PROVE WidgetInv
    OBVIOUS
  <2>2. posts = {} /\ msgs = <<>> /\ \A w \in Widgets : opens[w].pc = "none" /\ widget[w].room = 0
    <3>1. ASSUME NEW w \in Widgets PROVE opens[w] = NoOpen /\ widget[w] = [conn |-> 0, conv |-> 0, shown |-> <<>>, room |-> 0]
      BY <2>1 DEF Init
    <3>2. QED
      BY <2>1, <3>1 DEF Init, NoOpen
  <2>3. Rows = {}
    BY <2>2 DEF Rows
  <2>4. PostsInv /\ HistoryInv /\ ShownInv
    BY <2>2, <2>3 DEF PostsInv, HistoryInv, ShownInv, Races
  <2>5. QED
    BY <2>1, <2>4, WidgetTypeInit DEF WidgetInv
<1>2. WidgetInv /\ [Next]_vars => WidgetInv'
  BY WidgetTypeStep, PostsStep, HistoryStep, ShownStep DEF WidgetInv
<1>3. WidgetInv => TypeOK
  <2>1. SUFFICES ASSUME WidgetInv PROVE TypeOK
    OBVIOUS
  <2>2. WidgetTypes /\ Over(Rows, DOMAIN convs)
    BY <2>1 DEF WidgetInv, WidgetTypes
  <2>3. ASSUME NEW c \in DOMAIN convs PROVE convs[c].status \in {"OPEN", "CLOSED"} /\ convs[c].last \in {0} \cup Rows
    <3>1. convs[c] \in Conversation(Rows)
      BY <2>2, ElementOfSeq, LenProperties DEF Over
    <3>2. QED
      BY <3>1 DEF Conversation
  <2>4. ASSUME NEW m \in Rows PROVE msgs[m].conv \in DOMAIN convs /\ msgs[m].to \in {"nobody", "room"}
    <3>1. msgs[m] \in Row(DOMAIN convs)
      BY <2>2, ElementOfSeq, LenProperties DEF Over, Rows
    <3>2. QED
      BY <3>1 DEF Row
  <2>5. ASSUME NEW w \in Widgets
        PROVE  /\ widget[w].conn \in {0, conns[w]}
               /\ {widget[w].conv, widget[w].room} \subseteq {0} \cup DOMAIN convs
               /\ ToSet(widget[w].shown) \subseteq Rows
               /\ widget[w].conn = 0 => pipe[w] = <<>>
               /\ opens[w].pc \in {"none", "create", "read", "history"}
    <3>1. widget[w] \in Widget(Rows, DOMAIN convs) /\ opens[w] \in Opening(Rows, DOMAIN convs)
      BY <2>2 DEF Over
    <3>2. opens[w].pc \in {"none", "create", "read", "history"}
      BY <3>1 DEF Opening, NoOpen
    <3>3. /\ {widget[w].conv, widget[w].room} \subseteq {0} \cup DOMAIN convs /\ widget[w].shown \in Seq(Rows)
      BY <3>1 DEF Widget
    <3>4. ToSet(widget[w].shown) \subseteq Rows
      BY <3>3, ElementOfSeq, LenProperties DEF ToSet
    <3>5. QED
      BY <2>2, <3>2, <3>3, <3>4 DEF WidgetTypes, Connections
  <2>6. \A p \in posts : p.msg \in Rows
    BY <2>2 DEF Over, Posting
  <2>7. QED
    BY <2>3, <2>4, <2>5, <2>6 DEF TypeOK
<1>4. WidgetInv => ShowsConversation
  <2>1. SUFFICES ASSUME WidgetInv, NEW w \in Widgets, AtRest(w), w \notin raced
                 PROVE  LET shown == ToSet(widget[w].shown) IN
                        /\ IsInjective(widget[w].shown)
                        /\ \A m \in shown : msgs[m].kind = "notice" \/ (msgs[m].conv = widget[w].conv /\ msgs[m].kind # "note")
                        /\ {m \in Rows : msgs[m].conv = widget[w].conv /\ msgs[m].to = "room"} \subseteq shown
    BY DEF ShowsConversation
  <2>2. PICK k : Settled(w, k)
    BY <2>1 DEF WidgetInv, ShownInv, AtRest
  <2>3. pipe[w] = <<>> /\ widget[w].room = widget[w].conv
    BY <2>1 DEF AtRest
  <2>4. k = 0
    BY <2>2, <2>3 DEF Settled, Once
  <2>5. Due(widget[w].shown, pipe[w], k) = ToSet(widget[w].shown) /\ Base(widget[w].shown, pipe[w], k) = widget[w].shown
    BY <2>3, <2>4 DEF Due, Base, Coming
  <2>6. QED
    BY <2>2, <2>3, <2>5 DEF Settled, Once, Showable, Told
<1>5. QED
  BY <1>1, <1>2, <1>3, <1>4, PTL DEF Spec

\* The widgets among the chat's parts: a tab at rest shows its conversation (ChatWidget).
THEOREM WidgetsShowConversationHolds == ChatSpec => []WidgetsShowConversation
<1>1. [ChatNext]_allVars => part' = part
  BY DEF ChatNext, allVars
<1>2. ChatInit /\ part = "widgets" => Init
  BY DEF ChatInit
<1>3. [ChatNext]_allVars /\ part = "widgets" => [Next]_vars
  BY DEF ChatNext, allVars, vars
<1>4. Spec => [](TypeOK /\ ShowsConversation)
  BY WidgetsSafety
<1>5. part = "widgets" /\ part' = part => (part = "widgets")'
  OBVIOUS
<1>6. part # "widgets" /\ part' = part => (part # "widgets")'
  OBVIOUS
<1>7. (part # "widgets" => WidgetsShowConversation) /\ (TypeOK /\ ShowsConversation => WidgetsShowConversation)
  BY DEF WidgetsShowConversation
<1>8. part = "widgets" \/ part # "widgets"
  OBVIOUS
<1>9. QED
  BY <1>1, <1>2, <1>3, <1>4, <1>5, <1>6, <1>7, <1>8, PTL DEF ChatSpec, Spec
=============================================================================
