------------------------------ MODULE ConsoleProofs ------------------------------
(***************************************************************************)
(* What is true of the records that administrators share, for any texts and*)
(* limits; of the feature flags, for any flags, shops and administrators;  *)
(* of the badge catalog, for any images, rows and administrators; of the   *)
(* pages, for any apps, tours and numbers of moves; of the merchant        *)
(* directory, for any shops, searches, sizes of pages and failures; and of *)
(* the audit trail, for any rows, filters, limit and order of answers.     *)
(***************************************************************************)
EXTENDS Console, FiniteSetTheorems, SequenceTheorems, WellFoundedInduction, TLAPS

-----------------------------------------------------------------------------
(* The shared records: types.                                              *)

\* The records are born as they are.
LEMMA SharedTypeInit == Shared!Allowed /\ Shared!Init => Shared!TypeOK
BY DEF Shared!Allowed, Shared!Init, Shared!TypeOK, Shared!Born, Shared!Values, Shared!None, Shared!Records, Shared!Owned

\* A call begins, with what it found.
LEMMA BeginTyped ==
  ASSUME Shared!TypeOK, NEW what \in Shared!Records \cup Shared!Owned, NEW needs \in {"there", "gone", "any"},
         NEW to \in Shared!Values \cup {"failed", "news"}, NEW before \in Shared!Values,
         what \in Shared!Records => to # "news", to # "failed",
         Shared!Begin(what, needs, to, before)
  PROVE  Shared!TypeOK'
<1>. DEFINE new == [n |-> left, what |-> what, needs |-> needs, to |-> to, before |-> before,
                    saw |-> IF what \in Shared!Records THEN rows[what] ELSE Shared!None,
                    had |-> IF what \in Shared!Owned THEN owned[what] ELSE 0]
<1>1. new \in Shared!Call
  BY DEF Shared!Call, Shared!TypeOK, Shared!Values
<1>2. /\ what \in focus /\ left > 0 /\ left' = left - 1 /\ calls' = calls \cup {new}
      /\ UNCHANGED <<rows, owned, news, told, broken, crossed, focus>>
  BY DEF Shared!Begin
<1>3. new.what = what /\ new.to = to
  OBVIOUS
<1>. HIDE DEF new
<1>4. QED
  BY <1>1, <1>2, <1>3 DEF Shared!TypeOK

\* Caps and texts are of their types, and so is what any call leaves.
LEMMA SharedTypeStep ==
  ASSUME Shared!Allowed
  PROVE  Shared!TypeOK /\ [Shared!Next]_(Shared!vars) => Shared!TypeOK'
<1>. SUFFICES ASSUME Shared!TypeOK, [Shared!Next]_(Shared!vars) PROVE Shared!TypeOK'
  OBVIOUS
<1>0. /\ Texts \subseteq Shared!Values /\ {"none", "label", "yes", "no", "done"} \subseteq Shared!Values
      /\ Shared!None = "none"
      /\ {"note", "tag", "chatTag", "pinned", "csat", "canned", "action"} = Shared!Records
      /\ {"views", "nps", "chats"} = Shared!Owned
      /\ "news" \notin Shared!Values /\ "failed" \notin Shared!Values
      /\ \A r \in Shared!Records : rows[r] \in Shared!Values
  BY DEF Shared!Values, Shared!None, Shared!Records, Shared!Owned, Shared!TypeOK, Shared!Allowed
<1>1. CASE Shared!AddNote
  BY <1>0, <1>1, BeginTyped DEF Shared!AddNote
<1>2. CASE Shared!EditNote
  BY <1>0, <1>2, BeginTyped DEF Shared!EditNote
<1>3. CASE Shared!DeleteNote
  BY <1>0, <1>3, BeginTyped DEF Shared!DeleteNote
<1>4. CASE Shared!AddTag \/ Shared!RemoveTag
  BY <1>0, <1>4, BeginTyped DEF Shared!AddTag, Shared!RemoveTag
<1>5. CASE Shared!AddChatTag \/ Shared!RemoveChatTag
  BY <1>0, <1>5, BeginTyped DEF Shared!AddChatTag, Shared!RemoveChatTag
<1>6. CASE Shared!SetPinned
  BY <1>0, <1>6, BeginTyped DEF Shared!SetPinned
<1>7. CASE Shared!RecordCsat
  BY <1>0, <1>7, BeginTyped DEF Shared!RecordCsat
<1>8. CASE Shared!CreateCanned \/ Shared!UpdateCanned \/ Shared!RemoveCanned
  BY <1>0, <1>8, BeginTyped DEF Shared!CreateCanned, Shared!UpdateCanned, Shared!RemoveCanned
<1>9. CASE Shared!DispatchAppBacked
  <2>1. PICK heard \in BOOLEAN, done \in BOOLEAN :
          /\ rows' = [rows EXCEPT !["action"] = IF done THEN "done" ELSE @]
          /\ calls' = calls \cup {[n |-> left, what |-> "action", needs |-> "any", before |-> Shared!None,
                                   to |-> IF heard THEN "done" ELSE "failed", saw |-> Shared!None, had |-> 0]}
    BY <1>9 DEF Shared!DispatchAppBacked
  <2>2. rows' \in [Shared!Records -> Shared!Values]
    BY <1>0, <2>1 DEF Shared!TypeOK
  <2>3. left > 0 /\ left' = left - 1 /\ "action" \in focus /\ UNCHANGED <<owned, news, told, broken, crossed, focus>>
    BY <1>9 DEF Shared!DispatchAppBacked
  <2>4. /\ calls' \subseteq Shared!Call
        /\ \A c \in calls' : /\ c.what \in focus
                             /\ c.what \in Shared!Records => c.to # "news"
                             /\ c.to = "failed" => c.what = "action"
    BY <1>0, <2>1, <2>3 DEF Shared!TypeOK, Shared!Call
  <2>5. QED
    BY <2>2, <2>3, <2>4 DEF Shared!TypeOK
<1>10. CASE Shared!SaveView \/ Shared!RecordNps \/ Shared!GetOrCreateForShop
  BY <1>0, <1>10, BeginTyped DEF Shared!SaveView, Shared!RecordNps, Shared!GetOrCreateForShop
<1>11. CASE Shared!RemoveView
  BY <1>0, <1>11 DEF Shared!RemoveView, Shared!TypeOK
<1>12. CASE Shared!Publish
  BY <1>12 DEF Shared!Publish, Shared!TypeOK
<1>13. CASE Shared!FanOut
  <2>1. CASE owned["chats"] > 0
    BY <1>13, <2>1 DEF Shared!FanOut, Shared!TypeOK
  <2>2. CASE ~(owned["chats"] > 0)
    BY <1>0, <1>13, <2>2, BeginTyped DEF Shared!FanOut
  <2>3. QED
    BY <2>1, <2>2
<1>14. CASE Shared!FanOutFails
  BY <1>14 DEF Shared!FanOutFails, Shared!TypeOK
<1>15. ASSUME NEW o \in Shared!Owned, Shared!Elapses(o) PROVE Shared!TypeOK'
  BY <1>15 DEF Shared!Elapses, Shared!TypeOK
<1>16. ASSUME NEW c \in calls, Shared!Commit(c) PROVE Shared!TypeOK'
  <2>1. c \in Shared!Call /\ c.what \in Shared!Records /\ c.to \in Shared!Values
    BY <1>16 DEF Shared!Commit, Shared!TypeOK, Shared!Call
  <2>2. QED
    BY <1>16, <2>1 DEF Shared!Commit, Shared!TypeOK
<1>17. ASSUME NEW c \in calls, Shared!AuditDispatch(c) PROVE Shared!TypeOK'
  <2>1. c.to \in Shared!Values \cup {"failed", "news"}
    BY DEF Shared!TypeOK, Shared!Call
  <2>2. QED
    BY <1>17, <2>1 DEF Shared!AuditDispatch, Shared!TypeOK
<1>18. ASSUME NEW c \in calls, Shared!RollBack(c) PROVE Shared!TypeOK'
  BY <1>18 DEF Shared!RollBack, Shared!TypeOK
<1>19. ASSUME NEW c \in calls, Shared!Insert(c) PROVE Shared!TypeOK'
  BY <1>19 DEF Shared!Insert, Shared!TypeOK
<1>20. CASE UNCHANGED Shared!vars
  BY <1>20 DEF Shared!vars, Shared!TypeOK
<1>21. QED
  BY <1>1, <1>2, <1>3, <1>4, <1>5, <1>6, <1>7, <1>8, <1>9, <1>10, <1>11, <1>12, <1>13, <1>14, <1>15, <1>16,
     <1>17, <1>18, <1>19, <1>20 DEF Shared!Next

-----------------------------------------------------------------------------
(* What was told of a record is what it is.                                *)

\* What a call knows of its record: it found before what it says was before, or needs nothing there.
CallSound(c) ==
  /\ c.what \in Shared!Records \ {"chatTag", "action"} =>
       c.before = c.saw \/ (c.needs = "gone" /\ c.before = Shared!None)
  /\ c.what = "tag" => c.to \in {Shared!None, "label"}
  /\ c.what = "action" /\ c.to = "done" => rows["action"] = "done"
  /\ c.what \in Shared!Owned => c.had < Cap[c.what]

\* What the audit log tells of a record last is the record; a link of the log is broken only where
\* two calls crossed; and a limit is kept but where two calls crossed.
RecordsInv ==
  /\ \A r \in Shared!Records \ {"action"} : told[r] = rows[r]
  /\ told["action"] = "done" => rows["action"] = "done"
  /\ rows["tag"] \in {Shared!None, "label"}
  /\ broken \ {"chatTag"} \subseteq crossed
  /\ \A o \in Shared!Owned \ crossed : owned[o] <= Cap[o]
  /\ \A c \in calls : CallSound(c)

\* A call that begins knows its record.
LEMMA BeginSound ==
  ASSUME Shared!TypeOK, RecordsInv, NEW what, NEW needs, NEW to, NEW before,
         what \in Shared!Records \ {"chatTag", "action"} =>
           before = rows[what] \/ (needs = "gone" /\ before = Shared!None),
         what = "tag" => to \in {Shared!None, "label"}, what # "action",
         what \in Shared!Owned => owned[what] < Cap[what],
         Shared!Begin(what, needs, to, before)
  PROVE  RecordsInv'
<1>. DEFINE new == [n |-> left, what |-> what, needs |-> needs, to |-> to, before |-> before,
                    saw |-> IF what \in Shared!Records THEN rows[what] ELSE Shared!None,
                    had |-> IF what \in Shared!Owned THEN owned[what] ELSE 0]
<1>1. CallSound(new)
  BY DEF CallSound
<1>2. calls' = calls \cup {new} /\ UNCHANGED <<rows, owned, news, told, broken, crossed>>
  BY DEF Shared!Begin
<1>. HIDE DEF new
<1>3. \A c \in calls' : CallSound(c)'
  BY <1>1, <1>2 DEF RecordsInv, CallSound
<1>4. QED
  BY <1>2, <1>3 DEF RecordsInv

\* No call breaks that, begun or ended in any order.
LEMMA RecordsStep ==
  ASSUME Shared!Allowed
  PROVE  Shared!TypeOK /\ RecordsInv /\ [Shared!Next]_(Shared!vars) => RecordsInv'
<1>. SUFFICES ASSUME Shared!TypeOK, RecordsInv, [Shared!Next]_(Shared!vars) PROVE RecordsInv'
  OBVIOUS
<1>0. /\ Shared!None = "none"
      /\ {"note", "tag", "chatTag", "pinned", "csat", "canned", "action"} = Shared!Records
      /\ {"views", "nps", "chats"} = Shared!Owned
      /\ Cap["chats"] > 0 /\ rows["tag"] \in {Shared!None, "label"}
  BY DEF Shared!Allowed, Shared!None, Shared!Records, Shared!Owned, RecordsInv
<1>1. CASE Shared!AddNote \/ Shared!EditNote \/ Shared!DeleteNote
  <2>1. CASE Shared!AddNote
    BY <1>0, <2>1, BeginSound DEF Shared!AddNote
  <2>2. CASE Shared!EditNote
    BY <1>0, <2>2, BeginSound DEF Shared!EditNote
  <2>3. CASE Shared!DeleteNote
    BY <1>0, <2>3, BeginSound DEF Shared!DeleteNote
  <2>4. QED
    BY <1>1, <2>1, <2>2, <2>3
<1>4. CASE Shared!AddTag \/ Shared!RemoveTag
  BY <1>0, <1>4, BeginSound DEF Shared!AddTag, Shared!RemoveTag
<1>5. CASE Shared!AddChatTag \/ Shared!RemoveChatTag
  BY <1>0, <1>5, BeginSound DEF Shared!AddChatTag, Shared!RemoveChatTag
<1>6. CASE Shared!SetPinned
  BY <1>0, <1>6, BeginSound DEF Shared!SetPinned
<1>7. CASE Shared!RecordCsat
  BY <1>0, <1>7, BeginSound DEF Shared!RecordCsat
<1>8. CASE Shared!CreateCanned \/ Shared!UpdateCanned \/ Shared!RemoveCanned
  BY <1>0, <1>8, BeginSound DEF Shared!CreateCanned, Shared!UpdateCanned, Shared!RemoveCanned
<1>9. CASE Shared!DispatchAppBacked
  <2>1. PICK heard \in BOOLEAN, done \in BOOLEAN :
          /\ heard => done
          /\ rows' = [rows EXCEPT !["action"] = IF done THEN "done" ELSE @]
          /\ calls' = calls \cup {[n |-> left, what |-> "action", needs |-> "any", before |-> Shared!None,
                                   to |-> IF heard THEN "done" ELSE "failed", saw |-> Shared!None, had |-> 0]}
    BY <1>9 DEF Shared!DispatchAppBacked
  <2>. DEFINE new == [n |-> left, what |-> "action", needs |-> "any", before |-> Shared!None,
                      to |-> IF heard THEN "done" ELSE "failed", saw |-> Shared!None, had |-> 0]
  <2>2. /\ \A r \in Shared!Records \ {"action"} : rows'[r] = rows[r]
        /\ rows["action"] = "done" => rows'["action"] = "done"
        /\ done => rows'["action"] = "done"
    BY <1>0, <2>1 DEF Shared!TypeOK
  <2>3. new.what = "action" /\ (new.to = "done" => heard)
    OBVIOUS
  <2>4. calls' = calls \cup {new} /\ UNCHANGED <<owned, told, broken, crossed>>
    BY <1>9, <2>1 DEF Shared!DispatchAppBacked
  <2>. HIDE DEF new
  <2>5. \A c \in calls' : CallSound(c)'
    BY <1>0, <2>1, <2>2, <2>3, <2>4 DEF RecordsInv, CallSound
  <2>6. QED
    BY <1>0, <2>2, <2>4, <2>5 DEF RecordsInv
<1>10. CASE Shared!SaveView \/ Shared!RecordNps \/ Shared!GetOrCreateForShop
  BY <1>0, <1>10, BeginSound DEF Shared!SaveView, Shared!RecordNps, Shared!GetOrCreateForShop
<1>11. CASE Shared!RemoveView
  BY <1>0, <1>11 DEF Shared!RemoveView, Shared!TypeOK, Shared!Allowed, RecordsInv, CallSound
<1>12. ASSUME UNCHANGED <<rows, owned, told, broken, crossed>>, calls' \subseteq calls PROVE RecordsInv'
  BY <1>12 DEF RecordsInv, CallSound
<1>13. CASE Shared!FanOut
  <2>1. CASE owned["chats"] > 0
    BY <1>12, <1>13, <2>1 DEF Shared!FanOut
  <2>2. CASE ~(owned["chats"] > 0)
    <3>1. owned["chats"] < Cap["chats"]
      BY <1>0, <2>2 DEF Shared!TypeOK, Shared!Allowed
    <3>2. QED
      BY <1>0, <1>13, <2>2, <3>1, BeginSound DEF Shared!FanOut
  <2>3. QED
    BY <2>1, <2>2
<1>14. CASE Shared!Publish \/ Shared!FanOutFails
  BY <1>12, <1>14 DEF Shared!Publish, Shared!FanOutFails
<1>15. ASSUME NEW o \in Shared!Owned, Shared!Elapses(o) PROVE RecordsInv'
  BY <1>0, <1>15 DEF Shared!Elapses, Shared!TypeOK, Shared!Allowed, RecordsInv, CallSound
<1>16. ASSUME NEW c \in calls, Shared!Commit(c) PROVE RecordsInv'
  <2>1. /\ c.what \in Shared!Records \ {"action"} /\ Shared!Found(c)
        /\ rows' = [rows EXCEPT ![c.what] = c.to] /\ told' = [told EXCEPT ![c.what] = c.to]
        /\ broken' = IF told[c.what] = c.before THEN broken ELSE broken \cup {c.what}
        /\ crossed' = IF rows[c.what] = c.saw THEN crossed ELSE crossed \cup {c.what}
        /\ calls' = calls \ {c} /\ UNCHANGED owned
    BY <1>16 DEF Shared!Commit
  <2>2. CallSound(c)
    BY DEF RecordsInv
  <2>3. \A r \in Shared!Records \ {"action"} : told'[r] = rows'[r]
    BY <2>1 DEF RecordsInv, Shared!TypeOK
  <2>4. told'["action"] = told["action"] /\ rows'["action"] = rows["action"] /\ rows'["tag"] \in {Shared!None, "label"}
    BY <1>0, <2>1, <2>2 DEF Shared!TypeOK, CallSound
  <2>5. broken' \ {"chatTag"} \subseteq crossed'
    <3>1. c.needs = "gone" => rows[c.what] = Shared!None
      BY <2>1 DEF Shared!Found
    <3>2. QED
      BY <2>1, <2>2, <3>1 DEF RecordsInv, CallSound
  <2>6. \A d \in calls' : CallSound(d)'
    BY <2>1, <2>4 DEF RecordsInv, CallSound
  <2>7. QED
    BY <2>1, <2>3, <2>4, <2>5, <2>6 DEF RecordsInv
<1>17. ASSUME NEW c \in calls, Shared!AuditDispatch(c) PROVE RecordsInv'
  BY <1>0, <1>17 DEF Shared!AuditDispatch, Shared!TypeOK, RecordsInv, CallSound
<1>18. ASSUME NEW c \in calls, Shared!RollBack(c) PROVE RecordsInv'
  BY <1>12, <1>18 DEF Shared!RollBack
<1>19. ASSUME NEW c \in calls, Shared!Insert(c) PROVE RecordsInv'
  <2>1. /\ c.what \in Shared!Owned /\ owned' = [owned EXCEPT ![c.what] = @ + 1]
        /\ crossed' = IF owned[c.what] = c.had THEN crossed ELSE crossed \cup {c.what}
        /\ calls' = calls \ {c} /\ UNCHANGED <<rows, told, broken>>
    BY <1>19 DEF Shared!Insert
  <2>2. c.had < Cap[c.what] /\ c.had \in Nat
    BY <2>1 DEF RecordsInv, CallSound, Shared!TypeOK, Shared!Call
  <2>3. \A o \in Shared!Owned \ crossed' : owned'[o] <= Cap[o]
    BY <1>0, <2>1, <2>2 DEF RecordsInv, Shared!TypeOK, Shared!Allowed
  <2>4. QED
    BY <2>1, <2>3 DEF RecordsInv, CallSound
<1>20. CASE UNCHANGED Shared!vars
  BY <1>12, <1>20 DEF Shared!vars
<1>21. QED
  BY <1>1, <1>4, <1>5, <1>6, <1>7, <1>8, <1>9, <1>10, <1>11, <1>13, <1>14, <1>15, <1>16,
     <1>17, <1>18, <1>19, <1>20 DEF Shared!Next

\* However the calls of several administrators overlap, the last audit row of a record says what is
\* there, and the rows join and the limits are kept wherever no record changed between a call's read
\* and its write (MerchantActionService, ConversationTagService, CsatService, NpsService,
\* UsageSavedViewService, ConversationService.getOrCreateForShop).
THEOREM RecordsSafety ==
  ASSUME Shared!Allowed
  PROVE  Shared!Spec => [](Shared!TypeOK /\ Shared!RecordsAreTold)
<1>1. Shared!Init => RecordsInv
  BY DEF Shared!Allowed, Shared!Init, RecordsInv, Shared!Born, Shared!None, Shared!Records, Shared!Owned
<1>2. RecordsInv => Shared!RecordsAreTold
  BY DEF RecordsInv, Shared!RecordsAreTold
<1>3. QED
  BY <1>1, <1>2, SharedTypeInit, SharedTypeStep, RecordsStep, PTL DEF Shared!Spec

\* The shared records among the console's parts: the last audit row of a record says what is there,
\* and limits are kept, unless two calls crossed (the services of canned replies, tags, CSAT and NPS).
THEOREM RecordsAreToldHolds == ConsoleSpec => []RecordsAreTold
<1>1. [ConsoleNext]_allVars => part' = part
  BY DEF ConsoleNext, allVars, Moves
<1>2. ConsoleInit /\ part = "records" => Shared!Init
  BY DEF ConsoleInit
<1>3. [ConsoleNext]_allVars /\ part = "records" => [Shared!Next]_(Shared!vars)
  BY DEF ConsoleNext, allVars, Shared!vars, records, Moves
<1>4. Shared!Spec => [](Shared!TypeOK /\ Shared!RecordsAreTold)
  BY RecordsSafety, ConstantsAssumption DEF ConstantsAssumption
<1>5. part = "records" /\ part' = part => (part = "records")'
  OBVIOUS
<1>6. part # "records" /\ part' = part => (part # "records")'
  OBVIOUS
<1>7. (part # "records" => RecordsAreTold) /\ (Shared!TypeOK /\ Shared!RecordsAreTold => RecordsAreTold)
  BY DEF RecordsAreTold
<1>8. part = "records" \/ part # "records"
  OBVIOUS
<1>9. QED
  BY <1>1, <1>2, <1>3, <1>4, <1>5, <1>6, <1>7, <1>8, PTL DEF ConsoleSpec, Shared!Spec

-----------------------------------------------------------------------------
(* The feature flags: types.                                               *)

\* Nothing is flagged, and nobody reads.
LEMMA TogglesTypeInit == MaxChanges \in Nat /\ Toggles!Init => Toggles!TypeOK
BY DEF Toggles!Init, Toggles!TypeOK, Toggles!FlagRows, Toggles!Values

\* Whatever changes, an evaluation in progress stays one.
LEMMA WatchTyped ==
  ASSUME Toggles!TypeOK, Toggles!Watch
  PROVE  pull' \in [Shops -> {Toggles!Quiet} \cup Toggles!Evaluation]
<1>1. ASSUME NEW s \in Shops, pull[s].pc = "reading"
      PROVE  pull'[s] \in Toggles!Evaluation
  <2>. DEFINE ever == [k \in Flags |-> pull[s].ever[k] \cup {Toggles!Effective(flags', overrides', k, s)}]
              moved == pull[s].moved \cup {<<k, "flag">> : k \in {f \in Flags : flags'[f] # flags[f]}}
                         \cup {<<k, "shop">> : k \in {f \in Flags : overrides'[f][s] # overrides[f][s]}}
  <2>1. pull'[s] = [pull[s] EXCEPT !.ever = ever, !.moved = moved]
    BY <1>1 DEF Toggles!Watch
  <2>2. pull[s] \in Toggles!Evaluation
    BY <1>1 DEF Toggles!TypeOK, Toggles!Quiet
  <2>3. ever \in [Flags -> SUBSET {"absent", "on", "off"}]
    BY <2>2 DEF Toggles!Evaluation, Toggles!Effective
  <2>4. moved \in SUBSET (Flags \X {"flag", "shop"})
    BY <2>2 DEF Toggles!Evaluation
  <2>. HIDE DEF ever, moved
  <2>5. QED
    BY <2>1, <2>2, <2>3, <2>4 DEF Toggles!Evaluation
<1>2. ASSUME NEW s \in Shops, pull[s].pc # "reading"
      PROVE  pull'[s] = pull[s]
  BY <1>2 DEF Toggles!Watch
<1>3. pull' = [s \in Shops |-> pull'[s]]
  BY DEF Toggles!Watch
<1>4. QED
  BY <1>1, <1>2, <1>3 DEF Toggles!TypeOK

\* What a transaction is.
LEMMA TxTyped ==
  ASSUME Toggles!TypeOK, NEW kind \in {"set", "clear", "remove"}, NEW k \in Flags, NEW shops \in SUBSET Shops,
         NEW value \in Toggles!Values, NEW found \in SUBSET shops, kind # "set" <=> value = "none",
         changes > 0
  PROVE  /\ Toggles!Tx(kind, k, shops, value, found) \in Toggles!Transaction
         /\ Toggles!Tx(kind, k, shops, value, found).found \subseteq Toggles!Tx(kind, k, shops, value, found).shops
BY DEF Toggles!Tx, Toggles!TypeOK, Toggles!Transaction

\* What a transaction leaves when it commits.
LEMMA LeftTyped ==
  ASSUME Toggles!TypeOK, NEW c \in changing, Toggles!Left(c)
  PROVE  /\ flags' \in [Flags -> Toggles!FlagRows]
         /\ overrides' \in [Flags -> [Shops -> Toggles!Values]] /\ ruled' \in [Flags -> [Shops -> Toggles!Values]]
         /\ raced' \subseteq Flags \X Shops
<1>1. c.key \in Flags /\ c.value \in Toggles!Values /\ c.shops \subseteq Shops
  BY DEF Toggles!TypeOK, Toggles!Transaction
<1>2. flags' \in [Flags -> Toggles!FlagRows]
  BY DEF Toggles!Left, Toggles!TypeOK, Toggles!FlagRows
<1>. DEFINE os == [s \in Shops |-> IF s \in (IF c.kind = "set" THEN c.shops ELSE c.found) THEN c.value
                                   ELSE overrides[c.key][s]]
            ts == [s \in Shops |-> IF s \in c.shops THEN c.value ELSE ruled[c.key][s]]
<1>3. os \in [Shops -> Toggles!Values] /\ ts \in [Shops -> Toggles!Values]
  BY <1>1 DEF Toggles!TypeOK
<1>4. overrides' = [overrides EXCEPT ![c.key] = os] /\ ruled' = [ruled EXCEPT ![c.key] = ts]
  BY DEF Toggles!Left
<1>. HIDE DEF os, ts
<1>5. raced' \subseteq Flags \X Shops
  BY <1>1 DEF Toggles!Left, Toggles!TypeOK
<1>6. QED
  BY <1>2, <1>3, <1>4, <1>5 DEF Toggles!TypeOK

\* Every action leaves flags, overrides, pages and evaluations of their types.
LEMMA TogglesTypeStep == Toggles!TypeOK /\ [Toggles!Next]_(Toggles!vars) => Toggles!TypeOK'
<1>. SUFFICES ASSUME Toggles!TypeOK, [Toggles!Next]_(Toggles!vars) PROVE Toggles!TypeOK'
  OBVIOUS
<1>0. ASSUME NEW f \in Toggles!FlagRows
      PROVE  f.on \in BOOLEAN /\ (f.there => f \in [there : {TRUE}, on : BOOLEAN, pct : Percents])
  <2>1. CASE f = Toggles!NoFlag
    BY <2>1 DEF Toggles!NoFlag
  <2>2. CASE f \in [there : {TRUE}, on : BOOLEAN, pct : Percents]
    BY <2>2
  <2>3. QED
    BY <1>0, <2>1, <2>2 DEF Toggles!FlagRows
<1>1. ASSUME NEW a \in Operators, Toggles!List(a) PROVE Toggles!TypeOK'
  BY <1>1 DEF Toggles!List, Toggles!TypeOK
\* One flag changes, or is there for the first time.
<1>2. ASSUME NEW k \in Flags, NEW row \in Toggles!FlagRows, flags' = [flags EXCEPT ![k] = row],
             Toggles!Change, Toggles!Watch, UNCHANGED <<overrides, changing, page, ruled, raced>>
      PROVE  Toggles!TypeOK'
  <2>1. changes' \in Nat
    BY <1>2 DEF Toggles!Change, Toggles!TypeOK
  <2>2. QED
    BY <1>2, <2>1, WatchTyped DEF Toggles!TypeOK
<1>3. ASSUME NEW a \in Operators, NEW k \in Flags, Toggles!ToggleDefault(a, k) PROVE Toggles!TypeOK'
  <2>. DEFINE row == [flags[k] EXCEPT !.on = ~page[a][k].on]
  <2>1. page[a][k].on \in BOOLEAN
    <3>1. page[a][k] \in Toggles!FlagRows
      BY DEF Toggles!TypeOK
    <3>2. QED
      BY <1>0, <3>1
  <2>2. flags[k] \in [there : {TRUE}, on : BOOLEAN, pct : Percents]
    BY <1>0, <1>3 DEF Toggles!ToggleDefault, Toggles!TypeOK
  <2>3. row \in Toggles!FlagRows
    BY <2>1, <2>2 DEF Toggles!FlagRows
  <2>4. QED
    BY <1>2, <1>3, <2>3 DEF Toggles!ToggleDefault
<1>4. ASSUME NEW k \in Flags, Toggles!Create(k) PROVE Toggles!TypeOK'
  <2>1. PICK on \in BOOLEAN, pct \in Percents : flags' = [flags EXCEPT ![k] = Toggles!Flag(on, pct)]
    BY <1>4 DEF Toggles!Create
  <2>2. Toggles!Flag(on, pct) \in Toggles!FlagRows
    BY DEF Toggles!Flag, Toggles!FlagRows
  <2>3. QED
    BY <1>2, <1>4, <2>1, <2>2 DEF Toggles!Create
<1>5. ASSUME NEW k \in Flags, Toggles!Update(k) PROVE Toggles!TypeOK'
  <2>1. PICK pct \in Percents : flags' = [flags EXCEPT ![k].pct = pct]
    BY <1>5 DEF Toggles!Update
  <2>. DEFINE row == [flags[k] EXCEPT !.pct = pct]
  <2>2. flags[k] \in [there : {TRUE}, on : BOOLEAN, pct : Percents]
    BY <1>0, <1>5 DEF Toggles!Update, Toggles!TypeOK
  <2>3. row \in Toggles!FlagRows
    BY <2>2 DEF Toggles!FlagRows
  <2>4. QED
    BY <1>2, <1>5, <2>1, <2>3 DEF Toggles!Update
\* A transaction begins.
<1>6. ASSUME NEW tx \in Toggles!Transaction, tx.found \subseteq tx.shops, tx.kind # "set" <=> tx.value = "none",
             changing' = changing \cup {tx}, Toggles!Change, UNCHANGED <<flags, overrides, page, pull, ruled, raced>>
      PROVE  Toggles!TypeOK'
  BY <1>6 DEF Toggles!TypeOK, Toggles!Change
<1>7. ASSUME NEW k \in Flags, NEW s \in Shops, Toggles!FindOverride(k, s) PROVE Toggles!TypeOK'
  <2>1. PICK v \in {"on", "off"} :
          changing' = changing \cup {Toggles!Tx("set", k, {s}, v, Toggles!Present(k) \cap {s})}
    BY <1>7 DEF Toggles!FindOverride
  <2>. DEFINE tx == Toggles!Tx("set", k, {s}, v, Toggles!Present(k) \cap {s})
  <2>2. tx \in Toggles!Transaction /\ tx.found \subseteq tx.shops /\ tx.kind = "set" /\ tx.value # "none"
    BY <1>7 DEF Toggles!FindOverride, Toggles!Change, Toggles!Tx, Toggles!TypeOK, Toggles!Transaction, Toggles!Values
  <2>. HIDE DEF tx
  <2>3. QED
    BY <1>6, <1>7, <2>1, <2>2 DEF Toggles!FindOverride, tx
<1>8. ASSUME NEW k \in Flags, NEW s \in Shops, Toggles!DeleteOverride(k, s) PROVE Toggles!TypeOK'
  <2>. DEFINE tx == Toggles!Tx("clear", k, {s}, "none", Toggles!Present(k) \cap {s})
  <2>1. changing' = changing \cup {tx}
    BY <1>8 DEF Toggles!DeleteOverride
  <2>2. tx \in Toggles!Transaction /\ tx.found \subseteq tx.shops /\ tx.kind = "clear" /\ tx.value = "none"
    BY <1>8 DEF Toggles!DeleteOverride, Toggles!Change, Toggles!Tx, Toggles!TypeOK, Toggles!Transaction, Toggles!Values
  <2>. HIDE DEF tx
  <2>3. QED
    BY <1>6, <1>8, <2>1, <2>2 DEF Toggles!DeleteOverride
<1>9. ASSUME NEW k \in Flags, Toggles!DeleteFlag(k) PROVE Toggles!TypeOK'
  <2>. DEFINE tx == Toggles!Tx("remove", k, Shops, "none", Toggles!Present(k))
  <2>1. changing' = changing \cup {tx}
    BY <1>9 DEF Toggles!DeleteFlag
  <2>2. tx \in Toggles!Transaction /\ tx.found \subseteq tx.shops /\ tx.kind = "remove" /\ tx.value = "none"
    BY <1>9 DEF Toggles!DeleteFlag, Toggles!Change, Toggles!Tx, Toggles!TypeOK, Toggles!Transaction, Toggles!Values,
                Toggles!Present
  <2>. HIDE DEF tx
  <2>3. QED
    BY <1>6, <1>9, <2>1, <2>2 DEF Toggles!DeleteFlag
<1>10. ASSUME NEW c \in changing, Toggles!Commit(c) PROVE Toggles!TypeOK'
  BY <1>10, LeftTyped, WatchTyped DEF Toggles!Commit, Toggles!TypeOK
<1>11. ASSUME NEW c \in changing, Toggles!RollBack(c) PROVE Toggles!TypeOK'
  BY <1>11 DEF Toggles!RollBack, Toggles!TypeOK
\* An evaluation moves on.
<1>12. ASSUME NEW s \in Shops, NEW p \in {Toggles!Quiet} \cup Toggles!Evaluation, pull' = [pull EXCEPT ![s] = p],
              UNCHANGED <<flags, overrides, changing, page, ruled, raced, changes>>
       PROVE  Toggles!TypeOK'
  BY <1>12 DEF Toggles!TypeOK
<1>13. ASSUME NEW s \in Shops, Toggles!Pull(s) PROVE Toggles!TypeOK'
  <2>. DEFINE p == [pc |-> "reading", read |-> {}, flags |-> flags, shop |-> Toggles!Nothing,
                    ever |-> [k \in Flags |-> {Toggles!Effective(flags, overrides, k, s)}], moved |-> {}]
  <2>1. [k \in Flags |-> {Toggles!Effective(flags, overrides, k, s)}] \in [Flags -> SUBSET {"absent", "on", "off"}]
    BY DEF Toggles!Effective
  <2>2. p \in Toggles!Evaluation
    BY <2>1 DEF Toggles!Evaluation, Toggles!Nothing, Toggles!Values, Toggles!TypeOK
  <2>3. QED
    BY <1>12, <1>13, <2>2 DEF Toggles!Pull
<1>14. ASSUME NEW s \in Shops, Toggles!ReadFlags(s) PROVE Toggles!TypeOK'
  <2>. DEFINE p == [pull[s] EXCEPT !.flags = flags, !.read = @ \cup {"flags"}]
  <2>1. pull[s] \in Toggles!Evaluation
    BY <1>14 DEF Toggles!ReadFlags, Toggles!TypeOK, Toggles!Quiet
  <2>2. p \in Toggles!Evaluation
    BY <2>1 DEF Toggles!Evaluation, Toggles!TypeOK
  <2>3. QED
    BY <1>12, <1>14, <2>2 DEF Toggles!ReadFlags
<1>15. ASSUME NEW s \in Shops, Toggles!ReadOverrides(s) PROVE Toggles!TypeOK'
  <2>. DEFINE shop == [k \in Flags |-> overrides[k][s]]
              p == [pull[s] EXCEPT !.shop = shop, !.read = @ \cup {"shop"}]
  <2>1. pull[s] \in Toggles!Evaluation
    BY <1>15 DEF Toggles!ReadOverrides, Toggles!TypeOK, Toggles!Quiet
  <2>2. shop \in [Flags -> Toggles!Values]
    BY DEF Toggles!TypeOK
  <2>3. p \in Toggles!Evaluation
    BY <2>1, <2>2 DEF Toggles!Evaluation
  <2>4. QED
    BY <1>12, <1>15, <2>3 DEF Toggles!ReadOverrides
<1>16. ASSUME NEW s \in Shops, Toggles!Respond(s) PROVE Toggles!TypeOK'
  BY <1>12, <1>16 DEF Toggles!Respond
<1>17. CASE UNCHANGED Toggles!vars
  BY <1>17 DEF Toggles!vars, Toggles!TypeOK
<1>18. QED
  BY <1>1, <1>3, <1>4, <1>5, <1>7, <1>8, <1>9, <1>10, <1>11, <1>13, <1>14, <1>15, <1>16, <1>17 DEF Toggles!Next

-----------------------------------------------------------------------------
(* The overrides that are not raced are those the audit log tells.         *)

\* An override that was not raced is what the log tells of it, and a transaction that removes what
\* it did not find has nothing to remove.
OverridesInv ==
  \A k \in Flags, s \in Shops : <<k, s>> \notin raced =>
    /\ overrides[k][s] = ruled[k][s]
    /\ \A c \in changing : c.key = k /\ s \in c.shops \ c.found /\ c.kind # "set" => overrides[k][s] = "none"

\* No change of a flag or an override breaks that.
LEMMA OverridesStep == Toggles!TypeOK /\ OverridesInv /\ [Toggles!Next]_(Toggles!vars) => OverridesInv'
<1>. SUFFICES ASSUME Toggles!TypeOK, OverridesInv, [Toggles!Next]_(Toggles!vars) PROVE OverridesInv'
  OBVIOUS
<1>1. ASSUME UNCHANGED <<overrides, ruled, raced>>, changing' \subseteq changing PROVE OverridesInv'
  BY <1>1 DEF OverridesInv
<1>2. ASSUME NEW tx, changing' = changing \cup {tx}, UNCHANGED <<overrides, ruled, raced>>,
             \A s \in tx.shops \ tx.found : overrides[tx.key][s] = "none"
      PROVE  OverridesInv'
  BY <1>2 DEF OverridesInv
<1>3. ASSUME NEW k \in Flags, NEW s \in Shops, Toggles!FindOverride(k, s) PROVE OverridesInv'
  <2>1. PICK v \in {"on", "off"} :
          changing' = changing \cup {Toggles!Tx("set", k, {s}, v, Toggles!Present(k) \cap {s})}
    BY <1>3 DEF Toggles!FindOverride
  <2>. DEFINE tx == Toggles!Tx("set", k, {s}, v, Toggles!Present(k) \cap {s})
  <2>2. tx.key = k /\ tx.shops = {s} /\ tx.found = Toggles!Present(k) \cap {s}
    BY DEF Toggles!Tx
  <2>. HIDE DEF tx
  <2>3. \A t \in tx.shops \ tx.found : overrides[tx.key][t] = "none"
    BY <2>2 DEF Toggles!Present
  <2>4. QED
    BY <1>2, <1>3, <2>1, <2>3 DEF Toggles!FindOverride, tx
<1>4. ASSUME NEW k \in Flags, NEW s \in Shops, Toggles!DeleteOverride(k, s) PROVE OverridesInv'
  <2>. DEFINE tx == Toggles!Tx("clear", k, {s}, "none", Toggles!Present(k) \cap {s})
  <2>1. tx.key = k /\ tx.shops = {s} /\ tx.found = Toggles!Present(k) \cap {s}
    BY DEF Toggles!Tx
  <2>2. changing' = changing \cup {tx} /\ UNCHANGED <<overrides, ruled, raced>>
    BY <1>4 DEF Toggles!DeleteOverride
  <2>. HIDE DEF tx
  <2>3. \A t \in tx.shops \ tx.found : overrides[tx.key][t] = "none"
    BY <2>1 DEF Toggles!Present
  <2>4. QED
    BY <1>2, <2>2, <2>3
<1>5. ASSUME NEW k \in Flags, Toggles!DeleteFlag(k) PROVE OverridesInv'
  <2>. DEFINE tx == Toggles!Tx("remove", k, Shops, "none", Toggles!Present(k))
  <2>1. tx.key = k /\ tx.shops = Shops /\ tx.found = Toggles!Present(k)
    BY DEF Toggles!Tx
  <2>2. changing' = changing \cup {tx} /\ UNCHANGED <<overrides, ruled, raced>>
    BY <1>5 DEF Toggles!DeleteFlag
  <2>. HIDE DEF tx
  <2>3. \A t \in tx.shops \ tx.found : overrides[tx.key][t] = "none"
    BY <2>1 DEF Toggles!Present
  <2>4. QED
    BY <1>2, <2>2, <2>3
<1>6. ASSUME NEW c \in changing, Toggles!Commit(c) PROVE OverridesInv'
  <2>1. Toggles!Left(c) /\ changing' = changing \ {c}
    BY <1>6 DEF Toggles!Commit
  <2>2. c.key \in Flags /\ c.found \subseteq c.shops /\ (c.kind # "set" => c.value = "none")
    BY DEF Toggles!TypeOK, Toggles!Transaction
  <2>3. SUFFICES ASSUME NEW k \in Flags, NEW s \in Shops, <<k, s>> \notin raced'
                 PROVE  /\ overrides'[k][s] = ruled'[k][s]
                        /\ \A d \in changing' : d.key = k /\ s \in d.shops \ d.found /\ d.kind # "set" =>
                             overrides'[k][s] = "none"
    BY DEF OverridesInv
  <2>4. CASE k = c.key /\ s \in c.shops
    <3>1. \A d \in changing \ {c} : ~(d.key = k /\ s \in d.shops)
      BY <2>1, <2>3, <2>4 DEF Toggles!Left
    <3>2. ruled'[k][s] = c.value
      BY <2>1, <2>4 DEF Toggles!Left, Toggles!TypeOK
    <3>3. CASE c.kind = "set"
      BY <2>1, <2>4, <3>1, <3>2, <3>3 DEF Toggles!Left, Toggles!TypeOK
    <3>4. CASE c.kind # "set"
      <4>1. <<k, s>> \notin raced
        BY <2>1, <2>3, <3>4 DEF Toggles!Left
      <4>2. overrides'[k][s] = IF s \in c.found THEN "none" ELSE overrides[k][s]
        BY <2>1, <2>2, <2>4, <3>4 DEF Toggles!Left, Toggles!TypeOK
      <4>3. s \notin c.found => overrides[k][s] = "none"
        BY <2>4, <3>4, <4>1 DEF OverridesInv
      <4>4. QED
        BY <2>1, <2>2, <3>1, <3>2, <3>4, <4>2, <4>3
    <3>5. QED
      BY <3>3, <3>4
  <2>5. CASE ~(k = c.key /\ s \in c.shops)
    <3>1. overrides'[k][s] = overrides[k][s] /\ ruled'[k][s] = ruled[k][s]
      BY <2>1, <2>2, <2>5 DEF Toggles!Left, Toggles!TypeOK
    <3>2. <<k, s>> \notin raced
      BY <2>1, <2>3, <2>5 DEF Toggles!Left
    <3>3. QED
      BY <2>1, <3>1, <3>2 DEF OverridesInv
  <2>6. QED
    BY <2>4, <2>5
<1>7. ASSUME NEW c \in changing, Toggles!RollBack(c) PROVE OverridesInv'
  BY <1>1, <1>7 DEF Toggles!RollBack
<1>8. ASSUME NEW k \in Flags, Toggles!Create(k) \/ Toggles!Update(k) PROVE OverridesInv'
  BY <1>1, <1>8 DEF Toggles!Create, Toggles!Update
<1>9. ASSUME NEW a \in Operators, Toggles!List(a) \/ \E k \in Flags : Toggles!ToggleDefault(a, k) PROVE OverridesInv'
  BY <1>1, <1>9 DEF Toggles!List, Toggles!ToggleDefault
<1>10. ASSUME NEW s \in Shops,
              Toggles!Pull(s) \/ Toggles!ReadFlags(s) \/ Toggles!ReadOverrides(s) \/ Toggles!Respond(s)
       PROVE  OverridesInv'
  BY <1>1, <1>10 DEF Toggles!Pull, Toggles!ReadFlags, Toggles!ReadOverrides, Toggles!Respond
<1>11. CASE UNCHANGED Toggles!vars
  BY <1>1, <1>11 DEF Toggles!vars
<1>12. QED
  BY <1>3, <1>4, <1>5, <1>6, <1>7, <1>8, <1>9, <1>10, <1>11 DEF Toggles!Next

-----------------------------------------------------------------------------
(* What an evaluation may tell.                                            *)

\* What a shop would be told of a flag by this row and this override.
Shown(flag, override, k, s) ==
  IF ~flag.there THEN "absent" ELSE IF Toggles!IsEnabled(flag, override, k, s) THEN "on" ELSE "off"

\* Of a flag that did not change since the evaluation began the shop may be told by any
\* override that was read, and the other way round.
MayTell(p, flag, override, k, s) ==
  /\ Shown(flag, override, k, s) \in p.ever[k]
  /\ <<k, "flag">> \notin p.moved =>
       /\ "flags" \in p.read => p.flags[k] = flag
       /\ "shop" \in p.read => Shown(flag, p.shop[k], k, s) \in p.ever[k]
  /\ <<k, "shop">> \notin p.moved =>
       /\ "shop" \in p.read => p.shop[k] = override
       /\ "flags" \in p.read => Shown(p.flags[k], override, k, s) \in p.ever[k]

\* So it is of every flag, for a shop whose evaluation has begun.
Evaluates(s) ==
  pull[s].pc = "reading" => \A k \in Flags : MayTell(pull[s], flags[k], overrides[k][s], k, s)

\* A shop is told by one row and one override.
LEMMA EffectiveShown ==
  ASSUME NEW fs, NEW os, NEW k, NEW s
  PROVE  Toggles!Effective(fs, os, k, s) = Shown(fs[k], os[k][s], k, s)
BY DEF Toggles!Effective, Shown

\* A change while an evaluation is in progress is something that was the case during it.
LEMMA WatchEvaluates ==
  ASSUME Toggles!TypeOK, Toggles!Watch, \A s \in Shops : Evaluates(s)
  PROVE  \A s \in Shops : Evaluates(s)'
<1>. SUFFICES ASSUME NEW s \in Shops, pull'[s].pc = "reading", NEW k \in Flags
              PROVE  MayTell(pull'[s], flags'[k], overrides'[k][s], k, s)
  BY DEF Evaluates
<1>. DEFINE ever == [f \in Flags |-> pull[s].ever[f] \cup {Toggles!Effective(flags', overrides', f, s)}]
            moved == pull[s].moved \cup {<<f, "flag">> : f \in {g \in Flags : flags'[g] # flags[g]}}
                       \cup {<<f, "shop">> : f \in {g \in Flags : overrides'[g][s] # overrides[g][s]}}
<1>1. pull[s].pc = "reading"
  <2>1. pull[s].pc # "reading" => pull'[s] = pull[s]
    BY DEF Toggles!Watch
  <2>2. QED
    BY <2>1
<1>2. pull'[s] = [pull[s] EXCEPT !.ever = ever, !.moved = moved]
  BY <1>1 DEF Toggles!Watch
<1>3. pull[s] \in Toggles!Evaluation
  BY <1>1 DEF Toggles!TypeOK, Toggles!Quiet
<1>4. ever[k] = pull[s].ever[k] \cup {Shown(flags'[k], overrides'[k][s], k, s)}
  BY EffectiveShown
<1>5. /\ <<k, "flag">> \notin moved => <<k, "flag">> \notin pull[s].moved /\ flags'[k] = flags[k]
      /\ <<k, "shop">> \notin moved => <<k, "shop">> \notin pull[s].moved /\ overrides'[k][s] = overrides[k][s]
  OBVIOUS
<1>. HIDE DEF ever, moved
<1>6. /\ pull'[s].ever = ever /\ pull'[s].moved = moved /\ pull'[s].read = pull[s].read
      /\ pull'[s].flags = pull[s].flags /\ pull'[s].shop = pull[s].shop
  BY <1>2, <1>3 DEF Toggles!Evaluation
<1>7. QED
  BY <1>1, <1>4, <1>5, <1>6 DEF Evaluates, MayTell

\* No read of an evaluation, and no change during it, breaks that.
LEMMA EvaluatesStep ==
  Toggles!TypeOK /\ (\A s \in Shops : Evaluates(s)) /\ [Toggles!Next]_(Toggles!vars) => \A s \in Shops : Evaluates(s)'
<1>. SUFFICES ASSUME Toggles!TypeOK, \A s \in Shops : Evaluates(s), [Toggles!Next]_(Toggles!vars)
              PROVE  \A s \in Shops : Evaluates(s)'
  OBVIOUS
<1>1. ASSUME UNCHANGED <<flags, overrides, pull>> PROVE \A s \in Shops : Evaluates(s)'
  BY <1>1 DEF Evaluates
<1>2. ASSUME NEW s \in Shops, NEW p, pull' = [pull EXCEPT ![s] = p], UNCHANGED <<flags, overrides>>, Evaluates(s)'
      PROVE  \A t \in Shops : Evaluates(t)'
  <2>1. \A t \in Shops \ {s} : pull'[t] = pull[t]
    BY <1>2 DEF Toggles!TypeOK
  <2>2. \A t \in Shops \ {s} : Evaluates(t)'
    BY <1>2, <2>1 DEF Evaluates
  <2>3. QED
    BY <1>2, <2>2
<1>3. ASSUME NEW s \in Shops, Toggles!Pull(s) PROVE \A t \in Shops : Evaluates(t)'
  <2>. DEFINE ever == [k \in Flags |-> {Toggles!Effective(flags, overrides, k, s)}]
              p == [pc |-> "reading", read |-> {}, flags |-> flags, shop |-> Toggles!Nothing,
                    ever |-> ever, moved |-> {}]
  <2>1. pull' = [pull EXCEPT ![s] = p] /\ UNCHANGED <<flags, overrides>>
    BY <1>3 DEF Toggles!Pull
  <2>2. \A k \in Flags : ever[k] = {Shown(flags[k], overrides[k][s], k, s)}
    BY EffectiveShown
  <2>. HIDE DEF ever
  <2>3. pull'[s].ever = ever /\ pull'[s].read = {}
    BY <2>1 DEF Toggles!TypeOK
  <2>4. Evaluates(s)'
    BY <2>1, <2>2, <2>3 DEF Evaluates, MayTell
  <2>5. QED
    BY <1>2, <2>1, <2>4
<1>4. ASSUME NEW s \in Shops, Toggles!ReadFlags(s) PROVE \A t \in Shops : Evaluates(t)'
  <2>. DEFINE p == [pull[s] EXCEPT !.flags = flags, !.read = @ \cup {"flags"}]
  <2>1. pull' = [pull EXCEPT ![s] = p] /\ UNCHANGED <<flags, overrides>> /\ pull[s].pc = "reading"
    BY <1>4 DEF Toggles!ReadFlags
  <2>2. pull[s] \in Toggles!Evaluation
    BY <2>1 DEF Toggles!TypeOK, Toggles!Quiet
  <2>3. /\ p.flags = flags /\ p.read = pull[s].read \cup {"flags"} /\ p.shop = pull[s].shop
        /\ p.ever = pull[s].ever /\ p.moved = pull[s].moved
    BY <2>2 DEF Toggles!Evaluation
  <2>. HIDE DEF p
  <2>4. pull'[s] = p
    BY <2>1 DEF Toggles!TypeOK
  <2>5. ASSUME NEW k \in Flags PROVE MayTell(p, flags[k], overrides[k][s], k, s)
    <3>1. MayTell(pull[s], flags[k], overrides[k][s], k, s)
      BY <2>1 DEF Evaluates
    <3>2. QED
      BY <2>3, <3>1 DEF MayTell
  <2>6. Evaluates(s)'
    BY <2>1, <2>4, <2>5 DEF Evaluates
  <2>7. QED
    BY <1>2, <2>1, <2>6
<1>5. ASSUME NEW s \in Shops, Toggles!ReadOverrides(s) PROVE \A t \in Shops : Evaluates(t)'
  <2>. DEFINE shop == [k \in Flags |-> overrides[k][s]]
              p == [pull[s] EXCEPT !.shop = shop, !.read = @ \cup {"shop"}]
  <2>1. pull' = [pull EXCEPT ![s] = p] /\ UNCHANGED <<flags, overrides>> /\ pull[s].pc = "reading"
    BY <1>5 DEF Toggles!ReadOverrides
  <2>2. pull[s] \in Toggles!Evaluation
    BY <2>1 DEF Toggles!TypeOK, Toggles!Quiet
  <2>3. \A k \in Flags : shop[k] = overrides[k][s]
    OBVIOUS
  <2>. HIDE DEF shop
  <2>4. /\ p.flags = pull[s].flags /\ p.read = pull[s].read \cup {"shop"} /\ p.shop = shop
        /\ p.ever = pull[s].ever /\ p.moved = pull[s].moved
    BY <2>2 DEF Toggles!Evaluation
  <2>. HIDE DEF p
  <2>5. pull'[s] = p
    BY <2>1 DEF Toggles!TypeOK
  <2>6. ASSUME NEW k \in Flags PROVE MayTell(p, flags[k], overrides[k][s], k, s)
    <3>1. MayTell(pull[s], flags[k], overrides[k][s], k, s)
      BY <2>1 DEF Evaluates
    <3>2. shop[k] = overrides[k][s]
      BY <2>3
    <3>3. QED
      BY <2>4, <3>1, <3>2 DEF MayTell
  <2>7. Evaluates(s)'
    BY <2>1, <2>5, <2>6 DEF Evaluates
  <2>8. QED
    BY <1>2, <2>1, <2>7
<1>6. ASSUME NEW s \in Shops, Toggles!Respond(s) PROVE \A t \in Shops : Evaluates(t)'
  <2>1. pull' = [pull EXCEPT ![s] = Toggles!Quiet] /\ UNCHANGED <<flags, overrides>>
    BY <1>6 DEF Toggles!Respond
  <2>2. pull'[s] = Toggles!Quiet
    BY <2>1 DEF Toggles!TypeOK
  <2>3. Evaluates(s)'
    <3>1. pull'[s].pc = "idle"
      BY <2>2 DEF Toggles!Quiet
    <3>2. QED
      BY <3>1 DEF Evaluates
  <2>4. QED
    BY <1>2, <2>1, <2>3
<1>7. ASSUME NEW k \in Flags, Toggles!Create(k) \/ Toggles!Update(k) PROVE \A s \in Shops : Evaluates(s)'
  BY <1>7, WatchEvaluates DEF Toggles!Create, Toggles!Update
<1>8. ASSUME NEW a \in Operators, NEW k \in Flags, Toggles!ToggleDefault(a, k) PROVE \A s \in Shops : Evaluates(s)'
  BY <1>8, WatchEvaluates DEF Toggles!ToggleDefault
<1>9. ASSUME NEW c \in changing, Toggles!Commit(c) PROVE \A s \in Shops : Evaluates(s)'
  BY <1>9, WatchEvaluates DEF Toggles!Commit
<1>10. ASSUME NEW c \in changing, Toggles!RollBack(c) PROVE \A s \in Shops : Evaluates(s)'
  BY <1>1, <1>10 DEF Toggles!RollBack
<1>11. ASSUME NEW a \in Operators, Toggles!List(a) PROVE \A s \in Shops : Evaluates(s)'
  BY <1>1, <1>11 DEF Toggles!List
<1>12. ASSUME NEW k \in Flags,
              Toggles!DeleteFlag(k) \/ \E s \in Shops : Toggles!FindOverride(k, s) \/ Toggles!DeleteOverride(k, s)
       PROVE  \A s \in Shops : Evaluates(s)'
  BY <1>1, <1>12 DEF Toggles!DeleteFlag, Toggles!FindOverride, Toggles!DeleteOverride
<1>13. CASE UNCHANGED Toggles!vars
  BY <1>1, <1>13 DEF Toggles!vars
<1>14. QED
  BY <1>3, <1>4, <1>5, <1>6, <1>7, <1>8, <1>9, <1>10, <1>11, <1>12, <1>13 DEF Toggles!Next

\* Whatever administrators change while shops evaluate, an override that was not raced is what the
\* log tells, and a shop is told of a flag only what was the case at a time of the evaluation,
\* but where the flag and its override both changed during it (FeatureFlagService.setOverride,
\* clearOverride, remove, evaluateForShop).
THEOREM FlagsSafety ==
  ASSUME MaxChanges \in Nat
  PROVE  Toggles!Spec => [](Toggles!TypeOK /\ Toggles!FlagsAreTold)
<1>. DEFINE Inv == Toggles!TypeOK /\ OverridesInv /\ \A s \in Shops : Evaluates(s)
<1>1. Toggles!Init => Inv
  BY TogglesTypeInit DEF Toggles!Init, OverridesInv, Evaluates, Toggles!Quiet
<1>2. Inv /\ [Toggles!Next]_(Toggles!vars) => Inv'
  BY TogglesTypeStep, OverridesStep, EvaluatesStep
<1>3. Inv => Toggles!FlagsAreTold
  <2>1. ASSUME Inv, NEW s \in Shops, pull[s].pc = "reading", pull[s].read = {"flags", "shop"}, NEW k \in Flags,
               ~({<<k, "flag">>, <<k, "shop">>} \subseteq pull[s].moved)
        PROVE  Toggles!Answer(s, k) \in pull[s].ever[k]
    <3>1. Toggles!Answer(s, k) = Shown(pull[s].flags[k], pull[s].shop[k], k, s)
      BY EffectiveShown DEF Toggles!Answer
    <3>2. QED
      BY <2>1, <3>1 DEF Evaluates, MayTell
  <2>2. QED
    BY <2>1 DEF OverridesInv, Toggles!FlagsAreTold
<1>4. QED
  BY <1>1, <1>2, <1>3, PTL DEF Toggles!Spec

\* The flags among the console's parts: the audit log has the overrides, and a shop is told only what
\* a flag and an override said while it asked (FeatureFlagService).
THEOREM FlagsAreToldHolds == ConsoleSpec => []FlagsAreTold
<1>1. [ConsoleNext]_allVars => part' = part
  BY DEF ConsoleNext, allVars, Moves
<1>2. ConsoleInit /\ part = "flags" => Toggles!Init
  BY DEF ConsoleInit
<1>3. [ConsoleNext]_allVars /\ part = "flags" => [Toggles!Next]_(Toggles!vars)
  BY DEF ConsoleNext, allVars, Toggles!vars, toggles, Moves
<1>4. Toggles!Spec => [](Toggles!TypeOK /\ Toggles!FlagsAreTold)
  BY FlagsSafety, ConstantsAssumption DEF ConstantsAssumption
<1>5. part = "flags" /\ part' = part => (part = "flags")'
  OBVIOUS
<1>6. part # "flags" /\ part' = part => (part # "flags")'
  OBVIOUS
<1>7. (part # "flags" => FlagsAreTold) /\ (Toggles!TypeOK /\ Toggles!FlagsAreTold => FlagsAreTold)
  BY DEF FlagsAreTold
<1>8. part = "flags" \/ part # "flags"
  OBVIOUS
<1>9. QED
  BY <1>1, <1>2, <1>3, <1>4, <1>5, <1>6, <1>7, <1>8, PTL DEF ConsoleSpec, Toggles!Spec

-----------------------------------------------------------------------------
(* The badge catalog: types.                                               *)

\* One row, with an image of another app, and nothing going on.
LEMMA BadgesTypeInit == Badges!Stocked /\ Badges!Init => Badges!TypeOK
<1>. SUFFICES ASSUME Badges!Stocked, Badges!Init PROVE Badges!TypeOK
  OBVIOUS
<1>1. graphics \in Seq(Badges!Row) /\ Badges!Ids = {1}
  BY DEF Badges!Init, Badges!Stocked, Badges!Row, Badges!Paths, Badges!Ids
<1>2. Badges!Closed \in Badges!Form /\ Badges!Closed.open = "none"
  BY DEF Badges!Closed, Badges!Form
<1>3. QED
  BY <1>1, <1>2 DEF Badges!Init, Badges!Stocked, Badges!TypeOK, Badges!Paths

\* What every step keeps of the type that it leaves alone.
LEMMA RowChanged ==
  ASSUME Badges!TypeOK, NEW id \in Badges!Ids, NEW row \in Badges!Row, graphics' = [graphics EXCEPT ![id] = row],
         row.slug = graphics[id].slug, graphics[id].status = "GONE" => row.status = "GONE"
  PROVE  /\ graphics' \in Seq(Badges!Row) /\ Badges!Ids' = Badges!Ids
         /\ graphics'[id] = row /\ \A k \in Badges!Ids \ {id} : graphics'[k] = graphics[k]
         /\ \A i, j \in Badges!Ids :
              graphics'[i].slug = graphics'[j].slug /\ i # j => "GONE" \in {graphics'[i].status, graphics'[j].status}
<1>1. graphics' \in Seq(Badges!Row) /\ Badges!Ids' = Badges!Ids
  <2>1. Badges!Ids = 1..Len(graphics)
    BY DEF Badges!TypeOK, Badges!Ids
  <2>2. QED
    BY <2>1, ExceptSeq DEF Badges!TypeOK, Badges!Ids
<1>2. graphics'[id] = row /\ \A k \in Badges!Ids \ {id} : graphics'[k] = graphics[k]
  BY DEF Badges!Ids
<1>3. QED
  BY <1>1, <1>2 DEF Badges!TypeOK

\* A bound that is used up by one step is still a bound.
LEMMA BadgesUses ==
  ASSUME Badges!TypeOK, NEW what \in {"uploads", "saves", "removals", "defaults"}, Badges!Uses(what)
  PROVE  images' \in Badges!Supply
<1>1. images[what] \in Nat
  BY DEF Badges!TypeOK, Badges!Supply
<1>2. images[what] - 1 \in Nat
  BY <1>1 DEF Badges!Uses
<1>3. QED
  BY <1>2 DEF Badges!Uses, Badges!TypeOK, Badges!Supply

\* What a row is; 0 is the id of none.
LEMMA RowOf ==
  ASSUME Badges!TypeOK, NEW id \in Badges!Ids
  PROVE  graphics[id] \in Badges!Row /\ id \in Nat /\ id # 0
BY ElementOfSeq DEF Badges!TypeOK, Badges!Ids

\* What an update call is.
LEMMA UpdateTyped ==
  ASSUME Badges!TypeOK, NEW a \in Admins, NEW id \in Badges!Ids, NEW path \in Badges!Paths, NEW fresh \in BOOLEAN
  PROVE  /\ Badges!Update(a, id, path, fresh) \in Badges!Call
         /\ Badges!Update(a, id, path, fresh).kind = "update" /\ Badges!Update(a, id, path, fresh).path = path
BY RowOf DEF Badges!Update, Badges!Call

\* Every action leaves rows, files, forms, uploads and calls of their types.
LEMMA BadgesTypeStep == Badges!TypeOK /\ [Badges!Next]_(Badges!vars) => Badges!TypeOK'
<1>. SUFFICES ASSUME Badges!TypeOK, [Badges!Next]_(Badges!vars) PROVE Badges!TypeOK'
  OBVIOUS
<1>0. Badges!Closed \in Badges!Form /\ Badges!Closed.open = "none" /\ Badges!Closed.id = 0
  BY DEF Badges!Closed, Badges!Form
<1>f. \A f \in Badges!Form : f.id \in Nat /\ f.path \in Badges!Paths \cup {Badges!NoSlug} /\ f.fresh \in BOOLEAN
  BY DEF Badges!Form
<1>r. \A r \in Badges!Row : r.slug \in Slugs /\ r.path \in Badges!Paths /\ r.status \in {"ACTIVE", "ARCHIVED", "GONE"}
  BY DEF Badges!Row
<1>c. \A c \in Badges!Call : /\ c.by \in Admins /\ c.path \in Badges!Paths /\ c.fresh \in BOOLEAN
                             /\ c.old \in Badges!Paths \cup {Badges!NoSlug}
  BY DEF Badges!Call
<1>u. \A u \in Badges!Upload : u.by \in Admins /\ u.path \in Badges!Paths
  BY DEF Badges!Upload
\* The form of one administrator.
<1>1. ASSUME NEW a \in Admins, NEW f \in Badges!Form, f.open = "edit" => f.id \in Badges!Ids /\ f.path \in Badges!Paths,
             form' = [form EXCEPT ![a] = f], UNCHANGED <<graphics, default, uploads, images, odd>>,
             files' \subseteq Badges!Paths, edits' \subseteq edits
      PROVE  Badges!TypeOK'
  BY <1>1 DEF Badges!TypeOK, Badges!Ids
<1>2. ASSUME NEW a \in Admins, Badges!OpenCreate(a) PROVE Badges!TypeOK'
  <2>. DEFINE f == [Badges!Closed EXCEPT !.open = "create"]
  <2>1. f \in Badges!Form /\ f.open = "create"
    BY <1>0 DEF Badges!Form
  <2>2. form' = [form EXCEPT ![a] = f] /\ UNCHANGED <<graphics, default, files, uploads, edits, images, odd>>
    BY <1>2 DEF Badges!OpenCreate
  <2>. HIDE DEF f
  <2>3. QED
    BY <1>1, <2>1, <2>2 DEF Badges!TypeOK
<1>3. ASSUME NEW a \in Admins, NEW id \in Badges!Ids, Badges!OpenEdit(a, id) PROVE Badges!TypeOK'
  <2>. DEFINE f == [open |-> "edit", id |-> id, path |-> graphics[id].path, fresh |-> FALSE]
  <2>1. f \in Badges!Form /\ f.id = id /\ f.path \in Badges!Paths
    BY <1>r, RowOf DEF Badges!Form
  <2>2. form' = [form EXCEPT ![a] = f] /\ UNCHANGED <<graphics, default, files, uploads, edits, images, odd>>
    BY <1>3 DEF Badges!OpenEdit
  <2>. HIDE DEF f
  <2>3. QED
    BY <1>1, <2>1, <2>2 DEF Badges!TypeOK
<1>4. ASSUME NEW a \in Admins, Badges!ResetForm(a) PROVE Badges!TypeOK'
  BY <1>0, <1>1, <1>4 DEF Badges!ResetForm, Badges!TypeOK
\* An upload, and a call, begins.
<1>5. ASSUME NEW u \in Badges!Upload, u.id # 0 => u.id \in Badges!Ids, uploads' = uploads \cup {u},
             UNCHANGED <<graphics, default, files, form, edits, odd>>, Badges!Uses("uploads")
      PROVE  Badges!TypeOK'
  BY <1>5, BadgesUses DEF Badges!TypeOK, Badges!Ids
<1>6. ASSUME NEW a \in Admins, Badges!HandleUpload(a) PROVE Badges!TypeOK'
  <2>1. PICK name \in Names :
          uploads' = uploads \cup {[n |-> images.uploads, by |-> a, id |-> 0, made |-> form[a].id,
                                    path |-> IF form[a].open = "edit" THEN graphics[form[a].id].slug ELSE name]}
    BY <1>6 DEF Badges!HandleUpload
  <2>. DEFINE path == IF form[a].open = "edit" THEN graphics[form[a].id].slug ELSE name
              u == [n |-> images.uploads, by |-> a, id |-> 0, made |-> form[a].id, path |-> path]
  <2>2. path \in Badges!Paths
    BY <1>r, RowOf DEF Badges!TypeOK, Badges!Paths
  <2>3. images.uploads \in Nat /\ form[a].id \in Nat
    BY <1>f DEF Badges!TypeOK, Badges!Supply
  <2>4. u \in Badges!Upload /\ u.id = 0
    BY <2>2, <2>3 DEF Badges!Upload
  <2>. HIDE DEF u
  <2>5. QED
    BY <1>5, <1>6, <2>1, <2>4 DEF Badges!HandleUpload, u
<1>7. ASSUME NEW a \in Admins, NEW id \in Badges!Ids, Badges!HandleReplaceImage(a, id) PROVE Badges!TypeOK'
  <2>. DEFINE u == [n |-> images.uploads, by |-> a, id |-> id, made |-> id, path |-> graphics[id].slug]
  <2>1. images.uploads \in Nat
    BY DEF Badges!TypeOK, Badges!Supply
  <2>2. u \in Badges!Upload /\ u.id = id
    BY <1>r, <2>1, RowOf DEF Badges!Upload, Badges!Paths
  <2>3. uploads' = uploads \cup {u}
    BY <1>7 DEF Badges!HandleReplaceImage
  <2>. HIDE DEF u
  <2>4. QED
    BY <1>5, <1>7, <2>2, <2>3 DEF Badges!HandleReplaceImage
<1>8. ASSUME NEW u \in uploads, Badges!StoreFile(u) PROVE Badges!TypeOK'
  <2>0. /\ files' = files \cup {u.path} /\ uploads' = uploads \ {u} /\ u.by \in Admins /\ u.path \in Badges!Paths
        /\ UNCHANGED <<graphics, default, images, odd>>
    BY <1>8, <1>u DEF Badges!StoreFile, Badges!TypeOK
  <2>1. CASE u.id # 0
    <3>1. /\ Badges!Update(u.by, u.id, u.path, TRUE) \in Badges!Call
          /\ Badges!Update(u.by, u.id, u.path, TRUE).id \in Badges!Ids
          /\ Badges!Update(u.by, u.id, u.path, TRUE).kind = "update"
      BY <2>0, <2>1, UpdateTyped DEF Badges!TypeOK, Badges!Update
    <3>2. edits' = edits \cup {Badges!Update(u.by, u.id, u.path, TRUE)} /\ UNCHANGED form
      BY <1>8, <2>1 DEF Badges!StoreFile
    <3>3. QED
      BY <2>0, <3>1, <3>2 DEF Badges!TypeOK, Badges!Ids
  <2>2. CASE u.id = 0
    <3>. DEFINE f == IF form[u.by].open = "none" THEN form[u.by]
                     ELSE [form[u.by] EXCEPT !.path = u.path, !.fresh = form[u.by].id = u.made]
    <3>1. form[u.by] \in Badges!Form
      BY <2>0 DEF Badges!TypeOK
    <3>2. f \in Badges!Form /\ f.open = form[u.by].open /\ f.id = form[u.by].id /\ f.path \in {form[u.by].path, u.path}
      BY <2>0, <3>1 DEF Badges!Form
    <3>3. form' = [form EXCEPT ![u.by] = f] /\ UNCHANGED edits
      BY <1>8, <2>2 DEF Badges!StoreFile
    <3>. HIDE DEF f
    <3>4. QED
      BY <2>0, <3>2, <3>3 DEF Badges!TypeOK, Badges!Ids
  <2>3. QED
    BY <2>1, <2>2
<1>9. ASSUME NEW u \in uploads, Badges!UploadFails(u) PROVE Badges!TypeOK'
  BY <1>9 DEF Badges!UploadFails, Badges!TypeOK, Badges!Ids
<1>10. ASSUME NEW a \in Admins, Badges!Create(a) PROVE Badges!TypeOK'
  <2>1. PICK slug \in Slugs :
          /\ \A id \in Badges!Ids : graphics[id].status # "GONE" => graphics[id].slug # slug
          /\ graphics' = Append(graphics, [slug |-> slug, path |-> form[a].path, status |-> "ACTIVE"])
    BY <1>10 DEF Badges!Create
  <2>. DEFINE row == [slug |-> slug, path |-> form[a].path, status |-> "ACTIVE"]
  <2>2. form[a].path \in Badges!Paths
    BY <1>10, <1>f DEF Badges!Create, Badges!TypeOK
  <2>3. row \in Badges!Row /\ row.slug = slug
    BY <2>2 DEF Badges!Row
  <2>. HIDE DEF row
  <2>4. /\ graphics' \in Seq(Badges!Row) /\ Badges!Ids' = Badges!Ids \cup {Len(graphics) + 1} /\ Len(graphics) \in Nat
        /\ \A id \in Badges!Ids : graphics'[id] = graphics[id]
        /\ graphics'[Len(graphics) + 1] = row /\ Len(graphics) + 1 \notin Badges!Ids
    BY <2>1, <2>3, AppendProperties DEF Badges!TypeOK, Badges!Ids, row
  <2>5. \A i, j \in Badges!Ids' : graphics'[i].slug = graphics'[j].slug /\ i # j => "GONE" \in {graphics'[i].status, graphics'[j].status}
    <3>. SUFFICES ASSUME NEW i \in Badges!Ids', NEW j \in Badges!Ids', graphics'[i].slug = graphics'[j].slug, i # j
                 PROVE  "GONE" \in {graphics'[i].status, graphics'[j].status}
      OBVIOUS
    <3>1. CASE i \in Badges!Ids /\ j \in Badges!Ids
      BY <2>4, <3>1 DEF Badges!TypeOK
    <3>2. CASE i = Len(graphics) + 1
      BY <2>1, <2>3, <2>4, <3>2
    <3>3. CASE j = Len(graphics) + 1
      BY <2>1, <2>3, <2>4, <3>3
    <3>4. QED
      BY <2>4, <3>1, <3>2, <3>3
  <2>6. odd' \in [named : SUBSET (Badges!Paths \X Nat), stale : SUBSET Nat, raced : BOOLEAN]
    <3>. DEFINE n == Len(graphics) + 1
                named == odd.named \cup {<<form[a].path, n>>}
    <3>1. n \in Nat
      BY <2>4
    <3>. HIDE DEF n
    <3>2. named \in SUBSET (Badges!Paths \X Nat)
      BY <2>2, <3>1 DEF Badges!TypeOK
    <3>3. odd' = [odd EXCEPT !.named = named]
      BY <1>10 DEF Badges!Create, n
    <3>. HIDE DEF named
    <3>4. QED
      BY <3>2, <3>3 DEF Badges!TypeOK
  <2>7. images' \in Badges!Supply
    BY <1>10, BadgesUses DEF Badges!Create
  <2>8. form' = [form EXCEPT ![a] = Badges!Closed] /\ UNCHANGED <<default, files, uploads, edits>>
    BY <1>10 DEF Badges!Create
  <2>9. QED
    BY <1>0, <2>4, <2>5, <2>6, <2>7, <2>8 DEF Badges!TypeOK
<1>11. ASSUME NEW c \in Badges!Call, c.id \in Badges!Ids, c.kind = "default" => c.path \in Slugs, edits' = edits \cup {c},
              UNCHANGED <<graphics, default, files, form, uploads, odd>>, images' \in Badges!Supply
       PROVE  Badges!TypeOK'
  BY <1>11 DEF Badges!TypeOK, Badges!Ids
<1>12. ASSUME NEW a \in Admins, Badges!SaveEdit(a) PROVE Badges!TypeOK'
  <2>. DEFINE c == Badges!Update(a, form[a].id, form[a].path, form[a].fresh)
  <2>1. c \in Badges!Call /\ c.id \in Badges!Ids /\ c.kind # "default"
    BY <1>12, <1>f, UpdateTyped DEF Badges!SaveEdit, Badges!TypeOK, Badges!Update
  <2>2. edits' = edits \cup {c} /\ UNCHANGED <<graphics, default, files, form, uploads, odd>> /\ Badges!Uses("saves")
    BY <1>12 DEF Badges!SaveEdit
  <2>. HIDE DEF c
  <2>3. QED
    BY <1>11, <2>1, <2>2, BadgesUses
\* A call changes, or ends.
<1>13. ASSUME NEW c \in edits, NEW d \in Badges!Call, d.id = c.id, d.kind # "default", edits' \subseteq edits \cup {d}
       PROVE  /\ edits' \subseteq Badges!Call
              /\ \A e \in edits' : e.id \in Badges!Ids /\ (e.kind = "default" => e.path \in Slugs)
  BY <1>13 DEF Badges!TypeOK
<1>14. ASSUME NEW c \in edits, Badges!ReadPreviousPath(c) PROVE Badges!TypeOK'
  <2>. DEFINE d == [c EXCEPT !.pc = "commit", !.old = graphics[c.id].path]
  <2>1. c \in Badges!Call /\ c.id \in Badges!Ids /\ graphics[c.id].path \in Badges!Paths
    BY <1>r, RowOf DEF Badges!TypeOK
  <2>2. d \in Badges!Call /\ d.id = c.id /\ d.kind # "default"
    BY <1>14, <2>1 DEF Badges!Call, Badges!ReadPreviousPath
  <2>3. edits' = (edits \ {c}) \cup {d} /\ UNCHANGED <<graphics, default, files, form, uploads, images, odd>>
    BY <1>14 DEF Badges!ReadPreviousPath
  <2>. HIDE DEF d
  <2>4. QED
    BY <2>2, <2>3, <1>13 DEF Badges!TypeOK, Badges!Ids
<1>15. ASSUME NEW c \in edits, Badges!CommitUpdate(c) PROVE Badges!TypeOK'
  <2>0. c \in Badges!Call /\ c.id \in Badges!Ids /\ c.path \in Badges!Paths /\ c.id \in Nat
        /\ UNCHANGED <<default, files, form, uploads, images>>
    BY <1>15, <1>c, RowOf DEF Badges!TypeOK, Badges!CommitUpdate
  <2>1. CASE graphics[c.id].status = "GONE"
    <3>1. edits' = edits \ {c} /\ UNCHANGED <<graphics, odd>>
      BY <1>15, <2>1 DEF Badges!CommitUpdate
    <3>2. QED
      BY <2>0, <3>1 DEF Badges!TypeOK, Badges!Ids
  <2>2. CASE graphics[c.id].status # "GONE"
    <3>. DEFINE d == [c EXCEPT !.pc = "unlink"]
                row == [graphics[c.id] EXCEPT !.path = c.path]
                named == odd.named \cup {<<c.path, c.id>>}
                stale == IF c.fresh \/ c.path = graphics[c.id].path THEN odd.stale ELSE odd.stale \cup {c.id}
    <3>1. /\ graphics' = [graphics EXCEPT ![c.id] = row] /\ edits' = (edits \ {c}) \cup {d}
          /\ odd' = [odd EXCEPT !.named = named, !.stale = stale]
      BY <1>15, <2>2 DEF Badges!CommitUpdate
    <3>2. d \in Badges!Call /\ d.id = c.id /\ d.kind # "default"
      BY <1>15, <2>0 DEF Badges!Call, Badges!CommitUpdate
    <3>3. row \in Badges!Row /\ row.slug = graphics[c.id].slug /\ row.status = graphics[c.id].status
      BY <2>0, RowOf DEF Badges!Row
    <3>4. named \in SUBSET (Badges!Paths \X Nat) /\ stale \in SUBSET Nat
      BY <2>0 DEF Badges!TypeOK
    <3>. HIDE DEF d, row, named, stale
    <3>5. odd' \in [named : SUBSET (Badges!Paths \X Nat), stale : SUBSET Nat, raced : BOOLEAN]
      BY <3>1, <3>4 DEF Badges!TypeOK
    <3>6. QED
      BY <2>0, <3>1, <3>2, <3>3, <3>5, <1>13, RowChanged DEF Badges!TypeOK
  <2>3. QED
    BY <2>1, <2>2
<1>16. ASSUME NEW c \in edits, Badges!UnlinkPrevious(c) PROVE Badges!TypeOK'
  BY <1>0, <1>1, <1>c, <1>16 DEF Badges!UnlinkPrevious, Badges!Unlinked, Badges!TypeOK
<1>17. ASSUME NEW c \in edits, Badges!CallLost(c) PROVE Badges!TypeOK'
  BY <1>17 DEF Badges!CallLost, Badges!TypeOK, Badges!Ids
\* A row goes, with what it does to the calls.
<1>18. ASSUME NEW id \in Badges!Ids, NEW status \in {"ARCHIVED", "GONE"}, Badges!Active(id), Badges!Uses("removals"),
              graphics' = [graphics EXCEPT ![id].status = status],
              default' = IF default = graphics[id].slug THEN Badges!NoSlug ELSE default,
              odd' = [odd EXCEPT !.raced = @ \/ \E c \in edits : c.kind = "default" /\ c.path = graphics[id].slug],
              UNCHANGED <<files, form, uploads>>, edits' \subseteq Badges!Call,
              \A c \in edits' : c.id \in Badges!Ids /\ (c.kind = "default" => c.path \in Slugs)
       PROVE  Badges!TypeOK'
  <2>. DEFINE row == [graphics[id] EXCEPT !.status = status]
  <2>1. graphics' = [graphics EXCEPT ![id] = row]
    BY <1>18
  <2>2. row \in Badges!Row /\ row.slug = graphics[id].slug /\ graphics[id].status # "GONE"
    BY <1>18, RowOf DEF Badges!Row, Badges!Active
  <2>. HIDE DEF row
  <2>3. odd' \in [named : SUBSET (Badges!Paths \X Nat), stale : SUBSET Nat, raced : BOOLEAN]
    <3>. DEFINE crosses == odd.raced \/ \E c \in edits : c.kind = "default" /\ c.path = graphics[id].slug
    <3>1. crosses \in BOOLEAN
      OBVIOUS
    <3>2. odd' = [odd EXCEPT !.raced = crosses]
      BY <1>18
    <3>. HIDE DEF crosses
    <3>3. QED
      BY <3>1, <3>2 DEF Badges!TypeOK
  <2>4. images' \in Badges!Supply
    BY <1>18, BadgesUses
  <2>5. QED
    BY <1>18, <2>1, <2>2, <2>3, <2>4, RowChanged DEF Badges!TypeOK
<1>19. ASSUME NEW id \in Badges!Ids, Badges!Archive(id) PROVE Badges!TypeOK'
  BY <1>18, <1>19 DEF Badges!Archive, Badges!TypeOK
<1>20. ASSUME NEW a \in Admins, NEW id \in Badges!Ids, Badges!Remove(a, id) PROVE Badges!TypeOK'
  <2>. DEFINE u == Badges!Update(a, id, graphics[id].path, FALSE)
              c == [u EXCEPT !.kind = "remove", !.pc = "unlink"]
  <2>1. u \in Badges!Call /\ u.id = id
    BY <1>r, RowOf, UpdateTyped DEF Badges!Update
  <2>2. edits' = edits \cup {c}
    BY <1>20 DEF Badges!Remove
  <2>. HIDE DEF u
  <2>3. c \in Badges!Call /\ c.id \in Badges!Ids /\ c.kind = "remove"
    BY <2>1 DEF Badges!Call
  <2>. HIDE DEF c
  <2>4. QED
    BY <1>18, <1>20, <2>2, <2>3 DEF Badges!Remove, Badges!TypeOK
<1>21. ASSUME NEW c \in edits, Badges!UnlinkRemoved(c) PROVE Badges!TypeOK'
  BY <1>21 DEF Badges!UnlinkRemoved, Badges!Unlinked, Badges!TypeOK, Badges!Ids
<1>22. ASSUME NEW a \in Admins, NEW id \in Badges!Ids, Badges!CheckDefault(a, id) PROVE Badges!TypeOK'
  <2>. DEFINE u == Badges!Update(a, id, graphics[id].slug, FALSE)
              c == [u EXCEPT !.kind = "default"]
  <2>1. u \in Badges!Call /\ u.id = id /\ u.path \in Slugs
    BY <1>r, RowOf, UpdateTyped DEF Badges!Update, Badges!Paths
  <2>2. edits' = edits \cup {c} /\ UNCHANGED <<graphics, default, files, form, uploads, odd>> /\ Badges!Uses("defaults")
    BY <1>22 DEF Badges!CheckDefault
  <2>. HIDE DEF u
  <2>3. c \in Badges!Call /\ c.id \in Badges!Ids /\ c.path \in Slugs
    BY <2>1 DEF Badges!Call
  <2>. HIDE DEF c
  <2>4. QED
    BY <1>11, <2>2, <2>3, BadgesUses
\* A default is one of the slugs.
<1>23. ASSUME NEW c \in edits, Badges!WriteDefault(c) PROVE Badges!TypeOK'
  BY <1>23 DEF Badges!WriteDefault, Badges!TypeOK, Badges!Ids
<1>24. CASE UNCHANGED Badges!vars
  BY <1>24 DEF Badges!vars, Badges!TypeOK, Badges!Ids
<1>25. QED
  BY <1>2, <1>3, <1>4, <1>6, <1>7, <1>8, <1>9, <1>10, <1>12, <1>14, <1>15, <1>16, <1>17, <1>19, <1>20, <1>21,
     <1>22, <1>23, <1>24 DEF Badges!Next

-----------------------------------------------------------------------------
(* A row's image exists, and the default is an active row.                 *)

\* What is live: a row that no outdated form has saved and nobody has removed.
Live(id) == id \in Badges!Ids /\ id \notin odd.stale /\ graphics[id].status # "GONE"

\* The file is there, or another row has named it as well.
Safe(path, id) == path \in files \/ \E n \in odd.named : n[1] = path /\ n[2] # id

\* A row names its image, and the image of a live row is safe.
RowSound(id) ==
  /\ <<graphics[id].path, id>> \in odd.named
  /\ Live(id) => Safe(graphics[id].path, id)

\* An image in a form is a file or one that a row has named; one that was uploaded for the row that
\* is edited has its slug, and is safe.
FormSound(a) ==
  /\ form[a].open # "edit" => form[a].id = 0
  /\ form[a].path # Badges!NoSlug => form[a].path \in files \/ \E n \in odd.named : n[1] = form[a].path
  /\ form[a].open = "edit" /\ form[a].fresh =>
       /\ form[a].path = graphics[form[a].id].slug
       /\ Live(form[a].id) => Safe(form[a].path, form[a].id)

\* An upload for a row has its slug.
UploadSound(u) ==
  /\ u.id # 0 => u.id \in Badges!Ids /\ u.path = graphics[u.id].slug
  /\ u.id = 0 /\ u.made # 0 => u.made \in Badges!Ids /\ u.path = graphics[u.made].slug

\* An update with an image that was uploaded for its row brings the row its slug, safely; what it
\* read before is the row's image still, or the row has its slug by now; and what it deletes is
\* neither.
UpdateSound(c) ==
  /\ c.fresh =>
       /\ c.path = graphics[c.id].slug
       /\ c.pc # "unlink" /\ Live(c.id) => Safe(c.path, c.id)
  /\ c.pc # "read" => <<c.old, c.id>> \in odd.named
  /\ c.pc = "commit" /\ Live(c.id) => graphics[c.id].path \in {c.old, graphics[c.id].slug}
  /\ c.pc = "unlink" /\ Live(c.id) /\ c.old # c.path =>
       graphics[c.id].path = graphics[c.id].slug /\ c.old # graphics[c.id].slug

\* So it is with all of them, and what a removal deletes was the image of a row that is gone.
ImageInv ==
  /\ \A n \in odd.named : n[2] \in Badges!Ids
  /\ odd.stale \subseteq Badges!Ids
  /\ \A id \in Badges!Ids : RowSound(id)
  /\ \A a \in Admins : FormSound(a)
  /\ \A u \in uploads : UploadSound(u)
  /\ \A c \in edits : c.kind = "update" => UpdateSound(c)
  /\ \A c \in edits : c.kind = "remove" => <<c.path, c.id>> \in odd.named /\ graphics[c.id].status = "GONE"

\* A default that is chosen, or being chosen, is an active row, unless one went away meanwhile.
DefaultInv ==
  ~odd.raced =>
    /\ \A c \in edits : c.kind = "default" => Badges!Active(c.id) /\ c.path = graphics[c.id].slug
    /\ default # Badges!NoSlug => \E id \in Badges!Ids : Badges!Active(id) /\ graphics[id].slug = default

\* Safe images stay safe while no file goes.
LEMMA SafeKept ==
  ASSUME files \subseteq files', odd.named \subseteq odd'.named, NEW path, NEW id, Safe(path, id)
  PROVE  Safe(path, id)'
BY DEF Safe

\* A file goes that row k has named: every other row that needed it is not alone with it.
LEMMA SafeUnlinked ==
  ASSUME NEW gone, NEW k, <<gone, k>> \in odd.named, odd'.named = odd.named, files \ {gone} \subseteq files',
         NEW path, NEW id, Safe(path, id), path # gone \/ id # k
  PROVE  Safe(path, id)'
BY DEF Safe

\* A closed form holds nothing.
LEMMA ClosedSound == \A a \in Admins : form'[a] = Badges!Closed => FormSound(a)'
BY DEF Badges!Closed, Badges!NoSlug, FormSound

\* A step that takes no file away and changes no row's image keeps all that it does not touch.
LEMMA ImagesKept ==
  ASSUME Badges!TypeOK, ImageInv, files \subseteq files',
         Badges!Ids \subseteq Badges!Ids',
         \A id \in Badges!Ids : /\ graphics'[id].slug = graphics[id].slug /\ graphics'[id].path = graphics[id].path
                                /\ graphics[id].status = "GONE" => graphics'[id].status = "GONE",
         odd.named \subseteq odd'.named, odd'.stale = odd.stale,
         \A n \in odd'.named : n[2] \in Badges!Ids',
         \A id \in Badges!Ids' \ Badges!Ids : RowSound(id)',
         \A a \in Admins : form'[a] = form[a] \/ FormSound(a)',
         \A u \in uploads' \ uploads : UploadSound(u)',
         \A c \in edits' \ edits : c.kind = "update" => UpdateSound(c)',
         \A c \in edits' \ edits : c.kind = "remove" => <<c.path, c.id>> \in odd'.named /\ graphics'[c.id].status = "GONE"
  PROVE  ImageInv'
<1>1. \A id \in Badges!Ids : Live(id)' => Live(id)
  BY DEF Live
<1>2. \A id \in Badges!Ids' : RowSound(id)'
  <2>1. ASSUME NEW id \in Badges!Ids PROVE RowSound(id)'
    <3>1. RowSound(id)
      BY DEF ImageInv
    <3>2. QED
      BY <1>1, <3>1, SafeKept DEF RowSound
  <2>2. QED
    BY <2>1
<1>3. ASSUME NEW a \in Admins, form'[a] = form[a] PROVE FormSound(a)'
  <2>1. FormSound(a) /\ (form[a].open = "edit" => form[a].id \in Badges!Ids)
    BY DEF ImageInv, Badges!TypeOK
  <2>2. QED
    BY <1>1, <1>3, <2>1, SafeKept DEF FormSound, Badges!NoSlug
<1>4. ASSUME NEW u \in uploads PROVE UploadSound(u)'
  BY DEF ImageInv, UploadSound
<1>5. ASSUME NEW c \in edits, c.kind = "update" PROVE UpdateSound(c)'
  <2>1. UpdateSound(c) /\ c.id \in Badges!Ids
    BY <1>5 DEF ImageInv, Badges!TypeOK
  <2>2. QED
    BY <1>1, <2>1, SafeKept DEF UpdateSound
<1>6. ASSUME NEW c \in edits, c.kind = "remove" PROVE <<c.path, c.id>> \in odd'.named /\ graphics'[c.id].status = "GONE"
  BY <1>6 DEF ImageInv, Badges!TypeOK
<1>7. odd'.stale \subseteq Badges!Ids'
  BY DEF ImageInv
<1>8. \A c \in edits' : c.kind = "update" => UpdateSound(c)'
  BY <1>5
<1>9. \A c \in edits' : c.kind = "remove" => <<c.path, c.id>> \in odd'.named /\ graphics'[c.id].status = "GONE"
  BY <1>6
<1>10. \A u \in uploads' : UploadSound(u)'
  BY <1>4
<1>11. \A a \in Admins : FormSound(a)'
  BY <1>3
<1>12. QED
  BY <1>2, <1>7, <1>8, <1>9, <1>10, <1>11 DEF ImageInv

\* A file goes that a row has named, and names no more while it is live.
LEMMA ImagesUnlinked ==
  ASSUME Badges!TypeOK, ImageInv, NEW gone, NEW k \in Badges!Ids, <<gone, k>> \in odd.named,
         Live(k) => gone \notin {graphics[k].path, graphics[k].slug},
         files \ {gone} \subseteq files', UNCHANGED <<graphics, odd, uploads>>, edits' \subseteq edits,
         \A a \in Admins : form'[a] \in {form[a], Badges!Closed}
  PROVE  ImageInv'
<1>1. \A id \in Badges!Ids : Live(id)' <=> Live(id)
  BY DEF Live, Badges!Ids
<1>2. ASSUME NEW id \in Badges!Ids PROVE RowSound(id)'
  <2>1. RowSound(id)
    BY DEF ImageInv
  <2>2. QED
    BY <1>1, <2>1, SafeUnlinked DEF RowSound
<1>3. ASSUME NEW a \in Admins PROVE FormSound(a)'
  <2>1. FormSound(a) /\ (form[a].open = "edit" => form[a].id \in Badges!Ids)
    BY DEF ImageInv, Badges!TypeOK
  <2>2. CASE form'[a] = form[a]
    <3>1. form[a].path # Badges!NoSlug => form[a].path \in files' \/ \E n \in odd'.named : n[1] = form[a].path
      BY <2>1 DEF FormSound
    <3>2. form[a].open = "edit" /\ form[a].fresh /\ Live(form[a].id) => Safe(form[a].path, form[a].id)'
      <4>1. SUFFICES ASSUME form[a].open = "edit", form[a].fresh, Live(form[a].id)
                     PROVE  Safe(form[a].path, form[a].id)'
        OBVIOUS
      <4>2. PICK path, id : path = form[a].path /\ id = form[a].id
        OBVIOUS
      <4>3. Safe(path, id) /\ (path # gone \/ id # k)
        BY <2>1, <4>1, <4>2 DEF FormSound
      <4>4. Safe(path, id)'
        BY <4>3, SafeUnlinked
      <4>5. QED
        BY <2>2, <4>2, <4>4
    <3>3. QED
      BY <1>1, <2>1, <2>2, <3>1, <3>2 DEF FormSound, Badges!NoSlug
  <2>3. QED
    BY <2>2, ClosedSound
<1>4. ASSUME NEW c \in edits, c.kind = "update" PROVE UpdateSound(c)'
  <2>1. UpdateSound(c) /\ c.id \in Badges!Ids
    BY <1>4 DEF ImageInv, Badges!TypeOK
  <2>2. c.fresh /\ c.pc # "unlink" /\ Live(c.id) => Safe(c.path, c.id)'
    BY <2>1, SafeUnlinked DEF UpdateSound
  <2>3. QED
    BY <1>1, <2>1, <2>2 DEF UpdateSound
<1>5. \A u \in uploads : UploadSound(u)'
  BY DEF ImageInv, UploadSound, Badges!Ids
<1>6. QED
  BY <1>2, <1>3, <1>4, <1>5 DEF ImageInv, Badges!Ids

\* No upload, save, replacement or removal takes the image of a live row away.
LEMMA ImageStep == Badges!TypeOK /\ ImageInv /\ [Badges!Next]_(Badges!vars) => ImageInv'
<1>. SUFFICES ASSUME Badges!TypeOK, ImageInv, [Badges!Next]_(Badges!vars) PROVE ImageInv'
  OBVIOUS
<1>0. /\ \A id \in Badges!Ids : id # 0
      /\ \A n \in odd.named : n[2] \in Badges!Ids
  BY RowOf DEF ImageInv
<1>1. ASSUME UNCHANGED <<graphics, odd>>, files \subseteq files',
             \A a \in Admins : form'[a] = form[a] \/ FormSound(a)',
             \A u \in uploads' \ uploads : UploadSound(u)',
             \A c \in edits' \ edits : (c.kind = "update" /\ UpdateSound(c)') \/ c.kind = "default"
      PROVE  ImageInv'
  BY <1>0, <1>1, ImagesKept DEF Badges!Ids
<1>2. ASSUME NEW a \in Admins, Badges!OpenCreate(a) PROVE ImageInv'
  <2>1. form' = [form EXCEPT ![a] = [Badges!Closed EXCEPT !.open = "create"]]
        /\ UNCHANGED <<graphics, odd, files, uploads, edits>>
    BY <1>2 DEF Badges!OpenCreate
  <2>2. form'[a].open = "create" /\ form'[a].id = 0 /\ form'[a].path = Badges!NoSlug
    BY <2>1 DEF Badges!Closed, Badges!TypeOK
  <2>3. FormSound(a)'
    BY <2>2 DEF FormSound, Badges!NoSlug
  <2>4. QED
    BY <1>1, <2>1, <2>3 DEF Badges!TypeOK
<1>3. ASSUME NEW a \in Admins, NEW id \in Badges!Ids, Badges!OpenEdit(a, id) PROVE ImageInv'
  <2>1. form' = [form EXCEPT ![a] = [open |-> "edit", id |-> id, path |-> graphics[id].path, fresh |-> FALSE]]
        /\ UNCHANGED <<graphics, odd, files, uploads, edits>>
    BY <1>3 DEF Badges!OpenEdit
  <2>2. form'[a].open = "edit" /\ form'[a].path = graphics[id].path /\ form'[a].fresh = FALSE
    BY <2>1 DEF Badges!TypeOK
  <2>3. <<graphics[id].path, id>> \in odd.named
    BY DEF ImageInv, RowSound
  <2>4. FormSound(a)'
    BY <2>1, <2>2, <2>3 DEF FormSound
  <2>5. QED
    BY <1>1, <2>1, <2>4 DEF Badges!TypeOK
<1>4. ASSUME NEW a \in Admins, Badges!ResetForm(a) PROVE ImageInv'
  BY <1>1, <1>4, ClosedSound DEF Badges!ResetForm, Badges!TypeOK
<1>5. ASSUME NEW a \in Admins, Badges!HandleUpload(a) PROVE ImageInv'
  <2>1. PICK name \in Names :
          uploads' = uploads \cup {[n |-> images.uploads, by |-> a, id |-> 0, made |-> form[a].id,
                                    path |-> IF form[a].open = "edit" THEN graphics[form[a].id].slug ELSE name]}
    BY <1>5 DEF Badges!HandleUpload
  <2>2. FormSound(a) /\ (form[a].open = "edit" => form[a].id \in Badges!Ids)
    BY DEF ImageInv, Badges!TypeOK
  <2>3. UNCHANGED <<graphics, odd, files, form, edits>>
    BY <1>5 DEF Badges!HandleUpload
  <2>4. \A u \in uploads' \ uploads : UploadSound(u)'
    BY <2>1, <2>2, <2>3 DEF UploadSound, FormSound, Badges!Ids
  <2>5. QED
    BY <1>1, <2>3, <2>4
<1>6. ASSUME NEW a \in Admins, NEW id \in Badges!Ids, Badges!HandleReplaceImage(a, id) PROVE ImageInv'
  <2>1. uploads' = uploads \cup {[n |-> images.uploads, by |-> a, id |-> id, made |-> id, path |-> graphics[id].slug]}
        /\ UNCHANGED <<graphics, odd, files, form, edits>>
    BY <1>6 DEF Badges!HandleReplaceImage
  <2>2. \A u \in uploads' \ uploads : UploadSound(u)'
    BY <1>0, <2>1 DEF UploadSound, Badges!Ids
  <2>3. QED
    BY <1>1, <2>1, <2>2
<1>7. ASSUME NEW u \in uploads, Badges!StoreFile(u) PROVE ImageInv'
  <2>0. /\ files' = files \cup {u.path} /\ uploads' = uploads \ {u} /\ UNCHANGED <<graphics, default, images, odd>>
        /\ UploadSound(u) /\ u.by \in Admins /\ u.made \in Nat
    BY <1>7 DEF Badges!StoreFile, Badges!TypeOK, Badges!Upload, ImageInv
  <2>1. CASE u.id # 0
    <3>. DEFINE c == Badges!Update(u.by, u.id, u.path, TRUE)
    <3>1. edits' = edits \cup {c} /\ UNCHANGED form
      BY <1>7, <2>1 DEF Badges!StoreFile
    <3>2. c.kind = "update" /\ c.path = u.path /\ c.id = u.id /\ c.pc = "read"
      BY DEF Badges!Update
    <3>. HIDE DEF c
    <3>3. UpdateSound(c)'
      BY <2>0, <2>1, <3>2 DEF UpdateSound, UploadSound, Safe
    <3>4. QED
      BY <1>1, <2>0, <3>1, <3>2, <3>3
  <2>2. CASE u.id = 0
    <3>. DEFINE f == IF form[u.by].open = "none" THEN form[u.by]
                     ELSE [form[u.by] EXCEPT !.path = u.path, !.fresh = form[u.by].id = u.made]
    <3>1. form' = [form EXCEPT ![u.by] = f] /\ UNCHANGED edits
      BY <1>7, <2>2 DEF Badges!StoreFile
    <3>2. form[u.by] \in Badges!Form /\ form'[u.by] = f /\ FormSound(u.by)
      BY <2>0, <3>1 DEF Badges!TypeOK, ImageInv
    <3>3. CASE form[u.by].open = "none"
      BY <1>1, <2>0, <3>1, <3>3 DEF Badges!TypeOK
    <3>4. CASE form[u.by].open # "none"
      <4>1. f.open = form[u.by].open /\ f.id = form[u.by].id /\ f.path = u.path /\ (f.fresh <=> f.id = u.made)
        BY <3>2, <3>4 DEF Badges!Form
      <4>. HIDE DEF f
      <4>2. f.open = "edit" => f.id \in Badges!Ids
        BY <2>0, <4>1 DEF Badges!TypeOK
      <4>3. f.open # "edit" => f.id = 0
        BY <3>2, <4>1 DEF FormSound
      <4>4. f.open = "edit" /\ f.fresh => u.path = graphics[f.id].slug
        BY <1>0, <2>0, <2>2, <4>1, <4>2 DEF UploadSound
      <4>5. FormSound(u.by)'
        BY <2>0, <3>2, <4>1, <4>3, <4>4 DEF FormSound, Safe
      <4>6. QED
        BY <1>1, <2>0, <3>1, <4>5 DEF Badges!TypeOK
    <3>5. QED
      BY <3>3, <3>4
  <2>3. QED
    BY <2>1, <2>2
<1>8. ASSUME NEW u \in uploads, Badges!UploadFails(u) PROVE ImageInv'
  BY <1>1, <1>8 DEF Badges!UploadFails
<1>9. ASSUME NEW a \in Admins, Badges!Create(a) PROVE ImageInv'
  <2>. DEFINE p == form[a].path
  <2>0. PICK n : n = Len(graphics) + 1
    OBVIOUS
  <2>1. PICK slug \in Slugs : graphics' = Append(graphics, [slug |-> slug, path |-> p, status |-> "ACTIVE"])
    BY <1>9 DEF Badges!Create
  <2>2. p \in Badges!Paths /\ p # Badges!NoSlug /\ FormSound(a)
    BY <1>9 DEF Badges!Create, Badges!TypeOK, Badges!Form, ImageInv
  <2>. HIDE DEF p
  <2>3. /\ Badges!Ids' = Badges!Ids \cup {n} /\ n \notin Badges!Ids
        /\ \A id \in Badges!Ids : graphics'[id] = graphics[id]
        /\ graphics'[n].path = p
    <3>. DEFINE row == [slug |-> slug, path |-> p, status |-> "ACTIVE"]
    <3>1. row \in Badges!Row /\ row.path = p
      BY <2>2 DEF Badges!Row
    <3>. HIDE DEF row
    <3>2. QED
      BY <2>0, <2>1, <3>1, AppendProperties DEF Badges!TypeOK, Badges!Ids, row
  <2>4. /\ odd' = [odd EXCEPT !.named = @ \cup {<<p, n>>}] /\ form' = [form EXCEPT ![a] = Badges!Closed]
        /\ UNCHANGED <<default, files, uploads, edits>>
    BY <1>9, <2>0 DEF Badges!Create, p
  <2>5. odd'.named = odd.named \cup {<<p, n>>} /\ odd'.stale = odd.stale
    BY <2>4 DEF Badges!TypeOK
  <2>6. p \in files \/ \E m \in odd.named : m[1] = p /\ m[2] # n
    BY <1>0, <2>2, <2>3 DEF FormSound, p
  <2>7. RowSound(n)'
    BY <2>3, <2>4, <2>5, <2>6 DEF RowSound, Safe
  <2>8. \A b \in Admins : form'[b] = form[b] \/ FormSound(b)'
    BY <2>4, ClosedSound DEF Badges!TypeOK
  <2>9. QED
    BY <1>0, <2>3, <2>4, <2>5, <2>7, <2>8, ImagesKept
<1>10. ASSUME NEW a \in Admins, Badges!SaveEdit(a) PROVE ImageInv'
  <2>0. PICK c : c = Badges!Update(a, form[a].id, form[a].path, form[a].fresh)
    OBVIOUS
  <2>1. edits' = edits \cup {c} /\ UNCHANGED <<graphics, default, files, form, uploads, odd>> /\ form[a].open = "edit"
    BY <1>10, <2>0 DEF Badges!SaveEdit
  <2>2. c.kind = "update" /\ c.id = form[a].id /\ c.path = form[a].path /\ c.fresh = form[a].fresh /\ c.pc = "read"
    BY <2>0 DEF Badges!Update
  <2>3. FormSound(a) /\ form[a].id \in Badges!Ids
    BY <2>1 DEF ImageInv, Badges!TypeOK
  <2>4. UpdateSound(c)
    BY <2>1, <2>2, <2>3 DEF UpdateSound, FormSound
  <2>5. UpdateSound(c)'
    BY <2>1, <2>4 DEF UpdateSound, Live, Safe, Badges!Ids
  <2>6. QED
    BY <1>1, <2>1, <2>2, <2>5
<1>11. ASSUME NEW c \in edits, Badges!ReadPreviousPath(c) PROVE ImageInv'
  <2>0. PICK d : d = [c EXCEPT !.pc = "commit", !.old = graphics[c.id].path]
    OBVIOUS
  <2>1. /\ edits' = (edits \ {c}) \cup {d} /\ UNCHANGED <<graphics, default, files, form, uploads, images, odd>>
        /\ c.kind = "update" /\ c.pc = "read" /\ UpdateSound(c) /\ c.id \in Badges!Ids /\ c \in Badges!Call
    BY <1>11, <2>0 DEF Badges!ReadPreviousPath, ImageInv, Badges!TypeOK
  <2>2. /\ d.kind = "update" /\ d.pc = "commit" /\ d.old = graphics[c.id].path
        /\ d.id = c.id /\ d.path = c.path /\ d.fresh = c.fresh
    BY <2>0, <2>1 DEF Badges!Call
  <2>3. <<graphics[c.id].path, c.id>> \in odd.named
    BY <2>1 DEF ImageInv, RowSound
  <2>4. UpdateSound(d)
    BY <2>1, <2>2, <2>3 DEF UpdateSound
  <2>5. UpdateSound(d)'
    BY <2>1, <2>4 DEF UpdateSound, Live, Safe, Badges!Ids
  <2>6. QED
    BY <1>1, <2>1, <2>2, <2>5
\* The row's image changes.
<1>12. ASSUME NEW c \in edits, Badges!CommitUpdate(c), graphics[c.id].status # "GONE" PROVE ImageInv'
  <2>. DEFINE d == [c EXCEPT !.pc = "unlink"]
              row == [graphics[c.id] EXCEPT !.path = c.path]
              named == odd.named \cup {<<c.path, c.id>>}
              stale == IF c.fresh \/ c.path = graphics[c.id].path THEN odd.stale ELSE odd.stale \cup {c.id}
  <2>1. /\ graphics' = [graphics EXCEPT ![c.id] = row] /\ edits' = (edits \ {c}) \cup {d}
        /\ odd' = [odd EXCEPT !.named = named, !.stale = stale]
        /\ c.kind = "update" /\ c.pc = "commit" /\ UNCHANGED <<default, files, form, uploads, images>>
    BY <1>12 DEF Badges!CommitUpdate
  <2>2. c \in Badges!Call /\ c.id \in Badges!Ids /\ UpdateSound(c) /\ RowSound(c.id)
    BY <2>1 DEF ImageInv, Badges!TypeOK
  <2>3. /\ d.kind = "update" /\ d.pc = "unlink" /\ d.old = c.old /\ d.id = c.id /\ d.path = c.path /\ d.fresh = c.fresh
    BY <2>1, <2>2 DEF Badges!Call
  <2>4. row \in Badges!Row /\ row.slug = graphics[c.id].slug /\ row.path = c.path /\ row.status = graphics[c.id].status
    BY <2>2, RowOf DEF Badges!Row, Badges!Call
  <2>5. odd'.named = named /\ odd'.stale = stale
    BY <2>1 DEF Badges!TypeOK
  <2>6. odd.named \subseteq odd'.named /\ odd.stale \subseteq odd'.stale /\ <<c.path, c.id>> \in odd'.named
    BY <2>5
  <2>7. c.id \notin odd'.stale => c.fresh \/ c.path = graphics[c.id].path
    BY <2>5
  <2>8. (\A n \in odd'.named : n[2] \in Badges!Ids) /\ odd'.stale \subseteq Badges!Ids
    BY <2>2, <2>5 DEF ImageInv
  <2>. HIDE DEF d, row, named, stale
  <2>9. /\ Badges!Ids' = Badges!Ids /\ graphics'[c.id] = row /\ \A k \in Badges!Ids \ {c.id} : graphics'[k] = graphics[k]
    BY <2>1, <2>2, <2>4, RowChanged
  <2>10. \A id \in Badges!Ids : /\ graphics'[id].slug = graphics[id].slug
                                /\ Live(id)' => Live(id)
    BY <2>4, <2>6, <2>9 DEF Live
  <2>11. Live(c.id)' => graphics'[c.id].path \in {graphics[c.id].path, graphics[c.id].slug} /\ Safe(c.path, c.id)
    BY <2>1, <2>2, <2>4, <2>7, <2>9, <2>10 DEF Live, UpdateSound, RowSound
  <2>12. ASSUME NEW id \in Badges!Ids PROVE RowSound(id)'
    <3>1. CASE id = c.id
      BY <2>1, <2>4, <2>6, <2>9, <2>11, <3>1, SafeKept DEF RowSound
    <3>2. CASE id # c.id
      <4>1. RowSound(id)
        BY DEF ImageInv
      <4>2. QED
        BY <2>1, <2>6, <2>9, <2>10, <3>2, <4>1, SafeKept DEF RowSound
    <3>3. QED
      BY <3>1, <3>2
  <2>13. ASSUME NEW a \in Admins PROVE FormSound(a)'
    <3>1. FormSound(a) /\ (form[a].open = "edit" => form[a].id \in Badges!Ids)
      BY DEF ImageInv, Badges!TypeOK
    <3>2. QED
      BY <2>1, <2>6, <2>10, <3>1, SafeKept DEF FormSound, Badges!NoSlug
  <2>14. ASSUME NEW u \in uploads PROVE UploadSound(u)'
    BY <2>1, <2>9, <2>10 DEF ImageInv, UploadSound
  <2>15. ASSUME NEW e \in edits, e.kind = "update" PROVE UpdateSound(e)'
    <3>1. UpdateSound(e) /\ e.id \in Badges!Ids
      BY <2>15 DEF ImageInv, Badges!TypeOK
    <3>2. Live(e.id)' => graphics'[e.id].path \in {graphics[e.id].path, graphics[e.id].slug}
      BY <2>9, <2>11, <3>1
    <3>3. QED
      BY <2>1, <2>6, <2>10, <3>1, <3>2, SafeKept DEF UpdateSound
  <2>16. UpdateSound(d)'
    <3>1. c.fresh => c.path = graphics[c.id].slug
      BY <2>2 DEF UpdateSound
    <3>2. <<c.old, c.id>> \in odd.named
      BY <2>1, <2>2 DEF UpdateSound
    <3>3. Live(c.id)' /\ c.old # c.path => c.path = graphics[c.id].slug
      BY <2>1, <2>2, <2>7, <2>10, <3>1 DEF UpdateSound, Live
    <3>4. QED
      BY <2>2, <2>3, <2>4, <2>6, <2>9, <2>10, <3>1, <3>2, <3>3 DEF UpdateSound
  <2>17. ASSUME NEW e \in edits, e.kind = "remove" PROVE <<e.path, e.id>> \in odd'.named /\ graphics'[e.id].status = "GONE"
    <3>1. <<e.path, e.id>> \in odd.named /\ graphics[e.id].status = "GONE" /\ e.id \in Badges!Ids
      BY <2>17 DEF ImageInv, Badges!TypeOK
    <3>2. QED
      BY <1>12, <2>6, <2>9, <3>1
  <2>18. (\A e \in edits' : e.kind = "update" => UpdateSound(e)') /\ \A e \in edits' : e.kind = "remove" => e \in edits
    BY <2>1, <2>3, <2>15, <2>16
  <2>19. QED
    BY <2>1, <2>8, <2>9, <2>12, <2>13, <2>14, <2>17, <2>18 DEF ImageInv
<1>13. ASSUME NEW c \in edits, Badges!CommitUpdate(c), graphics[c.id].status = "GONE" PROVE ImageInv'
  BY <1>1, <1>13 DEF Badges!CommitUpdate
<1>14. ASSUME NEW c \in edits, Badges!UnlinkPrevious(c) PROVE ImageInv'
  <2>1. /\ files' = (IF c.old = c.path THEN files ELSE Badges!Unlinked(c.old)) /\ edits' = edits \ {c}
        /\ form' = [form EXCEPT ![c.by] = Badges!Closed] /\ UNCHANGED <<graphics, uploads, odd>>
        /\ c.kind = "update" /\ c.pc = "unlink" /\ UpdateSound(c) /\ c.id \in Badges!Ids
    BY <1>14 DEF Badges!UnlinkPrevious, ImageInv, Badges!TypeOK
  <2>2. \A a \in Admins : form'[a] \in {form[a], Badges!Closed}
    BY <2>1 DEF Badges!TypeOK
  <2>3. CASE c.old = c.path
    BY <1>1, <2>1, <2>2, <2>3, ClosedSound
  <2>4. CASE c.old # c.path
    <3>1. <<c.old, c.id>> \in odd.named /\ (Live(c.id) => c.old \notin {graphics[c.id].path, graphics[c.id].slug})
      BY <2>1, <2>4 DEF UpdateSound
    <3>2. files \ {c.old} \subseteq files' /\ edits' \subseteq edits
      BY <2>1, <2>4 DEF Badges!Unlinked
    <3>3. QED
      BY <2>1, <2>2, <3>1, <3>2, ImagesUnlinked
  <2>5. QED
    BY <2>3, <2>4
<1>15. ASSUME NEW c \in edits, Badges!CallLost(c) PROVE ImageInv'
  BY <1>1, <1>15 DEF Badges!CallLost
<1>16. ASSUME NEW id \in Badges!Ids, NEW status \in {"ARCHIVED", "GONE"},
              graphics' = [graphics EXCEPT ![id].status = status], Badges!Active(id),
              odd' = [odd EXCEPT !.raced = @ \/ \E c \in edits : c.kind = "default" /\ c.path = graphics[id].slug],
              UNCHANGED <<files, form, uploads>>,
              \A c \in edits' \ edits :
                c.kind = "remove" /\ <<c.path, c.id>> \in odd.named /\ c.id = id /\ status = "GONE"
       PROVE  ImageInv'
  <2>. DEFINE row == [graphics[id] EXCEPT !.status = status]
  <2>1. graphics' = [graphics EXCEPT ![id] = row]
    BY <1>16
  <2>2. row \in Badges!Row /\ row.slug = graphics[id].slug /\ row.path = graphics[id].path /\ row.status = status
        /\ graphics[id].status # "GONE"
    BY <1>16, RowOf DEF Badges!Row, Badges!Active
  <2>. HIDE DEF row
  <2>3. /\ Badges!Ids' = Badges!Ids /\ graphics'[id] = row /\ \A k \in Badges!Ids \ {id} : graphics'[k] = graphics[k]
    BY <2>1, <2>2, RowChanged
  <2>4. odd'.named = odd.named /\ odd'.stale = odd.stale
    BY <1>16 DEF Badges!TypeOK
  <2>5. QED
    BY <1>0, <1>16, <2>2, <2>3, <2>4, ImagesKept
<1>17. ASSUME NEW id \in Badges!Ids, Badges!Archive(id) PROVE ImageInv'
  BY <1>16, <1>17 DEF Badges!Archive
<1>18. ASSUME NEW a \in Admins, NEW id \in Badges!Ids, Badges!Remove(a, id) PROVE ImageInv'
  <2>. DEFINE c == [Badges!Update(a, id, graphics[id].path, FALSE) EXCEPT !.kind = "remove", !.pc = "unlink"]
  <2>1. edits' = edits \cup {c}
    BY <1>18 DEF Badges!Remove
  <2>2. c.kind = "remove" /\ c.path = graphics[id].path /\ c.id = id
    BY DEF Badges!Update
  <2>3. <<graphics[id].path, id>> \in odd.named
    BY DEF ImageInv, RowSound
  <2>. HIDE DEF c
  <2>4. QED
    BY <1>16, <1>18, <2>1, <2>2, <2>3 DEF Badges!Remove
<1>19. ASSUME NEW c \in edits, Badges!UnlinkRemoved(c) PROVE ImageInv'
  <2>1. /\ files' = Badges!Unlinked(c.path) /\ edits' = edits \ {c} /\ UNCHANGED <<graphics, form, uploads, odd>>
        /\ <<c.path, c.id>> \in odd.named /\ graphics[c.id].status = "GONE" /\ c.id \in Badges!Ids
    BY <1>19 DEF Badges!UnlinkRemoved, ImageInv, Badges!TypeOK
  <2>2. files \ {c.path} \subseteq files' /\ edits' \subseteq edits /\ ~Live(c.id)
    BY <2>1 DEF Badges!Unlinked, Live
  <2>3. QED
    BY <2>1, <2>2, ImagesUnlinked
<1>20. ASSUME NEW a \in Admins, NEW id \in Badges!Ids, Badges!CheckDefault(a, id) PROVE ImageInv'
  <2>. DEFINE c == [Badges!Update(a, id, graphics[id].slug, FALSE) EXCEPT !.kind = "default"]
  <2>1. edits' = edits \cup {c} /\ UNCHANGED <<graphics, default, files, form, uploads, odd>>
    BY <1>20 DEF Badges!CheckDefault
  <2>2. c.kind = "default"
    BY DEF Badges!Update
  <2>. HIDE DEF c
  <2>3. QED
    BY <1>1, <2>1, <2>2
<1>21. ASSUME NEW c \in edits, Badges!WriteDefault(c) PROVE ImageInv'
  BY <1>1, <1>21 DEF Badges!WriteDefault
<1>22. CASE UNCHANGED Badges!vars
  BY <1>1, <1>22 DEF Badges!vars
<1>23. QED
  BY <1>2, <1>3, <1>4, <1>5, <1>6, <1>7, <1>8, <1>9, <1>10, <1>11, <1>12, <1>13, <1>14, <1>15, <1>17, <1>18, <1>19,
     <1>20, <1>21, <1>22 DEF Badges!Next

\* No row goes with the default that names it.
LEMMA DefaultStep == Badges!TypeOK /\ DefaultInv /\ [Badges!Next]_(Badges!vars) => DefaultInv'
<1>. SUFFICES ASSUME Badges!TypeOK, DefaultInv, [Badges!Next]_(Badges!vars), ~odd'.raced PROVE DefaultInv'
  BY DEF DefaultInv
\* Rows may come, or their images change.
<1>1. ASSUME odd'.raced = odd.raced, default' = default, Badges!Ids \subseteq Badges!Ids',
             \A id \in Badges!Ids : graphics'[id].slug = graphics[id].slug /\ graphics'[id].status = graphics[id].status,
             \A c \in edits' \ edits : c.kind # "default"
      PROVE  DefaultInv'
  <2>1. /\ \A c \in edits : c.kind = "default" => Badges!Active(c.id) /\ c.path = graphics[c.id].slug /\ c.id \in Badges!Ids
        /\ default # Badges!NoSlug => \E id \in Badges!Ids : Badges!Active(id) /\ graphics[id].slug = default
    BY <1>1 DEF DefaultInv, Badges!TypeOK
  <2>2. QED
    BY <1>1, <2>1 DEF DefaultInv, Badges!Active, Badges!NoSlug
<1>2. ASSUME UNCHANGED <<graphics, default, odd>>, \A c \in edits' \ edits : c.kind # "default" PROVE DefaultInv'
  BY <1>1, <1>2 DEF Badges!Ids
<1>3. ASSUME NEW a \in Admins, Badges!OpenCreate(a) \/ Badges!ResetForm(a) \/ Badges!HandleUpload(a) PROVE DefaultInv'
  BY <1>2, <1>3 DEF Badges!OpenCreate, Badges!ResetForm, Badges!HandleUpload
<1>4. ASSUME NEW a \in Admins, NEW id \in Badges!Ids, Badges!OpenEdit(a, id) \/ Badges!HandleReplaceImage(a, id)
      PROVE  DefaultInv'
  BY <1>2, <1>4 DEF Badges!OpenEdit, Badges!HandleReplaceImage
<1>5. ASSUME NEW u \in uploads, Badges!StoreFile(u) \/ Badges!UploadFails(u) PROVE DefaultInv'
  BY <1>2, <1>5 DEF Badges!StoreFile, Badges!UploadFails, Badges!Update
<1>6. ASSUME NEW a \in Admins, Badges!SaveEdit(a) PROVE DefaultInv'
  BY <1>2, <1>6 DEF Badges!SaveEdit, Badges!Update
<1>7. ASSUME NEW a \in Admins, Badges!Create(a) PROVE DefaultInv'
  <2>1. PICK row : graphics' = Append(graphics, row) /\ row \in Badges!Row
    BY <1>7 DEF Badges!Create, Badges!TypeOK, Badges!Form, Badges!Row
  <2>2. Badges!Ids \subseteq Badges!Ids' /\ \A id \in Badges!Ids : graphics'[id] = graphics[id]
    BY <2>1, AppendProperties DEF Badges!TypeOK, Badges!Ids
  <2>3. odd'.raced = odd.raced /\ default' = default /\ edits' = edits
    BY <1>7 DEF Badges!Create, Badges!TypeOK
  <2>4. QED
    BY <1>1, <2>2, <2>3
<1>8. ASSUME NEW c \in edits, Badges!ReadPreviousPath(c) PROVE DefaultInv'
  <2>. DEFINE d == [c EXCEPT !.pc = "commit", !.old = graphics[c.id].path]
  <2>1. c \in Badges!Call /\ c.kind = "update" /\ edits' = (edits \ {c}) \cup {d}
    BY <1>8 DEF Badges!ReadPreviousPath, Badges!TypeOK
  <2>2. d.kind = "update"
    BY <2>1 DEF Badges!Call
  <2>. HIDE DEF d
  <2>3. QED
    BY <1>2, <1>8, <2>1, <2>2 DEF Badges!ReadPreviousPath
<1>9. ASSUME NEW c \in edits, Badges!CommitUpdate(c) PROVE DefaultInv'
  <2>1. CASE graphics[c.id].status = "GONE"
    BY <1>2, <1>9, <2>1 DEF Badges!CommitUpdate
  <2>2. CASE graphics[c.id].status # "GONE"
    <3>. DEFINE row == [graphics[c.id] EXCEPT !.path = c.path]
                d == [c EXCEPT !.pc = "unlink"]
    <3>1. /\ graphics' = [graphics EXCEPT ![c.id] = row] /\ default' = default
          /\ edits' = (edits \ {c}) \cup {d} /\ c.kind = "update"
      BY <1>9, <2>2 DEF Badges!CommitUpdate
    <3>2. odd'.raced = odd.raced
      BY <1>9, <2>2 DEF Badges!CommitUpdate, Badges!TypeOK
    <3>3. c \in Badges!Call /\ c.id \in Badges!Ids /\ graphics[c.id] \in Badges!Row
      BY RowOf DEF Badges!TypeOK
    <3>4. row \in Badges!Row /\ row.slug = graphics[c.id].slug /\ row.status = graphics[c.id].status
      BY <3>3 DEF Badges!Row, Badges!Call
    <3>5. d.kind = "update"
      BY <3>1, <3>3 DEF Badges!Call
    <3>. HIDE DEF row, d
    <3>6. Badges!Ids' = Badges!Ids /\ graphics'[c.id] = row /\ \A k \in Badges!Ids \ {c.id} : graphics'[k] = graphics[k]
      BY <3>1, <3>3, <3>4, RowChanged
    <3>7. QED
      BY <1>1, <3>1, <3>2, <3>4, <3>5, <3>6
  <2>3. QED
    BY <2>1, <2>2
<1>10. ASSUME NEW c \in edits, Badges!UnlinkPrevious(c) \/ Badges!CallLost(c) \/ Badges!UnlinkRemoved(c) PROVE DefaultInv'
  BY <1>2, <1>10 DEF Badges!UnlinkPrevious, Badges!CallLost, Badges!UnlinkRemoved
\* A row goes: no default of it is being chosen, and the default is not its slug.
<1>11. ASSUME NEW id \in Badges!Ids, NEW status \in {"ARCHIVED", "GONE"},
              graphics' = [graphics EXCEPT ![id].status = status],
              default' = IF default = graphics[id].slug THEN Badges!NoSlug ELSE default,
              odd' = [odd EXCEPT !.raced = @ \/ \E c \in edits : c.kind = "default" /\ c.path = graphics[id].slug],
              \A c \in edits' \ edits : c.kind # "default"
       PROVE  DefaultInv'
  <2>1. ~odd.raced /\ \A c \in edits : c.kind = "default" => c.path # graphics[id].slug
    <3>1. odd'.raced = (odd.raced \/ \E c \in edits : c.kind = "default" /\ c.path = graphics[id].slug)
      BY <1>11 DEF Badges!TypeOK
    <3>2. QED
      BY <3>1
  <2>2. Badges!Ids' = Badges!Ids /\ \A k \in Badges!Ids \ {id} : graphics'[k] = graphics[k]
    BY <1>11 DEF Badges!Ids
  <2>3. graphics'[id].slug = graphics[id].slug
    BY <1>11, RowOf DEF Badges!Ids, Badges!Row
  <2>4. \A c \in edits : c.kind = "default" =>
          Badges!Active(c.id) /\ c.path = graphics[c.id].slug /\ c.id \in Badges!Ids \ {id}
    BY <2>1 DEF DefaultInv, Badges!TypeOK
  <2>5. \A c \in edits' : c.kind = "default" => Badges!Active(c.id)' /\ c.path = graphics'[c.id].slug
    BY <1>11, <2>2, <2>4 DEF Badges!Active
  <2>6. default' # Badges!NoSlug =>
          \E k \in Badges!Ids \ {id} : Badges!Active(k) /\ graphics[k].slug = default /\ default' = default
    BY <1>11, <2>1 DEF DefaultInv
  <2>7. default' # Badges!NoSlug => \E k \in Badges!Ids' : Badges!Active(k)' /\ graphics'[k].slug = default'
    BY <2>2, <2>6 DEF Badges!Active
  <2>8. QED
    BY <2>5, <2>7 DEF DefaultInv, Badges!NoSlug
<1>12. ASSUME NEW id \in Badges!Ids, Badges!Archive(id) PROVE DefaultInv'
  BY <1>11, <1>12 DEF Badges!Archive
<1>13. ASSUME NEW a \in Admins, NEW id \in Badges!Ids, Badges!Remove(a, id) PROVE DefaultInv'
  <2>. DEFINE c == [Badges!Update(a, id, graphics[id].path, FALSE) EXCEPT !.kind = "remove", !.pc = "unlink"]
  <2>1. edits' = edits \cup {c}
    BY <1>13 DEF Badges!Remove
  <2>2. c.kind = "remove"
    BY DEF Badges!Update
  <2>. HIDE DEF c
  <2>3. QED
    BY <1>11, <1>13, <2>1, <2>2 DEF Badges!Remove
<1>14. ASSUME NEW a \in Admins, NEW id \in Badges!Ids, Badges!CheckDefault(a, id) PROVE DefaultInv'
  <2>0. PICK c : c = [Badges!Update(a, id, graphics[id].slug, FALSE) EXCEPT !.kind = "default"]
    OBVIOUS
  <2>1. edits' = edits \cup {c} /\ UNCHANGED <<graphics, default, odd>> /\ Badges!Active(id)
    BY <1>14, <2>0 DEF Badges!CheckDefault
  <2>2. c.path = graphics[id].slug /\ c.id = id
    BY <2>0 DEF Badges!Update
  <2>3. QED
    BY <2>1, <2>2 DEF DefaultInv, Badges!Active, Badges!Ids, Badges!NoSlug
<1>15. ASSUME NEW c \in edits, Badges!WriteDefault(c) PROVE DefaultInv'
  <2>1. c.kind = "default" /\ default' = c.path /\ edits' = edits \ {c} /\ UNCHANGED <<graphics, odd>> /\ c.id \in Badges!Ids
    BY <1>15 DEF Badges!WriteDefault, Badges!TypeOK
  <2>2. QED
    BY <2>1 DEF DefaultInv, Badges!Active, Badges!Ids, Badges!NoSlug
<1>16. CASE UNCHANGED Badges!vars
  BY <1>2, <1>16 DEF Badges!vars
<1>17. QED
  BY <1>3, <1>4, <1>5, <1>6, <1>7, <1>8, <1>9, <1>10, <1>12, <1>13, <1>14, <1>15, <1>16 DEF Badges!Next

\* Through uploads, saves, replacements, archivings and removals of any number of administrators,
\* each of which may stop half way, a row's image exists and the configured default is an active
\* row, but for an image that two rows have named, a row saved from an outdated form and a default
\* chosen while its row went away (BadgeGraphicService).
THEOREM CatalogSafety ==
  ASSUME Badges!Stocked
  PROVE  Badges!Spec => [](Badges!TypeOK /\ Badges!CatalogIsWhole)
<1>1. Badges!Init => ImageInv /\ DefaultInv
  <2>. SUFFICES ASSUME Badges!Init PROVE ImageInv /\ DefaultInv
    OBVIOUS
  <2>1. Badges!Ids = {1} /\ graphics[1].path = Badges!External /\ default = Badges!NoSlug
    BY DEF Badges!Init, Badges!Ids
  <2>2. odd.named = {<<Badges!External, 1>>} /\ odd.stale = {} /\ files = {Badges!External} /\ uploads = {} /\ edits = {}
    BY DEF Badges!Init
  <2>3. RowSound(1)
    BY <2>1, <2>2 DEF RowSound, Safe
  <2>4. \A a \in Admins : FormSound(a)
    BY DEF Badges!Init, Badges!Closed, FormSound, Badges!NoSlug
  <2>5. QED
    BY <2>1, <2>2, <2>3, <2>4 DEF ImageInv, DefaultInv
<1>2. ImageInv /\ DefaultInv => Badges!CatalogIsWhole
  <2>. SUFFICES ASSUME ImageInv, DefaultInv PROVE Badges!CatalogIsWhole
    OBVIOUS
  <2>1. ASSUME NEW id \in Badges!Ids \ odd.stale, graphics[id].status # "GONE",
               {n \in odd.named : n[1] = graphics[id].path} = {<<graphics[id].path, id>>}
        PROVE  graphics[id].path \in files
    <3>1. Safe(graphics[id].path, id)
      BY <2>1 DEF ImageInv, RowSound, Live
    <3>2. \A n \in odd.named : n[1] = graphics[id].path => n[2] = id
      BY <2>1
    <3>3. QED
      BY <3>1, <3>2 DEF Safe
  <2>2. QED
    BY <2>1 DEF DefaultInv, Badges!CatalogIsWhole
<1>3. QED
  BY <1>1, <1>2, BadgesTypeInit, BadgesTypeStep, ImageStep, DefaultStep, PTL DEF Badges!Spec

\* The badge catalog among the console's parts: an image that a row names is there, and the default
\* is an active row, but for the named races (BadgeGraphicService).
THEOREM CatalogIsWholeHolds == ConsoleSpec => []CatalogIsWhole
<1>1. [ConsoleNext]_allVars => part' = part
  BY DEF ConsoleNext, allVars, Moves
<1>2. ConsoleInit /\ part = "badges" => Badges!Init
  BY DEF ConsoleInit
<1>3. [ConsoleNext]_allVars /\ part = "badges" => [Badges!Next]_(Badges!vars)
  BY DEF ConsoleNext, allVars, Badges!vars, badges, Moves
<1>4. Badges!Spec => [](Badges!TypeOK /\ Badges!CatalogIsWhole)
  BY CatalogSafety, ConstantsAssumption DEF ConstantsAssumption
<1>5. part = "badges" /\ part' = part => (part = "badges")'
  OBVIOUS
<1>6. part # "badges" /\ part' = part => (part # "badges")'
  OBVIOUS
<1>7. (part # "badges" => CatalogIsWhole) /\ (Badges!TypeOK /\ Badges!CatalogIsWhole => CatalogIsWhole)
  BY DEF CatalogIsWhole
<1>8. part = "badges" \/ part # "badges"
  OBVIOUS
<1>9. QED
  BY <1>1, <1>2, <1>3, <1>4, <1>5, <1>6, <1>7, <1>8, PTL DEF ConsoleSpec, Badges!Spec

-----------------------------------------------------------------------------
(* The pages: what each shows, changes and asks for again.                 *)

\* Each query is of one page.
Home ==
  [announcements |-> "announcements", nps |-> "announcements", grants |-> "breakGlass",
   compliancePending |-> "compliance", flags |-> "flags", alertRules |-> "alerts", deliveries |-> "deliveries",
   usageShops |-> "shops", savedViews |-> "shops", graphics |-> "badges", defaultSettings |-> "badges",
   health |-> "merchant", subscription |-> "merchant", campaigns |-> "merchant", overview |-> "merchant",
   unreadTotal |-> "inbox", history |-> "inbox", tags |-> "inbox", canned |-> "inbox", search |-> "inbox",
   atRisk |-> "atRisk", planRequests |-> "plans", tiles |-> "monitoring", kpis |-> "dashboard"]

\* What a page writes it asks for again, but for the audit rows of a merchant; and no note or tag is
\* written without an audit row.
Sound(p, name) ==
  /\ \A q \in DOMAIN p.shows : q \in DOMAIN Home /\ Home[q] = name
  /\ \A m \in p.does :
       /\ \A q \in DOMAIN p.shows : \A t \in m.writes \cap p.shows[q] :
            q \in m.then \/ (q = "overview" /\ t = "audit")
       /\ m.writes \cap {"note", "tag"} # {} => "audit" \in m.writes

\* Each page is sound.
LEMMA AnnouncementsSound == Sound(Announcements, "announcements")
BY DEF Sound, Home, Announcements, Alone

LEMMA BreakGlassSound == Sound(BreakGlass, "breakGlass")
BY DEF Sound, Home, BreakGlass, Alone, Freely

LEMMA ComplianceSound == Sound(Compliance, "compliance")
BY DEF Sound, Home, Compliance, MarkFulfilled, Alone

LEMMA FlagsSound == Sound(FeatureFlags, "flags")
BY DEF Sound, Home, FeatureFlags, Alone, Freely

LEMMA AlertsSound == Sound(UsageAlerts, "alerts")
BY DEF Sound, Home, UsageAlerts, Alone

LEMMA DeliveriesSound == Sound(WebhookDeliveries, "deliveries")
BY DEF Sound, Home, WebhookDeliveries, Alone

LEMMA BadgesSound == Sound(BadgeGraphics, "badges")
BY DEF Sound, Home, BadgeGraphics, Alone

LEMMA ShopsSound == Sound(UsageShops, "shops")
BY DEF Sound, Home, UsageShops, SavedViewsBar, Both, Shows, Alone, Merged

LEMMA QuietSound ==
  /\ Sound(AtRisk, "atRisk") /\ Sound(PlanRequests, "plans")
  /\ Sound(Monitoring, "monitoring") /\ Sound(Dashboard, "dashboard")
BY DEF Sound, Home, AtRisk, PlanRequests, Monitoring, Dashboard, Shows

LEMMA MerchantSound == Sound(MerchantDetail, "merchant") /\ MerchantDetail.shows["overview"] = {"note", "tag", "chat", "audit"}
<1>. DEFINE top == Both(HealthCard, Both(BillingCard, CampaignMonitorCard))
<1>1. /\ DOMAIN top.shows = {"health", "subscription", "campaigns"} /\ top.does = {}
  BY DEF HealthCard, BillingCard, CampaignMonitorCard, Both, Shows, Merged
<1>. HIDE DEF top
<1>2. /\ MerchantDetail.does = {TagsCard, NotesCard, RevealableEmail}
      /\ DOMAIN MerchantDetail.shows = {"health", "subscription", "campaigns", "overview"}
      /\ MerchantDetail.shows["overview"] = {"note", "tag", "chat", "audit"}
  BY <1>1 DEF MerchantDetail, Both, Merged, top
<1>3. \A q \in {"health", "subscription", "campaigns"} : MerchantDetail.shows[q] \cap {"note", "tag", "audit"} = {}
  <2>1. /\ top.shows["health"] = {"health"} /\ top.shows["subscription"] = {} /\ top.shows["campaigns"] = {}
    BY DEF top, HealthCard, BillingCard, CampaignMonitorCard, Both, Shows, Merged
  <2>2. \A q \in {"health", "subscription", "campaigns"} : MerchantDetail.shows[q] = top.shows[q]
    BY <1>1 DEF MerchantDetail, Both, Merged, top
  <2>3. QED
    BY <2>1, <2>2
<1>4. \A q \in DOMAIN MerchantDetail.shows : q \in DOMAIN Home /\ Home[q] = "merchant"
  BY <1>2 DEF Home
<1>5. ASSUME NEW m \in MerchantDetail.does
      PROVE  /\ m.writes \subseteq {"note", "tag", "audit"} /\ "audit" \in m.writes
             /\ m.writes # {"audit"} => "overview" \in m.then
  BY <1>2 DEF TagsCard, NotesCard, RevealableEmail, Alone
<1>6. QED
  BY <1>2, <1>3, <1>4, <1>5 DEF Sound

LEMMA InboxSound == Sound(Inbox, "inbox")
<1>. DEFINE thread == Both(ConversationThread, ConversationSidebar)
            pins == [shows |-> [search |-> {"chat", "status"}], does |-> {Freely("pin", {"chat", "audit"}, {"search", "conversations"})}]
            list == Both(thread, pins)
<1>1. /\ DOMAIN ConversationSidebar.shows = {"tags", "canned"}
      /\ ConversationSidebar.shows["tags"] = {"chatTag"} /\ ConversationSidebar.shows["canned"] = {"canned"}
      /\ ConversationSidebar.does = ConversationTags.does \cup
           {Freely("triage", {"chat", "audit"}, Refreshed), Alone("assign", {"chat", "audit"}, Refreshed)}
  BY DEF ConversationSidebar, ConversationTags, Both, Merged
<1>2. /\ DOMAIN thread.shows = {"tags", "canned", "history"} /\ thread.shows["tags"] = {"chatTag"}
      /\ thread.shows["canned"] = {"canned"} /\ thread.shows["history"] = {"message"}
      /\ thread.does = ConversationThread.does \cup ConversationSidebar.does
  BY <1>1 DEF ConversationThread, Both, Merged
<1>. HIDE DEF thread
<1>3. /\ DOMAIN list.shows = {"tags", "canned", "history", "search"} /\ list.shows["tags"] = {"chatTag"}
      /\ list.shows["canned"] = {"canned"} /\ list.shows["history"] = {"message"}
      /\ list.shows["search"] = {"chat", "status"} /\ list.does = thread.does \cup pins.does
  BY <1>2 DEF Both, Merged
<1>. HIDE DEF list
<1>4. /\ DOMAIN Inbox.shows = {"unreadTotal", "tags", "canned", "history", "search"}
      /\ Inbox.shows["unreadTotal"] = {"status", "unread"} /\ Inbox.shows["tags"] = {"chatTag"}
      /\ Inbox.shows["canned"] = {"canned"} /\ Inbox.shows["history"] = {"message"}
      /\ Inbox.shows["search"] = {"chat", "status"} /\ Inbox.does = list.does
  BY <1>3 DEF Inbox, AppShell, Shows, Both, Merged, list, thread
<1>5. ASSUME NEW m \in Inbox.does
      PROVE  /\ m.writes \in {{"chatTag", "audit"}, {"chat", "audit"}, {"status", "audit"}}
             /\ "chatTag" \in m.writes => m.then = {"tags"}
             /\ "chat" \in m.writes => "search" \in m.then
             /\ "status" \in m.writes => "search" \in m.then /\ "unreadTotal" \in m.then
  BY <1>1, <1>2, <1>3, <1>4 DEF ConversationTags, ConversationThread, Alone, Freely, Refreshed
<1>6. \A q \in DOMAIN Inbox.shows : q \in DOMAIN Home /\ Home[q] = "inbox"
  BY <1>4 DEF Home
<1>7. QED
  BY <1>4, <1>5, <1>6 DEF Sound

\* The pages together.
LEMMA AllSound == \A p \in DOMAIN Pages : Sound(Pages[p], p)
<1>1. DOMAIN Pages = {"announcements", "breakGlass", "compliance", "flags", "alerts", "deliveries", "shops", "badges",
                      "merchant", "inbox", "atRisk", "plans", "monitoring", "dashboard"}
  BY DEF Pages
<1>2. /\ Pages["announcements"] = Announcements /\ Pages["breakGlass"] = BreakGlass
      /\ Pages["compliance"] = Compliance /\ Pages["flags"] = FeatureFlags /\ Pages["alerts"] = UsageAlerts
      /\ Pages["deliveries"] = WebhookDeliveries /\ Pages["shops"] = UsageShops /\ Pages["badges"] = BadgeGraphics
      /\ Pages["merchant"] = MerchantDetail /\ Pages["inbox"] = Inbox /\ Pages["atRisk"] = AtRisk
      /\ Pages["plans"] = PlanRequests /\ Pages["monitoring"] = Monitoring /\ Pages["dashboard"] = Dashboard
  BY DEF Pages
<1>3. QED
  BY <1>1, <1>2, AnnouncementsSound, BreakGlassSound, ComplianceSound, FlagsSound, AlertsSound, DeliveriesSound,
     BadgesSound, ShopsSound, QuietSound, MerchantSound, InboxSound

\* What a query reads is what its page says.
LEMMA ReadsOf ==
  ASSUME tour.pages \subseteq DOMAIN Pages, NEW p \in tour.pages, NEW q \in DOMAIN Pages[p].shows
  PROVE  q \in Queries /\ Reads(q) = Pages[p].shows[q] /\ Home[q] = p
<1>1. \A o \in tour.pages : q \in DOMAIN Pages[o].shows => Home[q] = o
  BY AllSound DEF Sound
<1>2. (CHOOSE o \in tour.pages : q \in DOMAIN Pages[o].shows) = p
  BY <1>1
<1>3. QED
  BY <1>1, <1>2 DEF Queries, Reads

\* What the overview of a merchant reads.
LEMMA OverviewReads ==
  ASSUME tour.pages \subseteq DOMAIN Pages, "overview" \in Queries
  PROVE  Reads("overview") = {"note", "tag", "chat", "audit"}
<1>1. PICK p \in tour.pages : "overview" \in DOMAIN Pages[p].shows
  BY DEF Queries
<1>2. p = "merchant"
  <2>1. Home["overview"] = p
    BY <1>1, ReadsOf
  <2>2. QED
    BY <2>1 DEF Home
<1>3. Pages["merchant"] = MerchantDetail
  BY DEF Pages
<1>4. QED
  BY <1>1, <1>2, <1>3, ReadsOf, MerchantSound

\* The tables of the tour are those that its queries read and its mutations write.
LEMMA TablesOf ==
  /\ \A q \in Queries : Reads(q) \subseteq Tables
  /\ \A p \in tour.pages : \A m \in Pages[p].does : m.writes \subseteq Tables
BY DEF Tables

\* The bounds of a behaviour stay.
LEMMA Still ==
  ASSUME [Next]_vars
  PROVE  tour' = tour /\ Queries' = Queries /\ Tables' = Tables /\ \A q : Reads(q)' = Reads(q)
<1>1. tour' = tour
  BY DEF Next, vars, Visit, SetAppKey, Refresh, Read, Answer, FetchFails, Submit, Commit, Succeed, MutationFails
<1>2. Queries' = Queries /\ \A q : Reads(q)' = Reads(q)
  BY <1>1 DEF Queries, Reads
<1>3. QED
  BY <1>1, <1>2 DEF Tables

-----------------------------------------------------------------------------
(* The pages: types.                                                       *)

\* Nothing is read yet.
LEMMA Nothing ==
  ASSUME NEW q, clock \in Nat
  PROVE  <<>> \in Times(q) /\ DOMAIN <<>> = {}
<1>1. <<>> \in [{} -> 0..clock]
  OBVIOUS
<1>2. QED
  BY <1>1 DEF Times

\* Visits are numbered by the moves that are left; what a mutation has committed is there.
VisitsInv ==
  /\ visit = 0 \/ visit > moves
  /\ \A c \in pending :
       /\ c.visit = 0 \/ c.visit > moves
       /\ c.at > 0 => \A t \in c.does.writes : last[c.app][t] >= c.at

Mutation == UNION {Pages[p].does : p \in tour.pages}
Call == [does : Mutation, app : Apps, visit : Nat, n : Nat, at : 0..clock]
Request(q) == [on : BOOLEAN, app : Apps, at : Times(q)]
Showing(q) == [there : BOOLEAN, app : Apps, at : Times(q)]

\* The types, when it begins.
LEMMA PagesTypeInit == Toured /\ Init => TypeOK /\ VisitsInv
<1>. SUFFICES ASSUME Toured, Init PROVE TypeOK /\ VisitsInv
  OBVIOUS
<1>. USE DEF Toured, Init
<1>1. clock = 0 /\ app \in Apps /\ moves \in Nat /\ tour.pages \subseteq DOMAIN Pages
  OBVIOUS
<1>2. last \in [Apps -> [Tables -> 0..clock]]
  OBVIOUS
<1>3. ASSUME NEW q \in Queries
      PROVE  cache[q] \in Showing(q) /\ fetch[q] \in Request(q) /\ (cache[q].there => DOMAIN cache[q].at = Reads(q))
  <2>1. <<>> \in Times(q)
    BY <1>1, Nothing
  <2>2. [t \in Reads(q) |-> 0] \in Times(q)
    <3>1. [t \in Reads(q) |-> 0] \in [Reads(q) -> 0..clock]
      BY <1>1
    <3>2. QED
      BY <3>1 DEF Times
  <2>3. cache[q] \in Showing(q) /\ (cache[q].there => DOMAIN cache[q].at = Reads(q))
    BY <1>1, <2>1, <2>2 DEF Showing, Rows, NoRows
  <2>4. fetch[q] \in Request(q)
    BY <1>1, <2>1 DEF Request, Asked, Idle
  <2>5. QED
    BY <2>3, <2>4
<1>4. QED
  BY <1>1, <1>2, <1>3 DEF TypeOK, VisitsInv, Showing, Request

\* The types of a step that commits nothing and submits nothing.
LEMMA QuietTyped ==
  ASSUME TypeOK, VisitsInv, [Next]_vars, app' \in Apps, open' \in tour.pages, visit' \in {visit, moves},
         moves' \in Nat, moves' <= moves, visit' # visit => moves' < moves,
         open' = open \/ (visit' = moves /\ moves' < moves),
         last' = last, clock' = clock, DOMAIN cache' = Queries, DOMAIN fetch' = Queries,
         \A q \in Queries : /\ fetch'[q] \in Request(q) /\ cache'[q] \in Showing(q)
                            /\ cache'[q].there => DOMAIN cache'[q].at = Reads(q),
         pending' \subseteq pending, failed' \subseteq Queries,
         \A o \in owed' : o[1] \in DOMAIN Pages[open'].shows /\ o[2] \in Reads(o[1]) /\ o[3] \in 1..clock
  PROVE  TypeOK' /\ VisitsInv'
<1>1. tour' = tour /\ Queries' = Queries /\ Tables' = Tables /\ \A q : Reads(q)' = Reads(q)
  BY Still
<1>2. \A q \in Queries : Times(q)' = Times(q)
  BY <1>1 DEF Times
<1>3. ASSUME NEW c \in pending'
      PROVE  c \in Call /\ (c.visit = visit' => c.does \in Pages[open'].does)
  <2>1. c \in Call /\ (c.visit = visit => c.does \in Pages[open].does) /\ (c.visit = 0 \/ c.visit > moves)
    BY DEF TypeOK, VisitsInv, Call, Mutation, Page
  <2>2. CASE open' = open /\ visit' = visit
    BY <2>1, <2>2
  <2>3. CASE visit' = moves /\ moves' < moves
    <3>1. moves \in Nat /\ moves > 0
      BY <2>3 DEF TypeOK
    <3>2. QED
      BY <2>1, <2>3, <3>1
  <2>4. QED
    BY <2>2, <2>3
<1>4. TypeOK'
  BY <1>1, <1>2, <1>3 DEF TypeOK, Request, Showing, Call, Mutation, Page
<1>5. VisitsInv'
  <2>1. moves \in Nat /\ visit \in Nat /\ \A c \in pending : c.visit \in Nat
    BY DEF TypeOK
  <2>2. visit' = 0 \/ visit' > moves'
    BY <2>1 DEF VisitsInv
  <2>3. QED
    BY <2>1, <2>2 DEF VisitsInv
<1>6. QED
  BY <1>4, <1>5

\* The types, at each step.
LEMMA PagesTypeStep == Toured /\ TypeOK /\ VisitsInv /\ [Next]_vars => TypeOK' /\ VisitsInv'
<1>. SUFFICES ASSUME Toured, TypeOK, VisitsInv, [Next]_vars PROVE TypeOK' /\ VisitsInv'
  OBVIOUS
<1>0. /\ tour \in Tours /\ open \in tour.pages /\ app \in Apps /\ clock \in Nat /\ moves \in Nat /\ visit \in Nat
      /\ DOMAIN cache = Queries /\ DOMAIN fetch = Queries /\ failed \subseteq Queries
      /\ DefaultApp \in Apps /\ tour.pages \subseteq DOMAIN Pages
      /\ \A q \in Queries : /\ fetch[q] \in Request(q) /\ cache[q] \in Showing(q)
                            /\ cache[q].there => DOMAIN cache[q].at = Reads(q)
      /\ \A o \in owed : o[1] \in DOMAIN Pages[open].shows /\ o[2] \in Reads(o[1]) /\ o[3] \in 1..clock
  BY DEF TypeOK, Toured, Request, Showing, Page
<1>1. \A q : <<>> \in Times(q)
  BY <1>0, Nothing
<1>2. \A q, a : a \in Apps => [on |-> TRUE, app |-> a, at |-> <<>>] \in Request(q)
  BY <1>1 DEF Request
<1>3. \A q : Asked \in Request(q) /\ Idle \in Request(q)
  BY <1>0, <1>1 DEF Request, Asked, Idle
<1>4. \A qs : /\ DOMAIN Joined(qs) = Queries /\ DOMAIN Refetched(qs) = Queries
              /\ \A q \in Queries : Joined(qs)[q] \in Request(q) /\ Refetched(qs)[q] \in Request(q)
  BY <1>0, <1>3 DEF Joined, Refetched
<1>5. ASSUME NEW p \in tour.pages, Visit(p) PROVE TypeOK' /\ VisitsInv'
  <2>1. /\ DOMAIN fetch' = Queries /\ \A q \in Queries : fetch'[q] \in Request(q)
    BY <1>0, <1>2, <1>5 DEF Visit, Asked
  <2>2. QED
    BY <1>0, <1>5, <2>1, QuietTyped DEF Visit, Move
<1>6. ASSUME NEW a \in Apps, SetAppKey(a) PROVE TypeOK' /\ VisitsInv'
  BY <1>0, <1>6, QuietTyped DEF SetAppKey, Move
<1>7. ASSUME NEW q \in Queries, Refresh(q) PROVE TypeOK' /\ VisitsInv'
  BY <1>0, <1>4, <1>7, QuietTyped DEF Refresh, Move
<1>8. ASSUME NEW q \in Queries, Answer(q) PROVE TypeOK' /\ VisitsInv'
  <2>1. Rows(fetch[q].app, fetch[q].at) \in Showing(q) /\ DOMAIN fetch[q].at = Reads(q)
    BY <1>0, <1>8 DEF Answer, Rows, Showing, Request
  <2>2. /\ DOMAIN fetch' = Queries /\ DOMAIN cache' = Queries
        /\ \A r \in Queries : /\ fetch'[r] \in Request(r) /\ cache'[r] \in Showing(r)
                              /\ cache'[r].there => DOMAIN cache'[r].at = Reads(r)
    BY <1>0, <1>3, <1>8, <2>1 DEF Answer, Rows
  <2>3. QED
    <3>1. /\ open' = open /\ app' = app /\ visit' = visit /\ moves' = moves /\ last' = last /\ clock' = clock
          /\ owed' = owed /\ pending' = pending /\ failed' \subseteq Queries
      BY <1>0, <1>8 DEF Answer
    <3>2. QED
      BY <1>0, <2>2, <3>1, QuietTyped
<1>9. ASSUME NEW q \in Queries, FetchFails(q) PROVE TypeOK' /\ VisitsInv'
  <2>1. DOMAIN fetch' = Queries /\ \A r \in Queries : fetch'[r] \in Request(r)
    BY <1>0, <1>3, <1>9 DEF FetchFails
  <2>2. QED
    BY <1>0, <1>9, <2>1, QuietTyped DEF FetchFails, Move
<1>10. ASSUME NEW q \in Queries, NEW ts, ts \in Statements(q), Read(q, ts) PROVE TypeOK' /\ VisitsInv'
  <2>1. ts \subseteq Reads(q)
    BY <1>10 DEF Statements
  <2>. DEFINE more == [t \in ts |-> last[fetch[q].app][t]]
  <2>2. more \in [ts -> 0..clock]
    <3>1. last \in [Apps -> [Tables -> 0..clock]] /\ fetch[q].app \in Apps /\ ts \subseteq Tables
      BY <1>0, <2>1, TablesOf DEF TypeOK, Request
    <3>2. QED
      BY <3>1
  <2>. HIDE DEF more
  <2>3. PICK before \in SUBSET Reads(q) : fetch[q].at \in [before -> 0..clock]
    BY <1>0 DEF Request, Times
  <2>4. Merged(fetch[q].at, more) \in [before \cup ts -> 0..clock]
    BY <2>2, <2>3 DEF Merged
  <2>5. Merged(fetch[q].at, more) \in Times(q)
    BY <2>1, <2>3, <2>4 DEF Times
  <2>. DEFINE r == [fetch[q] EXCEPT !.at = Merged(fetch[q].at, more)]
  <2>6. r \in Request(q)
    BY <1>0, <2>5 DEF Request
  <2>7. fetch' = [fetch EXCEPT ![q] = r]
    BY <1>10 DEF Read, more
  <2>. HIDE DEF r
  <2>8. DOMAIN fetch' = Queries /\ \A s \in Queries : fetch'[s] \in Request(s)
    BY <1>0, <2>6, <2>7
  <2>9. QED
    <3>1. /\ open' = open /\ app' = app /\ visit' = visit /\ moves' = moves /\ last' = last /\ clock' = clock
          /\ owed' = owed /\ pending' = pending /\ failed' = failed /\ cache' = cache
      BY <1>10 DEF Read
    <3>2. QED
      BY <1>0, <2>8, <3>1, QuietTyped
<1>11. ASSUME NEW c \in pending, Succeed(c) PROVE TypeOK' /\ VisitsInv'
  <2>1. c.at \in 1..clock
    BY <1>0, <1>11 DEF TypeOK, Succeed
  <2>2. ASSUME NEW o \in owed' PROVE o[1] \in DOMAIN Pages[open].shows /\ o[2] \in Reads(o[1]) /\ o[3] \in 1..clock
    <3>1. CASE o \in owed
      BY <1>0, <3>1
    <3>2. CASE o \notin owed
      <4>1. PICK q \in DOMAIN Page.shows : \E t \in Reads(q) : o = <<q, t, c.at>>
        BY <1>11, <3>2 DEF Succeed
      <4>2. QED
        BY <2>1, <4>1 DEF Page
    <3>3. QED
      BY <3>1, <3>2
  <2>3. QED
    <3>1. /\ open' = open /\ app' = app /\ visit' = visit /\ moves' = moves /\ last' = last /\ clock' = clock
          /\ pending' \subseteq pending /\ failed' = failed /\ cache' = cache
          /\ DOMAIN fetch' = Queries /\ \A q \in Queries : fetch'[q] \in Request(q)
      BY <1>4, <1>11 DEF Succeed
    <3>2. QED
      BY <1>0, <2>2, <3>1, QuietTyped
<1>12. ASSUME NEW c \in pending, MutationFails(c) PROVE TypeOK' /\ VisitsInv'
  BY <1>0, <1>12, QuietTyped DEF MutationFails, Move
<1>13. CASE UNCHANGED vars
  <2>1. /\ open' = open /\ app' = app /\ visit' = visit /\ moves' = moves /\ last' = last /\ clock' = clock
        /\ owed' = owed /\ pending' = pending /\ failed' = failed /\ cache' = cache /\ fetch' = fetch
    BY <1>13 DEF vars
  <2>2. QED
    BY <1>0, <2>1, QuietTyped
<1>14. ASSUME NEW m \in Page.does, Submit(m) PROVE TypeOK' /\ VisitsInv'
  <2>1. tour' = tour /\ Queries' = Queries /\ Tables' = Tables /\ \A q : Reads(q)' = Reads(q)
    BY Still
  <2>2. \A q \in Queries : Times(q)' = Times(q)
    BY <1>14, <2>1 DEF Times, Submit
  <2>. DEFINE call == [does |-> m, app |-> app, visit |-> visit, n |-> moves, at |-> 0]
  <2>3. call \in Call /\ call.visit = visit /\ call.does \in Page.does /\ call.at = 0
    BY <1>0 DEF Call, Mutation, Page
  <2>. HIDE DEF call
  <2>4. ASSUME NEW c \in pending' PROVE c \in Call /\ (c.visit = visit => c.does \in Page.does)
    <3>1. c \in pending \cup {call}
      BY <1>14 DEF Submit, call
    <3>2. QED
      BY <2>3, <3>1 DEF TypeOK, Call, Mutation
  <2>5. TypeOK'
    BY <1>0, <1>14, <2>1, <2>2, <2>4 DEF Submit, Move, TypeOK, Request, Showing, Call, Mutation, Page
  <2>6. VisitsInv'
    <3>1. visit = 0 \/ visit > moves'
      BY <1>0, <1>14 DEF Submit, Move, VisitsInv
    <3>2. ASSUME NEW c \in pending'
          PROVE (c.visit = 0 \/ c.visit > moves') /\ (c.at > 0 => \A t \in c.does.writes : last[c.app][t] >= c.at)
      <4>1. CASE c \in pending
        <5>1. c.visit \in Nat
          BY <4>1 DEF TypeOK
        <5>2. QED
          BY <1>0, <1>14, <4>1, <5>1 DEF Submit, Move, VisitsInv
      <4>2. CASE c = call
        BY <2>3, <3>1, <4>2
      <4>3. QED
        BY <1>14, <4>1, <4>2 DEF Submit, call
    <3>3. QED
      BY <1>14, <3>1, <3>2 DEF Submit, VisitsInv
  <2>7. QED
    BY <2>5, <2>6
<1>15. ASSUME NEW c \in pending, Commit(c) PROVE TypeOK' /\ VisitsInv'
  <2>1. tour' = tour /\ Queries' = Queries /\ Tables' = Tables /\ \A q : Reads(q)' = Reads(q)
    BY Still
  <2>2. clock' = clock + 1 /\ clock' \in Nat /\ clock' > 0
    BY <1>0, <1>15 DEF Commit
  <2>3. \A q \in Queries : Times(q) \subseteq Times(q)'
    <3>1. \A ts : [ts -> 0..clock] \subseteq [ts -> 0..clock']
      BY <1>0, <2>2
    <3>2. QED
      BY <2>1, <3>1 DEF Times
  <2>4. c \in Call /\ c.at = 0 /\ c.does.writes \subseteq Tables
    BY <1>15, TablesOf DEF TypeOK, Call, Mutation, Commit
  <2>. DEFINE done == [c EXCEPT !.at = clock + 1]
  <2>5. /\ done \in [does : Mutation, app : Apps, visit : Nat, n : Nat, at : 0..clock']
        /\ done.does = c.does /\ done.app = c.app /\ done.visit = c.visit /\ done.at = clock + 1
    BY <1>0, <2>2, <2>4 DEF Call
  <2>. HIDE DEF done
  <2>6. \A d \in pending' : d \in pending \/ d = done
    BY <1>15 DEF Commit, done
  <2>7. last' \in [Apps -> [Tables -> 0..clock']]
    <3>1. last \in [Apps -> [Tables -> 0..clock']]
      BY <1>0, <2>2 DEF TypeOK
    <3>2. [t \in Tables |-> IF t \in c.does.writes THEN clock + 1 ELSE last[c.app][t]] \in [Tables -> 0..clock']
      BY <1>0, <2>2, <2>4, <3>1 DEF Call
    <3>3. last' = [last EXCEPT ![c.app] = [t \in Tables |-> IF t \in c.does.writes THEN clock + 1 ELSE last[c.app][t]]]
      BY <1>15 DEF Commit, Written
    <3>4. QED
      BY <3>1, <3>2, <3>3
  <2>8. \A a \in Apps, t \in Tables :
          last'[a][t] = IF a = c.app /\ t \in c.does.writes THEN clock + 1 ELSE last[a][t]
    BY <1>15, <2>4 DEF Commit, Written, TypeOK, Call
  <2>9. TypeOK'
    <3>1. \A d \in pending' : /\ d \in [does : Mutation, app : Apps, visit : Nat, n : Nat, at : 0..clock']
                              /\ d.visit = visit => d.does \in Page.does
      <4>1. \A d \in pending : /\ d \in [does : Mutation, app : Apps, visit : Nat, n : Nat, at : 0..clock']
                               /\ d.visit = visit => d.does \in Page.does
        BY <1>0, <2>2 DEF TypeOK, Mutation
      <4>2. QED
        BY <2>5, <2>6, <4>1
    <3>2. \A q \in Queries :
            /\ cache[q] \in [there : BOOLEAN, app : Apps, at : Times(q)']
            /\ fetch[q] \in [on : BOOLEAN, app : Apps, at : Times(q)']
      BY <1>0, <2>3 DEF Request, Showing
    <3>3. \A o \in owed : o[3] \in 1..clock'
      BY <1>0, <2>2
    <3>4. /\ open' = open /\ app' = app /\ visit' = visit /\ moves' = moves /\ failed' = failed
          /\ owed' = owed /\ cache' = cache /\ fetch' = fetch
      BY <1>15 DEF Commit
    <3>5. QED
      BY <1>0, <2>1, <2>2, <2>7, <3>1, <3>2, <3>3, <3>4 DEF TypeOK, Mutation, Page
  <2>10. VisitsInv'
    <3>1. ASSUME NEW d \in pending'
          PROVE (d.visit = 0 \/ d.visit > moves) /\ (d.at > 0 => \A t \in d.does.writes : last'[d.app][t] >= d.at)
      <4>1. CASE d \in pending
        <5>1. d \in Call /\ d.does.writes \subseteq Tables
          BY <4>1, TablesOf DEF TypeOK, Call, Mutation
        <5>2. d.app \in Apps /\ d.at <= clock /\ d.at \in Nat
          BY <1>0, <5>1 DEF Call
        <5>3. (d.visit = 0 \/ d.visit > moves) /\ (d.at > 0 => \A t \in d.does.writes : last[d.app][t] >= d.at)
          BY <4>1 DEF VisitsInv
        <5>4. ASSUME d.at > 0, NEW t \in d.does.writes PROVE last'[d.app][t] >= d.at
          <6>1. t \in Tables
            BY <5>1
          <6>2. QED
            BY <1>0, <2>8, <5>2, <5>3, <5>4, <6>1
        <5>5. QED
          BY <5>3, <5>4
      <4>2. CASE d = done
        <5>1. c.visit = 0 \/ c.visit > moves
          BY DEF VisitsInv
        <5>2. \A t \in c.does.writes : last'[c.app][t] = clock + 1
          BY <2>4, <2>8 DEF Call
        <5>3. QED
          BY <1>0, <2>5, <4>2, <5>1, <5>2
      <4>3. QED
        BY <2>6, <4>1, <4>2
    <3>2. visit' = visit /\ moves' = moves
      BY <1>15 DEF Commit
    <3>3. QED
      BY <3>1, <3>2 DEF VisitsInv
  <2>11. QED
    BY <2>9, <2>10
<1>20. QED
  BY <1>5, <1>6, <1>7, <1>8, <1>9, <1>10, <1>11, <1>12, <1>13, <1>14, <1>15 DEF Next

-----------------------------------------------------------------------------
(* The pages: what is owed.                                                *)

\* An awaited request shows no commit that is not there.
FetchInv == \A q \in Queries : \A t \in DOMAIN fetch[q].at : fetch[q].at[t] <= last[fetch[q].app][t]

\* An own change that is owed is there, and what is awaited, or was last answered, has it; but for the
\* audit rows of a merchant.
Owes(q, t, n) ==
  /\ cache[q].there /\ last[app][t] >= n
  /\ (q # "overview" \/ t # "audit") =>
       /\ fetch[q].on => fetch[q].app = app /\ (t \in DOMAIN fetch[q].at => fetch[q].at[t] >= n)
       /\ ~fetch[q].on /\ q \notin failed => cache[q].at[t] >= n
OwesInv == \A o \in owed : Owes(o[1], o[2], o[3])

\* No note or tag is without its audit row, for one that reads the audit rows last.
OverviewInv ==
  "overview" \in Queries =>
    \A t \in {"note", "tag"} :
      /\ \A a \in Apps : last[a][t] <= last[a]["audit"]
      /\ LET at == fetch["overview"].at IN
           "audit" \in DOMAIN at => t \in DOMAIN at /\ at[t] <= at["audit"]
      /\ cache["overview"].there => cache["overview"].at[t] <= cache["overview"].at["audit"]

\* What a request reads is what the last commits were.
LEMMA ReadShape ==
  ASSUME TypeOK, NEW q \in Queries, NEW ts, ts \in Statements(q), Read(q, ts)
  PROVE  /\ ts \subseteq Reads(q) /\ \A s \in Queries : s # q => fetch'[s] = fetch[s]
         /\ fetch'[q].on /\ fetch'[q].app = fetch[q].app
         /\ DOMAIN fetch'[q].at = DOMAIN fetch[q].at \cup ts
         /\ \A t \in DOMAIN fetch[q].at : fetch'[q].at[t] = fetch[q].at[t]
         /\ \A t \in ts : t \notin DOMAIN fetch[q].at /\ fetch'[q].at[t] = last[fetch[q].app][t]
<1>1. ts \subseteq Reads(q)
  BY DEF Statements
<1>. DEFINE more == [t \in ts |-> last[fetch[q].app][t]]
            joint == Merged(fetch[q].at, more)
            r == [fetch[q] EXCEPT !.at = joint]
<1>2. /\ DOMAIN joint = DOMAIN fetch[q].at \cup ts
      /\ \A t \in DOMAIN fetch[q].at : joint[t] = fetch[q].at[t]
      /\ \A t \in ts : t \notin DOMAIN fetch[q].at => joint[t] = last[fetch[q].app][t]
  BY DEF Merged
<1>. HIDE DEF joint
<1>3. r.on = fetch[q].on /\ r.app = fetch[q].app /\ r.at = joint
  BY DEF TypeOK
<1>4. fetch' = [fetch EXCEPT ![q] = r]
  BY DEF Read, joint
<1>. HIDE DEF r
<1>5. fetch'[q] = r /\ \A s \in Queries : s # q => fetch'[s] = fetch[s]
  BY <1>4 DEF TypeOK
<1>6. fetch[q].on /\ \A t \in ts : t \notin DOMAIN fetch[q].at
  BY DEF Read
<1>7. QED
  BY <1>1, <1>2, <1>3, <1>5, <1>6

\* A commit moves the tables that it writes, and no other.
LEMMA CommitShape ==
  ASSUME TypeOK, NEW c \in pending, Commit(c)
  PROVE  /\ clock \in Nat
         /\ \A a \in Apps, t \in Tables :
              /\ last[a][t] \in 0..clock
              /\ last'[a][t] = IF a = c.app /\ t \in c.does.writes THEN clock + 1 ELSE last[a][t]
BY DEF Commit, Written, TypeOK

\* Of a request and of rows: times of tables that are there.
LEMMA AtTyped ==
  ASSUME TypeOK, NEW q \in Queries
  PROVE  /\ Reads(q) \subseteq Tables /\ fetch[q].app \in Apps
         /\ DOMAIN fetch[q].at \subseteq Reads(q) /\ DOMAIN cache[q].at \subseteq Reads(q)
         /\ \A t \in DOMAIN fetch[q].at : fetch[q].at[t] \in 0..clock
         /\ \A t \in DOMAIN cache[q].at : cache[q].at[t] \in 0..clock
         /\ cache[q].there => DOMAIN cache[q].at = Reads(q)
<1>1. fetch[q].at \in Times(q) /\ cache[q].at \in Times(q) /\ fetch[q].app \in Apps
  BY DEF TypeOK
<1>2. \A at \in Times(q) : DOMAIN at \subseteq Reads(q) /\ \A t \in DOMAIN at : at[t] \in 0..clock
  BY DEF Times
<1>3. QED
  BY <1>1, <1>2, TablesOf DEF TypeOK

\* But by reading, a request does not change, or it has no rows.
LEMMA RequestKept ==
  ASSUME TypeOK, [Next]_vars, NEW q \in Queries
  PROVE  \/ fetch'[q] = fetch[q] \/ DOMAIN fetch'[q].at = {}
         \/ \E ts \in Statements(q) : Read(q, ts)
<1>1. DOMAIN <<>> = {}
  OBVIOUS
<1>2. \A qs : /\ Joined(qs)[q] = fetch[q] \/ DOMAIN Joined(qs)[q].at = {}
              /\ Refetched(qs)[q] = fetch[q] \/ DOMAIN Refetched(qs)[q].at = {}
  BY <1>1 DEF Joined, Refetched, Asked
<1>3. ASSUME NEW p \in tour.pages, Visit(p) PROVE fetch'[q] = fetch[q] \/ DOMAIN fetch'[q].at = {}
  BY <1>1, <1>3 DEF Visit, Asked
<1>4. ASSUME NEW r \in Queries, Refresh(r) PROVE fetch'[q] = fetch[q] \/ DOMAIN fetch'[q].at = {}
  BY <1>2, <1>4 DEF Refresh
<1>5. ASSUME NEW r \in Queries, Answer(r) \/ FetchFails(r) PROVE fetch'[q] = fetch[q] \/ DOMAIN fetch'[q].at = {}
  BY <1>1, <1>5 DEF Answer, FetchFails, Idle, TypeOK
<1>6. ASSUME NEW r \in Queries, NEW ts, ts \in Statements(r), Read(r, ts)
      PROVE  fetch'[q] = fetch[q] \/ (Read(q, ts) /\ ts \in Statements(q))
  <2>1. q # r => fetch'[q] = fetch[q]
    BY <1>6, ReadShape
  <2>2. QED
    BY <1>6, <2>1
<1>7. ASSUME NEW c \in pending, Succeed(c) PROVE fetch'[q] = fetch[q] \/ DOMAIN fetch'[q].at = {}
  BY <1>2, <1>7 DEF Succeed
<1>8. QED
  BY <1>3, <1>4, <1>5, <1>6, <1>7 DEF Next, vars, SetAppKey, Submit, Commit, MutationFails

\* Commits only grow.
LEMMA LastGrows ==
  ASSUME TypeOK, [Next]_vars, NEW a \in Apps, NEW t \in Tables
  PROVE  last[a][t] \in Nat /\ last'[a][t] \in Nat /\ last'[a][t] >= last[a][t]
<1>1. last[a][t] \in Nat /\ last[a][t] <= clock /\ clock \in Nat
  BY DEF TypeOK
<1>2. ASSUME NEW c \in pending, Commit(c) PROVE last'[a][t] \in Nat /\ last'[a][t] >= last[a][t]
  BY <1>1, <1>2, CommitShape
<1>3. last' = last \/ \E c \in pending : Commit(c)
  BY DEF Next, vars, Visit, SetAppKey, Refresh, Read, Answer, FetchFails, Submit, Succeed, MutationFails
<1>4. QED
  BY <1>1, <1>2, <1>3

\* No request runs ahead of the commits.
LEMMA FetchStep == TypeOK /\ FetchInv /\ [Next]_vars => FetchInv'
<1>. SUFFICES ASSUME TypeOK, FetchInv, [Next]_vars, NEW q \in Queries, NEW t \in DOMAIN fetch'[q].at
              PROVE  fetch'[q].at[t] <= last'[fetch'[q].app][t]
  BY Still DEF FetchInv
<1>1. CASE fetch'[q] = fetch[q]
  <2>1. t \in Tables /\ fetch[q].app \in Apps /\ fetch[q].at[t] \in Nat /\ fetch[q].at[t] <= last[fetch[q].app][t]
    BY <1>1, AtTyped DEF FetchInv
  <2>2. QED
    BY <1>1, <2>1, LastGrows
<1>2. CASE \E ts \in Statements(q) : Read(q, ts)
  <2>1. PICK ts : ts \in Statements(q) /\ Read(q, ts)
    BY <1>2
  <2>2. last' = last /\ fetch[q].app \in Apps /\ Reads(q) \subseteq Tables
    BY <2>1, AtTyped DEF Read
  <2>3. CASE t \in ts
    <3>1. fetch'[q].app = fetch[q].app /\ fetch'[q].at[t] = last[fetch[q].app][t] /\ t \in Tables
      BY <2>1, <2>2, <2>3, ReadShape
    <3>2. last[fetch[q].app][t] \in Nat
      BY <2>2, <3>1, LastGrows
    <3>3. QED
      BY <2>2, <3>1, <3>2
  <2>4. CASE t \in DOMAIN fetch[q].at
    BY <2>1, <2>2, <2>4, ReadShape DEF FetchInv
  <2>5. QED
    BY <2>1, <2>3, <2>4, ReadShape
<1>3. QED
  BY <1>1, <1>2, RequestKept

\* The audit rows are read last, and no note or tag is committed without one.
LEMMA OverviewStep == Toured /\ TypeOK /\ FetchInv /\ OverviewInv /\ [Next]_vars => OverviewInv'
<1>. SUFFICES ASSUME Toured, TypeOK, FetchInv, OverviewInv, [Next]_vars, "overview" \in Queries, NEW t \in {"note", "tag"}
              PROVE  /\ \A a \in Apps : last'[a][t] <= last'[a]["audit"]
                     /\ "audit" \in DOMAIN fetch'["overview"].at =>
                          t \in DOMAIN fetch'["overview"].at /\ fetch'["overview"].at[t] <= fetch'["overview"].at["audit"]
                     /\ cache'["overview"].there => cache'["overview"].at[t] <= cache'["overview"].at["audit"]
  BY Still DEF OverviewInv
<1>1. /\ \A a \in Apps : last[a][t] <= last[a]["audit"]
      /\ "audit" \in DOMAIN fetch["overview"].at =>
           t \in DOMAIN fetch["overview"].at /\ fetch["overview"].at[t] <= fetch["overview"].at["audit"]
      /\ cache["overview"].there => cache["overview"].at[t] <= cache["overview"].at["audit"]
  BY DEF OverviewInv
<1>2. tour.pages \subseteq DOMAIN Pages
  BY DEF Toured, TypeOK
<1>3. Reads("overview") = {"note", "tag", "chat", "audit"} /\ {t, "audit"} \subseteq Tables
  BY <1>2, OverviewReads, TablesOf
<1>4. ASSUME NEW a \in Apps PROVE last'[a][t] <= last'[a]["audit"]
  <2>1. CASE last' = last
    BY <1>1, <2>1
  <2>2. ASSUME NEW c \in pending, Commit(c) PROVE last'[a][t] <= last'[a]["audit"]
    <3>1. t \in c.does.writes => "audit" \in c.does.writes
      BY <1>2, AllSound DEF Sound, TypeOK
    <3>2. QED
      BY <1>1, <1>3, <2>2, <3>1, CommitShape
  <2>3. QED
    BY <2>1, <2>2 DEF Next, vars, Visit, SetAppKey, Refresh, Read, Answer, FetchFails, Submit, Succeed, MutationFails
<1>5. ASSUME "audit" \in DOMAIN fetch'["overview"].at
      PROVE  t \in DOMAIN fetch'["overview"].at /\ fetch'["overview"].at[t] <= fetch'["overview"].at["audit"]
  <2>1. CASE fetch'["overview"] = fetch["overview"]
    BY <1>1, <1>5, <2>1
  <2>2. ASSUME NEW ts, ts \in Statements("overview"), Read("overview", ts)
        PROVE  t \in DOMAIN fetch'["overview"].at /\ fetch'["overview"].at[t] <= fetch'["overview"].at["audit"]
    <3>1. CASE "audit" \in ts
      <4>1. t \in DOMAIN fetch["overview"].at
        BY <2>2, <3>1 DEF Read, ReadsAfter
      <4>2. /\ fetch'["overview"].at[t] = fetch["overview"].at[t] /\ t \in DOMAIN fetch'["overview"].at
            /\ fetch'["overview"].at["audit"] = last[fetch["overview"].app]["audit"]
        BY <2>2, <3>1, <4>1, ReadShape
      <4>3. fetch["overview"].at[t] <= last[fetch["overview"].app][t] /\ fetch["overview"].at[t] \in Nat /\ fetch["overview"].app \in Apps
        BY <4>1, AtTyped DEF FetchInv
      <4>4. /\ last[fetch["overview"].app][t] <= last[fetch["overview"].app]["audit"]
            /\ last[fetch["overview"].app][t] \in Nat /\ last[fetch["overview"].app]["audit"] \in Nat
        BY <1>1, <1>3, <4>3, LastGrows
      <4>5. QED
        BY <4>2, <4>3, <4>4
    <3>2. CASE "audit" \notin ts
      BY <1>1, <1>5, <2>2, <3>2, ReadShape
    <3>3. QED
      BY <3>1, <3>2
  <2>3. QED
    BY <1>5, <2>1, <2>2, RequestKept
<1>6. ASSUME cache'["overview"].there PROVE cache'["overview"].at[t] <= cache'["overview"].at["audit"]
  <2>1. CASE cache' = cache
    BY <1>1, <1>6, <2>1
  <2>2. ASSUME NEW q \in Queries, Answer(q) PROVE cache'["overview"].at[t] <= cache'["overview"].at["audit"]
    <3>1. CASE q = "overview"
      <4>1. cache'["overview"].at = fetch["overview"].at /\ "audit" \in DOMAIN fetch["overview"].at
        BY <1>3, <2>2, <3>1 DEF Answer, Rows, TypeOK
      <4>2. QED
        BY <1>1, <4>1
    <3>2. CASE q # "overview"
      BY <1>1, <1>6, <2>2, <3>2 DEF Answer, TypeOK
    <3>3. QED
      BY <3>1, <3>2
  <2>3. QED
    BY <2>1, <2>2 DEF Next, vars, Visit, SetAppKey, Refresh, Read, FetchFails, Submit, Commit, Succeed, MutationFails
<1>7. QED
  BY <1>4, <1>5, <1>6

\* What the page's own mutation writes, and the page reads, is asked for again.
LEMMA RefetchesOwn ==
  ASSUME Toured, TypeOK, NEW c \in pending, c.visit = visit, NEW q \in DOMAIN Page.shows,
         NEW t \in c.does.writes, t \in Reads(q)
  PROVE  q \in Queries /\ (q \in c.does.then \/ (q = "overview" /\ t = "audit"))
<1>1. open \in tour.pages /\ tour.pages \subseteq DOMAIN Pages /\ c.does \in Pages[open].does
  BY DEF Toured, TypeOK, Page
<1>2. q \in Queries /\ Reads(q) = Pages[open].shows[q]
  BY <1>1, ReadsOf DEF Page
<1>3. Sound(Pages[open], open)
  BY <1>1, AllSound
<1>4. QED
  BY <1>1, <1>2, <1>3 DEF Sound, Page

\* What is owed is shown or on its way.
LEMMA OwesStep == Toured /\ TypeOK /\ VisitsInv /\ FetchInv /\ OwesInv /\ [Next]_vars => OwesInv'
<1>. SUFFICES ASSUME Toured, TypeOK, VisitsInv, FetchInv, OwesInv, [Next]_vars, NEW o \in owed'
              PROVE  Owes(o[1], o[2], o[3])'
  BY DEF OwesInv
<1>1. PICK q, t, n : q = o[1] /\ t = o[2] /\ n = o[3]
  OBVIOUS
<1>2. SUFFICES Owes(q, t, n)'
  BY <1>1
<1>3. o \in owed => /\ q \in DOMAIN Page.shows /\ q \in Queries /\ t \in Reads(q) /\ t \in Tables /\ n \in 1..clock
                   /\ Owes(q, t, n)
  <2>. SUFFICES ASSUME o \in owed PROVE /\ q \in DOMAIN Page.shows /\ q \in Queries /\ t \in Reads(q) /\ t \in Tables
                                       /\ n \in 1..clock /\ Owes(q, t, n)
    OBVIOUS
  <2>1. q \in DOMAIN Page.shows /\ t \in Reads(q) /\ n \in 1..clock /\ Owes(q, t, n)
    BY <1>1 DEF TypeOK, OwesInv
  <2>2. q \in Queries
    BY <2>1 DEF TypeOK, Page, Queries
  <2>3. QED
    BY <2>1, <2>2, TablesOf
<1>4. app \in Apps /\ clock \in Nat /\ DOMAIN <<>> = {}
  BY DEF TypeOK
<1>5. ASSUME NEW p \in tour.pages, Visit(p) PROVE Owes(q, t, n)'
  BY <1>5 DEF Visit
<1>6. ASSUME NEW a \in Apps, SetAppKey(a) PROVE Owes(q, t, n)'
  BY <1>6 DEF SetAppKey
<1>7. ASSUME NEW r \in Queries, Refresh(r) PROVE Owes(q, t, n)'
  <2>1. fetch'[q] = fetch[q] \/ fetch'[q] = Asked
    BY <1>3, <1>7 DEF Refresh, Joined
  <2>2. QED
    BY <1>3, <1>4, <1>7, <2>1 DEF Refresh, Owes, Asked
<1>8. ASSUME NEW r \in Queries, Answer(r) PROVE Owes(q, t, n)'
  <2>1. CASE q = r
    <3>1. fetch[q].on /\ DOMAIN fetch[q].at = Reads(q) /\ cache'[q] = Rows(fetch[q].app, fetch[q].at)
      BY <1>8, <2>1 DEF Answer, TypeOK
    <3>2. cache'[q].there /\ cache'[q].at = fetch[q].at /\ last' = last /\ app' = app
      BY <1>8, <3>1 DEF Answer, Rows
    <3>3. o \in owed /\ fetch'[q] = Idle /\ ~Idle.on
      BY <1>8, <2>1 DEF Answer, Idle, TypeOK
    <3>4. QED
      BY <1>3, <3>1, <3>2, <3>3 DEF Owes
  <2>2. CASE q # r
    <3>1. fetch'[q] = fetch[q] /\ cache'[q] = cache[q] /\ (q \in failed' <=> q \in failed)
      BY <1>3, <1>8, <2>2 DEF Answer, TypeOK
    <3>2. QED
      BY <1>3, <1>8, <3>1 DEF Answer, Owes
  <2>3. QED
    BY <2>1, <2>2
<1>9. ASSUME NEW r \in Queries, FetchFails(r) PROVE Owes(q, t, n)'
  <2>1. CASE q = r
    <3>1. fetch'[q] = Idle /\ ~Idle.on /\ q \in failed'
      BY <1>9, <2>1 DEF FetchFails, Idle, TypeOK
    <3>2. QED
      BY <1>3, <1>9, <3>1 DEF FetchFails, Owes
  <2>2. CASE q # r
    <3>1. fetch'[q] = fetch[q] /\ (q \in failed' <=> q \in failed)
      BY <1>3, <1>9, <2>2 DEF FetchFails, TypeOK
    <3>2. QED
      BY <1>3, <1>9, <3>1 DEF FetchFails, Owes
  <2>3. QED
    BY <2>1, <2>2
<1>10. ASSUME NEW r \in Queries, NEW ts, ts \in Statements(r), Read(r, ts) PROVE Owes(q, t, n)'
  <2>1. /\ last' = last /\ app' = app /\ cache' = cache /\ failed' = failed /\ owed' = owed
    BY <1>10 DEF Read
  <2>2. CASE q = r
    <3>1. /\ fetch[q].on /\ fetch'[q].on /\ fetch'[q].app = fetch[q].app
          /\ DOMAIN fetch'[q].at = DOMAIN fetch[q].at \cup ts
          /\ t \in DOMAIN fetch[q].at => fetch'[q].at[t] = fetch[q].at[t]
          /\ t \in ts => fetch'[q].at[t] = last[fetch[q].app][t]
      BY <1>10, <2>2, ReadShape DEF Read
    <3>2. QED
      BY <1>3, <2>1, <3>1 DEF Owes
  <2>3. CASE q # r
    <3>1. fetch'[q] = fetch[q]
      BY <1>3, <1>10, <2>1, <2>3, ReadShape
    <3>2. QED
      BY <1>3, <2>1, <3>1 DEF Owes
  <2>4. QED
    BY <2>2, <2>3
<1>11. ASSUME NEW m \in Page.does, Submit(m) PROVE Owes(q, t, n)'
  BY <1>3, <1>11 DEF Submit, Owes
<1>12. ASSUME NEW c \in pending, Commit(c) PROVE Owes(q, t, n)'
  <2>1. last'[app][t] >= last[app][t] /\ last'[app][t] \in Nat /\ last[app][t] \in Nat /\ n \in Nat
    BY <1>3, <1>4, <1>12, LastGrows DEF Commit
  <2>2. QED
    BY <1>3, <1>12, <2>1 DEF Commit, Owes
<1>13. ASSUME NEW c \in pending, Succeed(c) PROVE Owes(q, t, n)'
  <2>1. last' = last /\ app' = app /\ cache' = cache /\ failed' = failed
    BY <1>13 DEF Succeed
  <2>2. CASE o \in owed
    <3>1. fetch'[q] = fetch[q] \/ fetch'[q] = Asked
      BY <1>3, <1>13, <2>2 DEF Succeed, Refetched
    <3>2. QED
      BY <1>3, <1>4, <2>1, <2>2, <3>1 DEF Owes, Asked
  <2>3. CASE o \notin owed
    <3>1. /\ c.visit = visit /\ c.app = app /\ c.at > 0 /\ q \in DOMAIN Page.shows /\ cache[q].there
          /\ t \in c.does.writes /\ t \in Reads(q) /\ n = c.at
      <4>1. /\ c.visit = visit /\ c.app = app /\ c.at > 0
            /\ \E r \in DOMAIN Page.shows : \E s \in c.does.writes \cap Reads(r) : cache[r].there /\ o = <<r, s, c.at>>
        BY <1>13, <2>3 DEF Succeed
      <4>2. QED
        BY <1>1, <4>1
    <3>2. q \in Queries /\ (q \in c.does.then \/ (q = "overview" /\ t = "audit"))
      BY <3>1, RefetchesOwn
    <3>3. last[app][t] >= n
      BY <3>1 DEF VisitsInv
    <3>4. q \in c.does.then => fetch'[q] = Asked
      BY <1>13, <3>1, <3>2 DEF Succeed, Refetched
    <3>5. QED
      BY <1>4, <2>1, <3>1, <3>2, <3>3, <3>4 DEF Owes, Asked
  <2>4. QED
    BY <2>2, <2>3
<1>14. ASSUME NEW c \in pending, MutationFails(c) PROVE Owes(q, t, n)'
  BY <1>3, <1>14 DEF MutationFails, Owes
<1>15. CASE UNCHANGED vars
  BY <1>3, <1>15 DEF vars, Owes
<1>20. QED
  BY <1>5, <1>6, <1>7, <1>8, <1>9, <1>10, <1>11, <1>12, <1>13, <1>14, <1>15 DEF Next

\* The pages show their own changes, and a merchant's an audit row of every note and tag.
THEOREM PagesSafety ==
  ASSUME Toured
  PROVE  Spec => [](TypeOK /\ OwnChangesShown)
<1>1. Toured /\ Init => TypeOK /\ VisitsInv /\ FetchInv /\ OwesInv /\ OverviewInv
  <2>. SUFFICES ASSUME Toured, Init PROVE TypeOK /\ VisitsInv /\ FetchInv /\ OwesInv /\ OverviewInv
    OBVIOUS
  <2>1. TypeOK /\ VisitsInv
    BY PagesTypeInit
  <2>2. \A q \in Queries : DOMAIN fetch[q].at = {}
    BY DEF Init, Asked, Idle
  <2>3. ASSUME "overview" \in Queries, NEW t \in {"note", "tag"}
        PROVE  /\ \A a \in Apps : last[a][t] <= last[a]["audit"]
               /\ cache["overview"].there => cache["overview"].at[t] <= cache["overview"].at["audit"]
    <3>1. Reads("overview") = {"note", "tag", "chat", "audit"} /\ {t, "audit"} \subseteq Tables
      <4>1. tour.pages \subseteq DOMAIN Pages
        BY DEF Toured, Init
      <4>2. QED
        BY <2>3, <4>1, OverviewReads, TablesOf
    <3>2. QED
      BY <2>3, <3>1 DEF Init, Rows, NoRows
  <2>4. QED
    BY <2>1, <2>2, <2>3 DEF FetchInv, OwesInv, OverviewInv, Init
<1>2. TypeOK /\ OwesInv /\ OverviewInv => OwnChangesShown
  BY DEF TypeOK, OwesInv, Owes, OverviewInv, OwnChangesShown
<1>3. QED
  BY <1>1, <1>2, PagesTypeStep, FetchStep, OverviewStep, OwesStep, PTL DEF Spec

\* The pages among the console's parts: an operator's own change is shown once nothing is awaited, but
\* for the named exceptions (the onSuccess handlers of the pages, MerchantService.overview).
THEOREM PagesShowOwnChangesHolds == ConsoleSpec => []PagesShowOwnChanges
<1>1. [ConsoleNext]_allVars => part' = part
  BY DEF ConsoleNext, allVars, Moves
<1>2. ConsoleInit /\ part = "pages" => Init
  BY DEF ConsoleInit
<1>3. [ConsoleNext]_allVars /\ part = "pages" => [Next]_vars
  BY DEF ConsoleNext, allVars, Moves
<1>4. Spec => [](TypeOK /\ OwnChangesShown)
  BY PagesSafety, ConstantsAssumption DEF ConstantsAssumption
<1>5. part = "pages" /\ part' = part => (part = "pages")'
  OBVIOUS
<1>6. part # "pages" /\ part' = part => (part # "pages")'
  OBVIOUS
<1>7. (part # "pages" => PagesShowOwnChanges) /\ (TypeOK /\ OwnChangesShown => PagesShowOwnChanges)
  BY DEF PagesShowOwnChanges
<1>8. part = "pages" \/ part # "pages"
  OBVIOUS
<1>9. QED
  BY <1>1, <1>2, <1>3, <1>4, <1>5, <1>6, <1>7, <1>8, PTL DEF ConsoleSpec, Spec

-----------------------------------------------------------------------------
(* The directory: the order of a table's rows.                             *)

Row == [shop : Stores, status : {"active", "uninstalled"}, plan : Int, words : SUBSET DOMAIN Matches]
Sorts == [field : Directory!Fields \cup {"none"}, desc : BOOLEAN]

\* The rows of a table are of different shops.
Table(t) == t \in Seq(Row) /\ \A i, j \in DOMAIN t : t[i].shop = t[j].shop => i = j

\* A set of natural numbers has a least one.
LEMMA LeastNatural == ASSUME NEW T, T \subseteq Nat, T # {} PROVE \E m \in T : \A k \in T : m <= k
<1>1. PICK m \in T : \A k \in T : <<k, m>> \notin OpToRel(<, Nat)
  BY NatLessThanWellFounded, WFMin
<1>2. \A k \in T : ~(k < m)
  BY <1>1 DEF OpToRel
<1>3. QED
  BY <1>2

\* Two definitions of a cardinality are one.
LEMMA SameCardinality == \A S : Directory!Cardinality(S) = Cardinality(S)
BY DEF Directory!Cardinality, Cardinality

\* Who has fewer before them comes first, and every number of a finite order has its element.
LEMMA Ranks ==
  ASSUME NEW M, IsFiniteSet(M), NEW B \in [M -> SUBSET M],
         \A i \in M : i \notin B[i],
         \A i, j, k \in M : j \in B[i] /\ k \in B[j] => k \in B[i],
         \A i, j \in M : i # j => i \in B[j] \/ j \in B[i]
  PROVE  /\ Cardinality(M) \in Nat
         /\ \A i \in M : 1 + Cardinality(B[i]) \in 1 .. Cardinality(M)
         /\ \A i, j \in M : j \in B[i] => Cardinality(B[j]) < Cardinality(B[i])
         /\ \A n \in 1 .. Cardinality(M) : \E i \in M : 1 + Cardinality(B[i]) = n
<1>1. \A i \in M : IsFiniteSet(B[i]) /\ Cardinality(B[i]) \in Nat /\ Cardinality(M) \in Nat
                   /\ Cardinality(B[i]) <= Cardinality(M) /\ Cardinality(B[i]) # Cardinality(M)
  BY FS_Subset, FS_CardinalityType
<1>2. Cardinality(M) \in Nat
  BY FS_CardinalityType
<1>3. ASSUME NEW i \in M, NEW j \in M, j \in B[i] PROVE Cardinality(B[j]) < Cardinality(B[i])
  <2>1. B[j] \in SUBSET B[i] /\ B[j] # B[i]
    BY <1>3
  <2>2. Cardinality(B[j]) <= Cardinality(B[i]) /\ Cardinality(B[j]) # Cardinality(B[i])
    BY <1>1, <2>1, FS_Subset
  <2>3. QED
    BY <1>1, <2>2
<1>. DEFINE f == [i \in M |-> 1 + Cardinality(B[i])]
<1>4. \A i \in M : 1 + Cardinality(B[i]) \in 1 .. Cardinality(M)
  BY <1>1, <1>2
<1>5. f \in [M -> 1 .. Cardinality(M)]
  BY <1>4
<1>6. \A i, j \in M : i # j => f[i] # f[j]
  BY <1>1, <1>3
<1>7. f \in Injection(M, 1 .. Cardinality(M))
  BY <1>5, <1>6 DEF Injection, IsInjective
<1>8. IsFiniteSet(1 .. Cardinality(M)) /\ Cardinality(1 .. Cardinality(M)) = Cardinality(M)
  BY <1>2, FS_Interval
<1>9. f \in Surjection(M, 1 .. Cardinality(M))
  BY <1>7, <1>8, FS_Injection
<1>10. \A n \in 1 .. Cardinality(M) : \E i \in M : f[i] = n
  BY <1>9 DEF Surjection
<1>11. QED
  BY <1>2, <1>3, <1>4, <1>10

\* What a row is compared by is a number.
LEMMA Comparable ==
  ASSUME Directory!Paged, NEW row \in Row, NEW field
  PROVE  Directory!Compare(field, row) \in Int
<1>1. row.shop \in Stores /\ Stores \subseteq Int /\ row.plan \in Int
  BY DEF Directory!Paged, Row
<1>2. CASE field = "plan"
  BY <1>1, <1>2 DEF Directory!Compare
<1>3. CASE field = "status"
  BY <1>3 DEF Directory!Compare
<1>4. CASE field # "plan" /\ field # "status"
  BY <1>1, <1>4 DEF Directory!Compare
<1>5. QED
  BY <1>2, <1>3, <1>4

\* Rows come before each other in one strict order.
LEMMA BeforeOrders ==
  ASSUME Directory!Paged, NEW t, Table(t), NEW sort \in Sorts
  PROVE  /\ \A i \in DOMAIN t : ~Directory!Before(t, sort, i, i)
         /\ \A i, j, k \in DOMAIN t :
              Directory!Before(t, sort, k, j) /\ Directory!Before(t, sort, j, i) => Directory!Before(t, sort, k, i)
         /\ \A i, j \in DOMAIN t : i # j => Directory!Before(t, sort, i, j) \/ Directory!Before(t, sort, j, i)
<1>1. PICK field : field = IF sort.field = "none" THEN "installDate" ELSE sort.field
  OBVIOUS
<1>2. PICK up \in BOOLEAN : up <=> sort.field # "none" /\ ~sort.desc
  OBVIOUS
<1>3. DOMAIN t = 1 .. Len(t) /\ Len(t) \in Nat
  BY LenProperties DEF Table
<1>4. \A i \in DOMAIN t : t[i] \in Row
  BY <1>3, ElementOfSeq DEF Table
<1>5. PICK v : v = [i \in DOMAIN t |-> Directory!Compare(field, t[i])]
  OBVIOUS
<1>6. \A i \in DOMAIN t : v[i] \in Int /\ i \in Int
  BY <1>3, <1>4, <1>5, Comparable
<1>7. \A i, j \in DOMAIN t : Directory!Before(t, sort, i, j) <=> IF v[i] = v[j] THEN i < j ELSE IF up THEN v[i] < v[j] ELSE v[i] > v[j]
  BY <1>1, <1>2, <1>5 DEF Directory!Before
<1>8. QED
  BY <1>6, <1>7

\* The rows that match are a finite number of the table's.
LEMMA MatchingCounts ==
  ASSUME NEW t, Table(t), NEW search
  PROVE  /\ IsFiniteSet(Directory!Matching(t, search))
         /\ Directory!Matching(t, search) \subseteq DOMAIN t
         /\ Cardinality(Directory!Matching(t, search)) \in Nat
<1>1. DOMAIN t = 1 .. Len(t) /\ Len(t) \in Nat
  BY LenProperties DEF Table
<1>2. IsFiniteSet(DOMAIN t) /\ Directory!Matching(t, search) \in SUBSET DOMAIN t
  BY <1>1, FS_Interval DEF Directory!Matching
<1>3. IsFiniteSet(Directory!Matching(t, search))
  BY <1>2, FS_Subset
<1>4. QED
  BY <1>2, <1>3, FS_CardinalityType

\* The rows that match have their places, from the first to the last, in their order.
LEMMA Places ==
  ASSUME Directory!Paged, NEW t, Table(t), NEW search \in DOMAIN Matches, NEW sort \in Sorts
  PROVE  \E p \in [1 .. Cardinality(Directory!Matching(t, search)) -> Directory!Matching(t, search)] :
           /\ \A n \in DOMAIN p : Directory!Nth(t, search, sort, n) = t[p[n]]
           /\ \A m, n \in DOMAIN p : m < n => Directory!Before(t, sort, p[m], p[n])
           /\ \A m, n \in DOMAIN p : p[m] = p[n] => m = n
           /\ \A i \in Directory!Matching(t, search) : \E n \in DOMAIN p : p[n] = i
<1>1. PICK M : M = Directory!Matching(t, search)
  OBVIOUS
<1>. DEFINE B == [i \in M |-> {j \in M : Directory!Before(t, sort, j, i)}]
<1>2. IsFiniteSet(M) /\ M \subseteq DOMAIN t /\ Cardinality(M) \in Nat
  BY <1>1, MatchingCounts
<1>3. \A i \in M : Directory!Rank(t, search, sort, i) = 1 + Cardinality(B[i])
  BY <1>1, SameCardinality DEF Directory!Rank
<1>4. /\ \A i \in M : i \notin B[i]
      /\ \A i, j, k \in M : j \in B[i] /\ k \in B[j] => k \in B[i]
      /\ \A i, j \in M : i # j => i \in B[j] \/ j \in B[i]
  BY <1>2, BeforeOrders
<1>5. B \in [M -> SUBSET M]
  OBVIOUS
<1>6. \A i, j \in M : j \in B[i] <=> Directory!Before(t, sort, j, i)
  OBVIOUS
<1>. HIDE DEF B
<1>7. /\ \A i \in M : 1 + Cardinality(B[i]) \in 1 .. Cardinality(M)
      /\ \A i, j \in M : j \in B[i] => Cardinality(B[j]) < Cardinality(B[i])
      /\ \A n \in 1 .. Cardinality(M) : \E i \in M : 1 + Cardinality(B[i]) = n
  BY <1>2, <1>4, <1>5, Ranks
<1>8. PICK r : r = [i \in M |-> Directory!Rank(t, search, sort, i)]
  OBVIOUS
<1>9. /\ \A i \in M : r[i] = Directory!Rank(t, search, sort, i) /\ r[i] \in 1 .. Cardinality(M)
      /\ \A n \in 1 .. Cardinality(M) : \E i \in M : r[i] = n
  BY <1>3, <1>7, <1>8
<1>10. \A i, j \in M : Directory!Before(t, sort, j, i) => r[j] < r[i]
  <2>1. \A i \in M : Cardinality(B[i]) \in Int /\ r[i] = 1 + Cardinality(B[i])
    <3>1. \A i \in M : IsFiniteSet(B[i])
      BY <1>2, <1>5, FS_Subset
    <3>2. QED
      BY <3>1, <1>3, <1>9, FS_CardinalityType
  <2>2. QED
    BY <2>1, <1>6, <1>7
<1>11. \A i, j \in M : i # j => r[i] # r[j]
  <2>1. \A i, j \in M : i # j => Directory!Before(t, sort, i, j) \/ Directory!Before(t, sort, j, i)
    BY <1>2, BeforeOrders
  <2>2. \A i \in M : r[i] \in Int
    BY <1>2, <1>9
  <2>3. QED
    BY <1>10, <2>1, <2>2
<1>. DEFINE p == [n \in 1 .. Cardinality(M) |-> CHOOSE i \in M : Directory!Rank(t, search, sort, i) = n]
<1>12. ASSUME NEW n \in 1 .. Cardinality(M) PROVE p[n] \in M /\ r[p[n]] = n /\ Directory!Nth(t, search, sort, n) = t[p[n]]
  <2>1. \E i \in M : Directory!Rank(t, search, sort, i) = n
    BY <1>9
  <2>2. p[n] \in M /\ Directory!Rank(t, search, sort, p[n]) = n
    BY <2>1
  <2>3. Directory!Nth(t, search, sort, n) = t[p[n]]
    BY <1>1 DEF Directory!Nth
  <2>4. QED
    BY <1>9, <2>2, <2>3
<1>13. p \in [1 .. Cardinality(M) -> M]
  BY <1>12
<1>14. PICK e : e = p
  OBVIOUS
<1>15. /\ e \in [1 .. Cardinality(M) -> M]
       /\ \A n \in 1 .. Cardinality(M) : e[n] \in M /\ r[e[n]] = n /\ Directory!Nth(t, search, sort, n) = t[e[n]]
  BY <1>12, <1>13, <1>14
<1>. HIDE DEF p
<1>16. \A m, n \in 1 .. Cardinality(M) : e[m] = e[n] => m = n
  BY <1>15
<1>17. ASSUME NEW m \in 1 .. Cardinality(M), NEW n \in 1 .. Cardinality(M), m < n
       PROVE  Directory!Before(t, sort, e[m], e[n])
  <2>1. e[m] \in M /\ e[n] \in M /\ e[m] # e[n] /\ ~(r[e[n]] < r[e[m]])
    BY <1>2, <1>15, <1>17
  <2>2. Directory!Before(t, sort, e[m], e[n]) \/ Directory!Before(t, sort, e[n], e[m])
    BY <1>2, <2>1, BeforeOrders
  <2>3. QED
    BY <1>10, <2>1, <2>2
<1>18. ASSUME NEW i \in M PROVE \E n \in 1 .. Cardinality(M) : e[n] = i
  <2>1. r[i] \in 1 .. Cardinality(M)
    BY <1>9
  <2>2. e[r[i]] \in M /\ r[e[r[i]]] = r[i]
    BY <1>15, <2>1
  <2>3. e[r[i]] = i
    BY <1>11, <2>2
  <2>4. QED
    BY <2>1, <2>3
<1>19. DOMAIN e = 1 .. Cardinality(M)
  BY <1>15
<1>20. e \in [1 .. Cardinality(Directory!Matching(t, search)) -> Directory!Matching(t, search)]
  BY <1>1, <1>15
<1>21. /\ \A n \in DOMAIN e : Directory!Nth(t, search, sort, n) = t[e[n]]
       /\ \A m, n \in DOMAIN e : m < n => Directory!Before(t, sort, e[m], e[n])
       /\ \A m, n \in DOMAIN e : e[m] = e[n] => m = n
       /\ \A i \in Directory!Matching(t, search) : \E n \in DOMAIN e : e[n] = i
  BY <1>1, <1>15, <1>16, <1>17, <1>18, <1>19
<1>22. QED
  BY <1>20, <1>21

-----------------------------------------------------------------------------
(* The directory: pages.                                                   *)

Searches == [search : DOMAIN Matches, sort : Sorts, page : Nat \ {0}, size : PageSizes]

\* A page of a table.
PageOf(t, v, q) ==
  LET total == Cardinality(Directory!Matching(t, q.search))
      start == (q.page - 1) * q.size
      end == IF start + q.size < total THEN start + q.size ELSE total IN
    [rows |-> [n \in 1..(end - start) |-> Directory!Nth(t, q.search, q.sort, start + n)],
     total |-> total, version |-> v]

\* So many rows, from a place on.
RowsFrom(t, q, start, len) == [n \in 1 .. len |-> Directory!Nth(t, q.search, q.sort, start + n)]

\* An answer has as many rows as its page has, in their order.
SoundAnswer(q, a) ==
  /\ a.total \in Nat
  /\ \E len \in Nat :
       /\ DOMAIN a.rows = 1 .. len
       /\ a.rows \in Seq(Row)
       /\ len = IF a.total <= (q.page - 1) * q.size THEN 0 ELSE
                IF q.page * q.size < a.total THEN q.size ELSE a.total - (q.page - 1) * q.size
  /\ \A f \in Directory!Fields, i, j \in DOMAIN a.rows :
       i < j /\ q.sort.field = f =>
         IF q.sort.desc THEN Directory!Compare(f, a.rows[i]) >= Directory!Compare(f, a.rows[j])
         ELSE Directory!Compare(f, a.rows[i]) <= Directory!Compare(f, a.rows[j])

\* The pages are whole: no shop twice, none that does not match, and all of them at the end.
Whole(w, search, size) ==
  w # <<>> /\ (\A i \in DOMAIN w : w[i].version = w[1].version) =>
    /\ \A i, j \in DOMAIN w : \A m \in DOMAIN w[i].rows, n \in DOMAIN w[j].rows :
         w[i].rows[m].shop = w[j].rows[n].shop => i = j /\ m = n
    /\ \A i \in DOMAIN w : \A m \in DOMAIN w[i].rows : Directory!Meets(w[i].rows[m], search)
    /\ Len(w) = (w[1].total + size - 1) \div size =>
         Directory!Cardinality(UNION {Directory!Range(w[i].rows) : i \in DOMAIN w}) = w[1].total

\* Where pages begin.
LEMMA Starts == \A s \in Nat \ {0} : \A i, j \in Nat : i * s \in Nat /\ (i < j => i * s + s <= j * s)
OBVIOUS

\* A number and its page.
LEMMA PageOfNumber ==
  ASSUME NEW s \in Nat \ {0}, NEW n \in Nat \ {0}
  PROVE  \E i \in Nat \ {0} : (i - 1) * s < n /\ n <= (i - 1) * s + s
<1>1. PICK k \in Nat : k * s <= n - 1 /\ n - 1 < k * s + s
  <2>1. (n - 1) \div s \in Nat /\ s * ((n - 1) \div s) <= n - 1 /\ n - 1 < s * ((n - 1) \div s) + s
    OBVIOUS
  <2>2. PICK k \in Nat : k = (n - 1) \div s
    BY <2>1
  <2>3. s * k = k * s
    OBVIOUS
  <2>4. QED
    BY <2>1, <2>2, <2>3
<1>2. k + 1 \in Nat \ {0} /\ k + 1 - 1 = k /\ k * s \in Nat
  BY <1>1
<1>3. k * s < n /\ n <= k * s + s
  BY <1>1, <1>2
<1>4. PICK i \in Nat \ {0} : i - 1 = k
  BY <1>2
<1>5. QED
  BY <1>3, <1>4

\* The rows of a page.
LEMMA PageRows ==
  ASSUME Directory!Paged, NEW t, Table(t), NEW v, NEW q \in Searches, NEW total, NEW start \in Nat,
         total = Cardinality(Directory!Matching(t, q.search)), start = (q.page - 1) * q.size
  PROVE  /\ total \in Nat
         /\ PageOf(t, v, q).total = total /\ PageOf(t, v, q).version = v
         /\ \E len \in Int :
              /\ len = IF start + q.size < total THEN q.size ELSE total - start
              /\ PageOf(t, v, q).rows = RowsFrom(t, q, start, len)
<1>1. q.size \in Nat /\ q.search \in DOMAIN Matches
  BY DEF Searches, Directory!Paged
<1>2. total \in Nat
  BY <1>1, MatchingCounts
<1>3. PICK end \in Int : end = IF start + q.size < total THEN start + q.size ELSE total
  BY <1>1, <1>2
<1>4. PageOf(t, v, q) = [rows |-> [n \in 1 .. (end - start) |-> Directory!Nth(t, q.search, q.sort, start + n)],
                         total |-> total, version |-> v]
  BY <1>3 DEF PageOf
<1>5. end - start \in Int /\ end - start = IF start + q.size < total THEN q.size ELSE total - start
  BY <1>1, <1>2, <1>3
<1>6. PICK len \in Int : len = end - start
  BY <1>5
<1>7. PageOf(t, v, q).rows = RowsFrom(t, q, start, len) /\ PageOf(t, v, q).total = total /\ PageOf(t, v, q).version = v
  BY <1>4, <1>6 DEF RowsFrom
<1>8. QED
  BY <1>2, <1>5, <1>6, <1>7

\* Rows in their order compare in their order.
LEMMA Sorted ==
  ASSUME Directory!Paged, NEW t, Table(t), NEW sort \in Sorts, NEW f \in Directory!Fields, sort.field = f,
         NEW i \in DOMAIN t, NEW j \in DOMAIN t, Directory!Before(t, sort, i, j)
  PROVE  IF sort.desc THEN Directory!Compare(f, t[i]) >= Directory!Compare(f, t[j])
         ELSE Directory!Compare(f, t[i]) <= Directory!Compare(f, t[j])
<1>1. t[i] \in Row /\ t[j] \in Row
  BY ElementOfSeq, LenProperties DEF Table
<1>2. PICK a, b : a = Directory!Compare(f, t[i]) /\ b = Directory!Compare(f, t[j])
  OBVIOUS
<1>3. a \in Int /\ b \in Int
  BY <1>1, <1>2, Comparable
<1>4. sort.field # "none"
  BY DEF Directory!Fields
<1>5. PICK desc \in BOOLEAN : desc <=> sort.desc
  OBVIOUS
<1>6. IF a = b THEN i < j ELSE IF ~desc THEN a < b ELSE a > b
  BY <1>2, <1>4, <1>5 DEF Directory!Before
<1>7. IF desc THEN a >= b ELSE a <= b
  BY <1>3, <1>6
<1>8. QED
  BY <1>2, <1>5, <1>7

\* Each page is answered as it should be; one beyond the last has no rows.
LEMMA PagesAreSound ==
  ASSUME Directory!Paged, NEW t, Table(t), NEW v, NEW q \in Searches
  PROVE  SoundAnswer(q, PageOf(t, v, q))
<1>1. PICK total : total = Cardinality(Directory!Matching(t, q.search))
  OBVIOUS
<1>2. /\ q.size \in Nat \ {0} /\ q.search \in DOMAIN Matches /\ q.page - 1 \in Nat /\ q.page \in Nat /\ q.sort \in Sorts
  <2>1. /\ q.size \in PageSizes /\ q.search \in DOMAIN Matches /\ q.page \in Nat \ {0} /\ q.sort \in Sorts
    BY DEF Searches
  <2>2. PageSizes \subseteq Nat \ {0}
    BY DEF Directory!Paged
  <2>3. PICK n \in Nat \ {0} : n = q.page
    BY <2>1
  <2>4. n - 1 \in Nat
    OBVIOUS
  <2>5. QED
    BY <2>1, <2>2, <2>3, <2>4
<1>3. PICK start \in Nat : start = (q.page - 1) * q.size
  BY <1>2
<1>4. q.page * q.size = start + q.size
  BY <1>2, <1>3
<1>5. PICK all \in Int :
        /\ all = IF start + q.size < total THEN q.size ELSE total - start
        /\ PageOf(t, v, q).rows = RowsFrom(t, q, start, all)
  BY <1>1, <1>3, PageRows
<1>6. total \in Nat /\ PageOf(t, v, q).total = total
  BY <1>1, <1>3, PageRows
<1>7. PICK len \in Nat : /\ len = IF total <= start THEN 0 ELSE IF start + q.size < total THEN q.size ELSE total - start
                         /\ 1 .. all = 1 .. len
  <2>1. CASE total <= start
    <3>1. all \in Int /\ all <= 0
      BY <1>2, <1>5, <1>6, <2>1
    <3>2. 1 .. all = 1 .. 0
      BY <3>1
    <3>3. QED
      BY <2>1, <3>2
  <2>2. CASE ~(total <= start)
    <3>1. all \in Nat
      BY <1>2, <1>5, <1>6, <2>2
    <3>2. QED
      BY <1>5, <2>2, <3>1
  <2>3. QED
    BY <2>1, <2>2
<1>8. PageOf(t, v, q).rows = RowsFrom(t, q, start, len)
  BY <1>5, <1>7 DEF RowsFrom
<1>9. len = 0 \/ start + len <= total
  BY <1>2, <1>6, <1>7
<1>10. PICK p \in [1 .. total -> Directory!Matching(t, q.search)] :
         /\ \A n \in DOMAIN p : Directory!Nth(t, q.search, q.sort, n) = t[p[n]]
         /\ \A m, n \in DOMAIN p : m < n => Directory!Before(t, q.sort, p[m], p[n])
  BY <1>1, <1>2, Places
<1>11. PICK found : found = PageOf(t, v, q).rows
  OBVIOUS
<1>12. DOMAIN found = 1 .. len
  BY <1>8, <1>11 DEF RowsFrom
<1>13. ASSUME NEW n \in 1 .. len
       PROVE  start + n \in 1 .. total /\ found[n] = t[p[start + n]] /\ p[start + n] \in DOMAIN t
  <2>1. start + n \in 1 .. total
    BY <1>6, <1>9
  <2>2. found[n] = Directory!Nth(t, q.search, q.sort, start + n)
    BY <1>8, <1>11 DEF RowsFrom
  <2>3. p[start + n] \in DOMAIN t
    BY <1>2, <1>10, <2>1, MatchingCounts
  <2>4. QED
    BY <1>10, <2>1, <2>2, <2>3
<1>14. found \in Seq(Row)
  <2>1. \A n \in 1 .. len : found[n] \in Row
    <3>1. \A i \in DOMAIN t : t[i] \in Row
      BY ElementOfSeq, LenProperties DEF Table
    <3>2. QED
      BY <1>13, <3>1
  <2>2. found = [n \in 1 .. len |-> found[n]]
    BY <1>8, <1>11 DEF RowsFrom
  <2>3. QED
    BY <2>1, <2>2, IsASeq
<1>15. ASSUME NEW f \in Directory!Fields, NEW i \in DOMAIN found, NEW j \in DOMAIN found, i < j, q.sort.field = f
       PROVE  IF q.sort.desc THEN Directory!Compare(f, found[i]) >= Directory!Compare(f, found[j])
              ELSE Directory!Compare(f, found[i]) <= Directory!Compare(f, found[j])
  <2>1. start + i \in 1 .. total /\ start + j \in 1 .. total /\ start + i < start + j
    BY <1>12, <1>13, <1>15
  <2>2. Directory!Before(t, q.sort, p[start + i], p[start + j])
    BY <1>10, <2>1
  <2>3. /\ found[i] = t[p[start + i]] /\ p[start + i] \in DOMAIN t
        /\ found[j] = t[p[start + j]] /\ p[start + j] \in DOMAIN t
    BY <1>12, <1>13
  <2>4. QED
    BY <1>2, <1>15, <2>2, <2>3, Sorted
<1>16. \E n \in Nat :
       /\ DOMAIN found = 1 .. n
       /\ found \in Seq(Row)
       /\ n = IF total <= (q.page - 1) * q.size THEN 0 ELSE
                IF q.page * q.size < total THEN q.size ELSE total - (q.page - 1) * q.size
  BY <1>3, <1>4, <1>7, <1>12, <1>14
<1>17. QED
  BY <1>6, <1>11, <1>15, <1>16 DEF SoundAnswer

\* The pages of one table are whole.
LEMMA PagesAreWhole ==
  ASSUME Directory!Paged, NEW t, Table(t), NEW v, NEW q \in Searches, NEW L \in Nat, NEW w,
         DOMAIN w = 1 .. L, Len(w) = L,
         \A i \in 1 .. L : w[i] = PageOf(t, v, [search |-> q.search, sort |-> q.sort, page |-> i, size |-> q.size])
  PROVE  Whole(w, q.search, q.size)
<1>1. PICK total : total = Cardinality(Directory!Matching(t, q.search))
  OBVIOUS
<1>2. PICK s \in Nat \ {0} : s = q.size
  BY DEF Searches, Directory!Paged
<1>3. PICK search \in DOMAIN Matches : search = q.search
  BY DEF Searches
<1>4. PICK sort \in Sorts : sort = q.sort
  BY DEF Searches
<1>5. total \in Nat
  BY <1>1, <1>3, MatchingCounts
<1>6. PICK p \in [1 .. total -> Directory!Matching(t, search)] :
        /\ \A n \in DOMAIN p : Directory!Nth(t, search, sort, n) = t[p[n]]
        /\ \A m, n \in DOMAIN p : p[m] = p[n] => m = n
  <2>1. \E p \in [1 .. Cardinality(Directory!Matching(t, search)) -> Directory!Matching(t, search)] :
          /\ \A n \in DOMAIN p : Directory!Nth(t, search, sort, n) = t[p[n]]
          /\ \A m, n \in DOMAIN p : m < n => Directory!Before(t, sort, p[m], p[n])
          /\ \A m, n \in DOMAIN p : p[m] = p[n] => m = n
          /\ \A i \in Directory!Matching(t, search) : \E n \in DOMAIN p : p[n] = i
    BY Places
  <2>2. QED
    BY <1>1, <1>3, <2>1
<1>7. Directory!Matching(t, search) \subseteq DOMAIN t
  BY MatchingCounts
<1>8. PICK g : g = [n \in 1 .. total |-> t[p[n]]]
  OBVIOUS
<1>9. /\ \A n \in 1 .. total : g[n] = Directory!Nth(t, search, sort, n) /\ Directory!Meets(g[n], search)
      /\ \A m, n \in 1 .. total : g[m].shop = g[n].shop => m = n
  <2>1. \A n \in 1 .. total : g[n] = t[p[n]] /\ p[n] \in DOMAIN t /\ p[n] \in Directory!Matching(t, search)
    BY <1>6, <1>7, <1>8
  <2>2. \A i, j \in DOMAIN t : t[i].shop = t[j].shop => i = j
    BY DEF Table
  <2>3. \A i \in Directory!Matching(t, search) : Directory!Meets(t[i], search)
    BY DEF Directory!Matching
  <2>4. DOMAIN p = 1 .. total
    BY <1>6
  <2>5. \A m, n \in 1 .. total : g[m].shop = g[n].shop => m = n
    BY <1>6, <2>1, <2>2, <2>4
  <2>6. QED
    BY <1>6, <2>1, <2>3, <2>4, <2>5
<1>10. ASSUME NEW i \in 1 .. L
       PROVE  /\ (i - 1) * s \in Nat /\ w[i].total = total
              /\ \A m \in DOMAIN w[i].rows :
                   m \in 1 .. s /\ (i - 1) * s + m \in 1 .. total /\ w[i].rows[m] = g[(i - 1) * s + m]
              /\ \A m \in 1 .. s : (i - 1) * s + m <= total => m \in DOMAIN w[i].rows
  <2>1. PICK r : r = [search |-> search, sort |-> sort, page |-> i, size |-> s]
    OBVIOUS
  <2>2. r \in Searches /\ r.search = search /\ r.sort = sort /\ r.page = i /\ r.size = s /\ w[i] = PageOf(t, v, r)
    BY <1>2, <1>3, <1>4, <2>1 DEF Searches
  <2>3. i - 1 \in Nat
    OBVIOUS
  <2>4. PICK start \in Nat : start = (i - 1) * s
    BY <2>3
  <2>5. PICK len \in Int :
          /\ len = IF start + r.size < total THEN r.size ELSE total - start
          /\ PageOf(t, v, r).rows = RowsFrom(t, r, start, len)
          /\ PageOf(t, v, r).total = total
    <3>1. total = Cardinality(Directory!Matching(t, r.search)) /\ start = (r.page - 1) * r.size
      BY <1>1, <1>3, <2>2, <2>4
    <3>2. PageOf(t, v, r).total = total
      BY <2>2, <3>1, PageRows
    <3>3. \E len \in Int :
            /\ len = IF start + r.size < total THEN r.size ELSE total - start
            /\ PageOf(t, v, r).rows = RowsFrom(t, r, start, len)
      <4>1. r \in Searches
        BY <2>2
      <4>. HIDE <2>2
      <4>2. QED
        BY <3>1, <4>1, PageRows
    <3>4. QED
      BY <3>2, <3>3
  <2>6. len = IF start + s < total THEN s ELSE total - start
    BY <2>2, <2>5
  <2>7. w[i].rows = RowsFrom(t, r, start, len) /\ w[i].total = total
    BY <2>2, <2>5
  <2>8. DOMAIN w[i].rows = 1 .. len /\ \A m \in 1 .. len : w[i].rows[m] = Directory!Nth(t, search, sort, start + m)
    BY <2>2, <2>7 DEF RowsFrom
  <2>9. \A m \in 1 .. len : m \in 1 .. s /\ start + m \in 1 .. total
    BY <1>5, <2>6
  <2>10. \A m \in 1 .. s : start + m <= total => m \in 1 .. len
    BY <1>5, <2>6
  <2>11. QED
    BY <1>9, <2>4, <2>7, <2>8, <2>9, <2>10
<1>11. ASSUME NEW i \in 1 .. L, NEW j \in 1 .. L, NEW m \in 1 .. s, NEW n \in 1 .. s, (i - 1) * s + m = (j - 1) * s + n
       PROVE  i = j /\ m = n
  <2>1. PICK a \in Nat, b \in Nat : a = i - 1 /\ b = j - 1
    OBVIOUS
  <2>2. a * s + m = b * s + n
    BY <1>11, <2>1
  <2>3. a * s \in Nat /\ b * s \in Nat /\ (a < b => a * s + s <= b * s) /\ (b < a => b * s + s <= a * s)
    BY Starts
  <2>4. a = b
    BY <2>2, <2>3
  <2>5. QED
    BY <2>1, <2>2, <2>3, <2>4
<1>12. ASSUME NEW i \in 1 .. L, NEW j \in 1 .. L, NEW m \in DOMAIN w[i].rows, NEW n \in DOMAIN w[j].rows,
              w[i].rows[m].shop = w[j].rows[n].shop
       PROVE  i = j /\ m = n
  <2>1. m \in 1 .. s /\ (i - 1) * s + m \in 1 .. total /\ w[i].rows[m] = g[(i - 1) * s + m]
    BY <1>10
  <2>2. n \in 1 .. s /\ (j - 1) * s + n \in 1 .. total /\ w[j].rows[n] = g[(j - 1) * s + n]
    BY <1>10
  <2>3. (i - 1) * s + m = (j - 1) * s + n
    BY <1>9, <1>12, <2>1, <2>2
  <2>4. QED
    BY <1>11, <2>1, <2>2, <2>3
<1>13. ASSUME NEW i \in 1 .. L, NEW m \in DOMAIN w[i].rows PROVE Directory!Meets(w[i].rows[m], search)
  <2>1. (i - 1) * s + m \in 1 .. total /\ w[i].rows[m] = g[(i - 1) * s + m]
    BY <1>10
  <2>2. QED
    BY <1>9, <2>1
<1>14. ASSUME L # 0, L = (total + s - 1) \div s
       PROVE  Cardinality(UNION {Directory!Range(w[i].rows) : i \in 1 .. L}) = total
  <2>1. total <= L * s
    <3>1. total + s - 1 \in Nat
      BY <1>5
    <3>2. (total + s - 1) < s * ((total + s - 1) \div s) + s
      BY <3>1
    <3>3. s * L = L * s /\ L * s \in Nat
      OBVIOUS
    <3>4. QED
      BY <1>5, <1>14, <3>2, <3>3
  <2>. DEFINE U == UNION {Directory!Range(w[i].rows) : i \in 1 .. L}
  <2>2. \A x \in U : \E n \in 1 .. total : g[n] = x
    <3>1. SUFFICES ASSUME NEW i \in 1 .. L, NEW x \in Directory!Range(w[i].rows) PROVE \E n \in 1 .. total : g[n] = x
      OBVIOUS
    <3>2. PICK m \in DOMAIN w[i].rows : x = w[i].rows[m]
      BY DEF Directory!Range
    <3>3. QED
      BY <1>10, <3>2
  <2>3. ASSUME NEW n \in 1 .. total PROVE g[n] \in U
    <3>1. PICK i \in Nat \ {0} : (i - 1) * s < n /\ n <= (i - 1) * s + s
      <4>1. n \in Nat \ {0}
        BY <1>5
      <4>2. QED
        BY <4>1, PageOfNumber
    <3>2. PICK a \in Nat : a = i - 1
      BY <3>1
    <3>3. a < L
      <4>1. a * s \in Nat /\ (L < a => L * s + s <= a * s) /\ L * s \in Nat
        BY Starts
      <4>2. a * s < n
        BY <3>1, <3>2
      <4>3. a # L
        BY <1>5, <2>1, <4>1, <4>2
      <4>4. QED
        BY <1>5, <2>1, <4>1, <4>2, <4>3
    <3>4. i \in 1 .. L
      BY <3>1, <3>2, <3>3
    <3>5. (i - 1) * s \in Nat
      BY <1>10, <3>4
    <3>6. PICK m \in 1 .. s : m = n - (i - 1) * s
      BY <3>1, <3>5
    <3>7. (i - 1) * s + m = n
      BY <3>5, <3>6
    <3>8. m \in DOMAIN w[i].rows /\ w[i].rows[m] = g[n]
      BY <1>5, <1>10, <3>4, <3>7
    <3>9. g[n] \in Directory!Range(w[i].rows)
      BY <3>8 DEF Directory!Range
    <3>10. QED
      BY <3>4, <3>9
  <2>. HIDE DEF U
  <2>4. g \in Bijection(1 .. total, U)
    BY <1>8, <1>9, <2>2, <2>3 DEF Bijection, Injection, Surjection, IsInjective
  <2>5. ExistsBijection(1 .. total, U)
    BY <2>4 DEF ExistsBijection
  <2>6. IsFiniteSet(1 .. total) /\ Cardinality(1 .. total) = total
    BY <1>5, FS_Interval
  <2>7. Cardinality(U) = total
    BY <2>5, <2>6, FS_Bijection
  <2>8. QED
    BY <2>7 DEF U
<1>15. CASE L = 0
  BY <1>15 DEF Whole
<1>16. CASE L # 0
  <2>1. w[1].total = total
    BY <1>10, <1>16
  <2>2. QED
    BY <1>2, <1>3, <1>12, <1>13, <1>14, <1>16, <2>1, SameCardinality DEF Whole
<1>17. QED
  BY <1>15, <1>16

-----------------------------------------------------------------------------
(* The directory: the table.                                               *)

\* The shops of a table.
Listed(t) == {t[i].shop : i \in DOMAIN t}

\* A row as it comes is one of a table's.
LEMMA RowsOfShops == ASSUME Directory!Paged, NEW s \in Stores PROVE Directory!Row(s) \in Row /\ Directory!Row(s).shop = s
BY DEF Directory!Paged, Directory!Row, Row

\* A table at first.
LEMMA FirstTable ==
  ASSUME Directory!Paged, NEW S, S \subseteq Stores, IsFiniteSet(S)
  PROVE  Table(Directory!SetToSeq({Directory!Row(s) : s \in S}))
<1>. DEFINE R == {Directory!Row(s) : s \in S}
            f == [s \in S |-> Directory!Row(s)]
<1>1. \A s \in S : Directory!Row(s) \in Row /\ Directory!Row(s).shop = s
  BY RowsOfShops
<1>2. f \in Bijection(S, R)
  BY <1>1 DEF Bijection, Injection, Surjection, IsInjective
<1>3. IsFiniteSet(R)
  BY <1>2, FS_Bijection DEF ExistsBijection
<1>4. R \subseteq Row /\ \A a, b \in R : a.shop = b.shop => a = b
  BY <1>1
<1>. HIDE DEF R
<1>5. Cardinality(R) \in Nat /\ \E g \in [1 .. Cardinality(R) -> R] : Directory!IsInjective(g)
  BY <1>3, FS_CardinalityType DEF ExistsBijection, Bijection, Injection, IsInjective, Directory!IsInjective
<1>6. PICK g : g = Directory!SetToSeq(R)
  OBVIOUS
<1>7. g \in [1 .. Cardinality(R) -> R] /\ Directory!IsInjective(g)
  BY <1>5, <1>6, SameCardinality DEF Directory!SetToSeq
<1>8. g \in Seq(Row)
  BY <1>4, <1>5, <1>7
<1>9. \A i, j \in DOMAIN g : g[i] = g[j] => i = j
  BY <1>7 DEF Directory!IsInjective
<1>10. Table(g)
  BY <1>4, <1>7, <1>8, <1>9 DEF Table
<1>11. QED
  BY <1>6, <1>10 DEF R

\* A table with one row more.
LEMMA LongerTable ==
  ASSUME NEW t, Table(t), NEW row \in Row, \A i \in DOMAIN t : t[i].shop # row.shop
  PROVE  Table(Append(t, row)) /\ Listed(t) \subseteq Listed(Append(t, row)) /\ Listed(Append(t, row)) = Listed(t) \cup {row.shop}
<1>1. t \in Seq(Row) /\ Len(t) \in Nat /\ DOMAIN t = 1 .. Len(t)
  BY LenProperties DEF Table
<1>2. PICK u : u = Append(t, row)
  OBVIOUS
<1>3. /\ u \in Seq(Row) /\ Len(u) = Len(t) + 1
      /\ \A i \in 1 .. Len(t) : u[i] = t[i]
      /\ u[Len(t) + 1] = row
  BY <1>1, <1>2, AppendProperties
<1>4. DOMAIN u = 1 .. Len(t) + 1
  BY <1>3, LenProperties
<1>5. \A i \in DOMAIN u : i \in DOMAIN t \/ i = Len(t) + 1
  BY <1>1, <1>4
<1>6. Table(u)
  BY <1>1, <1>3, <1>4, <1>5 DEF Table
<1>7. Listed(t) \subseteq Listed(u) /\ Listed(u) = Listed(t) \cup {row.shop}
  BY <1>1, <1>3, <1>4, <1>5 DEF Listed
<1>8. QED
  BY <1>2, <1>6, <1>7

\* A table without one of its rows.
LEMMA ShorterTable ==
  ASSUME NEW t, Table(t), NEW i \in DOMAIN t
  PROVE  /\ Table(Directory!RemoveAt(t, i))
         /\ Listed(Directory!RemoveAt(t, i)) = Listed(t) \ {t[i].shop}
<1>1. t \in Seq(Row) /\ Len(t) \in Nat /\ DOMAIN t = 1 .. Len(t) /\ i \in 1 .. Len(t)
  BY LenProperties DEF Table
<1>2. \A j \in 1 .. Len(t) : t[j] \in Row
  BY <1>1, ElementOfSeq
<1>3. PICK a, b : a = SubSeq(t, 1, i - 1) /\ b = SubSeq(t, i + 1, Len(t))
  OBVIOUS
<1>4. a \in Seq(Row) /\ Len(a) = i - 1 /\ \A j \in 1 .. i - 1 : a[j] = t[j]
  <2>1. 1 \in Int /\ i - 1 \in Int /\ \A j \in 1 .. i - 1 : t[j] \in Row
    BY <1>1, <1>2
  <2>2. /\ SubSeq(t, 1, i - 1) \in Seq(Row)
        /\ Len(SubSeq(t, 1, i - 1)) = IF 1 <= i - 1 THEN i - 1 - 1 + 1 ELSE 0
        /\ \A j \in 1 .. i - 1 - 1 + 1 : SubSeq(t, 1, i - 1)[j] = t[1 + j - 1]
    BY <2>1, SubSeqProperties
  <2>3. QED
    BY <1>1, <1>3, <2>2
<1>5. b \in Seq(Row) /\ Len(b) = Len(t) - i /\ \A j \in 1 .. Len(t) - i : b[j] = t[j + i]
  <2>1. i + 1 \in Int /\ Len(t) \in Int /\ \A j \in i + 1 .. Len(t) : t[j] \in Row
    BY <1>1, <1>2
  <2>2. /\ SubSeq(t, i + 1, Len(t)) \in Seq(Row)
        /\ Len(SubSeq(t, i + 1, Len(t))) = IF i + 1 <= Len(t) THEN Len(t) - (i + 1) + 1 ELSE 0
        /\ \A j \in 1 .. Len(t) - (i + 1) + 1 : SubSeq(t, i + 1, Len(t))[j] = t[i + 1 + j - 1]
    BY <2>1, SubSeqProperties
  <2>3. Len(t) - (i + 1) + 1 = Len(t) - i
    BY <1>1
  <2>4. Len(b) = Len(t) - i
    BY <1>1, <1>3, <2>2, <2>3
  <2>5. ASSUME NEW j \in 1 .. Len(t) - i PROVE b[j] = t[j + i]
    <3>1. j \in 1 .. Len(t) - (i + 1) + 1 /\ i + 1 + j - 1 = j + i
      BY <1>1
    <3>2. b[j] = t[i + 1 + j - 1]
      BY <1>3, <2>2, <3>1
    <3>3. QED
      BY <3>1, <3>2
  <2>6. QED
    BY <1>3, <2>2, <2>4, <2>5
<1>6. PICK u : u = a \o b
  OBVIOUS
<1>7. /\ u \in Seq(Row) /\ Len(u) = Len(t) - 1
      /\ \A j \in 1 .. Len(t) - 1 : u[j] = IF j <= i - 1 THEN a[j] ELSE b[j - (i - 1)]
  <2>1. /\ u \in Seq(Row) /\ Len(u) = Len(a) + Len(b)
        /\ \A j \in 1 .. Len(a) + Len(b) : u[j] = IF j <= Len(a) THEN a[j] ELSE b[j - Len(a)]
    BY <1>4, <1>5, <1>6, ConcatProperties
  <2>2. Len(a) + Len(b) = Len(t) - 1
    BY <1>1, <1>4, <1>5
  <2>3. QED
    BY <1>4, <2>1, <2>2
<1>8. DOMAIN u = 1 .. Len(t) - 1
  BY <1>7, LenProperties
<1>. DEFINE at(j) == IF j < i THEN j ELSE j + 1
<1>9. ASSUME NEW j \in 1 .. Len(t) - 1 PROVE at(j) \in 1 .. Len(t) /\ at(j) # i /\ u[j] = t[at(j)]
  <2>1. CASE j < i
    BY <1>1, <1>4, <1>7, <2>1
  <2>2. CASE ~(j < i)
    <3>1. j - (i - 1) \in 1 .. Len(t) - i /\ ~(j <= i - 1) /\ j - (i - 1) + i = j + 1
      BY <1>1, <2>2
    <3>2. u[j] = t[j + 1]
      BY <1>5, <1>7, <3>1
    <3>3. QED
      BY <1>1, <2>2, <3>2
  <2>3. QED
    BY <2>1, <2>2
<1>10. ASSUME NEW k \in 1 .. Len(t), k # i PROVE \E j \in 1 .. Len(t) - 1 : u[j] = t[k]
  <2>1. CASE k < i
    <3>1. k \in 1 .. Len(t) - 1 /\ at(k) = k
      BY <1>1, <2>1
    <3>2. QED
      BY <1>9, <3>1
  <2>2. CASE k > i
    <3>1. k - 1 \in 1 .. Len(t) - 1 /\ at(k - 1) = k
      BY <1>1, <2>2
    <3>2. QED
      BY <1>9, <3>1
  <2>3. QED
    BY <1>1, <1>10, <2>1, <2>2
<1>11. \A j, k \in 1 .. Len(t) - 1 : at(j) = at(k) => j = k
  BY <1>1
<1>. HIDE DEF at
<1>12. \A j, k \in 1 .. Len(t) : t[j].shop = t[k].shop => j = k
  BY <1>1 DEF Table
<1>13. Table(u)
  <2>1. ASSUME NEW j \in DOMAIN u, NEW k \in DOMAIN u, u[j].shop = u[k].shop PROVE j = k
    <3>1. u[j] = t[at(j)] /\ u[k] = t[at(k)] /\ at(j) \in 1 .. Len(t) /\ at(k) \in 1 .. Len(t)
      BY <1>8, <1>9
    <3>2. at(j) = at(k)
      BY <1>12, <2>1, <3>1
    <3>3. QED
      BY <1>8, <1>11, <3>2
  <2>2. QED
    BY <1>7, <2>1 DEF Table
<1>14. Listed(u) = Listed(t) \ {t[i].shop}
  <2>1. ASSUME NEW x \in Listed(u) PROVE x \in Listed(t) /\ x # t[i].shop
    <3>1. PICK j \in DOMAIN u : x = u[j].shop
      BY DEF Listed
    <3>2. u[j] = t[at(j)] /\ at(j) \in 1 .. Len(t) /\ at(j) # i
      BY <1>8, <1>9
    <3>3. QED
      BY <1>1, <1>12, <3>1, <3>2 DEF Listed
  <2>2. ASSUME NEW x \in Listed(t), x # t[i].shop PROVE x \in Listed(u)
    <3>1. PICK k \in 1 .. Len(t) : x = t[k].shop
      BY <1>1 DEF Listed
    <3>2. PICK j \in 1 .. Len(t) - 1 : u[j] = t[k]
      BY <1>10, <2>2, <3>1
    <3>3. QED
      BY <1>8, <3>1, <3>2 DEF Listed
  <2>3. QED
    BY <2>1, <2>2
<1>15. QED
  BY <1>3, <1>6, <1>13, <1>14 DEF Directory!RemoveAt

-----------------------------------------------------------------------------
(* The directory: the invariant.                                           *)

Views == [input : DOMAIN Matches, applied : DOMAIN Matches, page : Nat \ {0}, size : PageSizes, sort : Sorts]
Answers == [rows : Seq(Row), total : Nat, version : Nat]

DirectoryTypes ==
  /\ Table(table)
  /\ version \in Nat
  /\ view \in Views
  /\ listing \subseteq Searches
  /\ DOMAIN lists \subseteq Searches
  /\ walk \in Seq(Answers)

\* The query for a page of what is viewed.
PageQuery(i) == [search |-> view.applied, sort |-> view.sort, page |-> i, size |-> view.size]

\* An answer is a page of one of the tables there have been.
WasRead(h, q, a) == \E v \in 0 .. version : a = PageOf(h[v], v, q)

\* These are the tables there have been, and what was answered are pages of theirs.
History(h) ==
  /\ \A v \in 0 .. version : Table(h[v])
  /\ h[version] = table
  /\ \A k \in DOMAIN lists : WasRead(h, k, lists[k])
  /\ \A i \in DOMAIN walk : WasRead(h, PageQuery(i), walk[i])

HistoryInv == \E h : History(h)

\* Whoever is on a page turned to it from the one before, by whose answer it was there.
WalkedInv ==
  /\ view.page - 1 <= Len(walk)
  /\ \A i \in 1 .. view.page - 1 : i * view.size < walk[i].total
  /\ Directory!Current \in DOMAIN lists => view.page <= Len(walk) /\ walk[view.page] = lists[Directory!Current]

DirectoryInv == DirectoryTypes /\ HistoryInv /\ WalkedInv

\* A page of a table is an answer.
LEMMA PageTyped ==
  ASSUME Directory!Paged, NEW t, Table(t), NEW v \in Nat, NEW q \in Searches
  PROVE  PageOf(t, v, q) \in Answers
<1>1. PICK a : a = PageOf(t, v, q)
  OBVIOUS
<1>2. a.rows \in Seq(Row) /\ a.total \in Nat
  BY <1>1, PagesAreSound DEF SoundAnswer
<1>3. \E r, n : a = [rows |-> r, total |-> n, version |-> v]
  BY <1>1 DEF PageOf
<1>4. a \in Answers
  BY <1>2, <1>3 DEF Answers
<1>5. QED
  BY <1>1, <1>4

\* The first page is asked for.
LEMMA DirectoryInit == Directory!Paged /\ Directory!Init => DirectoryInv
<1>. SUFFICES ASSUME Directory!Paged, Directory!Init PROVE DirectoryInv
  OBVIOUS
<1>1. Directory!Min(PageSizes) \in PageSizes
  <2>1. PageSizes # {} /\ PageSizes \subseteq Nat
    BY DEF Directory!Paged
  <2>2. \E m \in PageSizes : \A k \in PageSizes : m <= k
    BY <2>1, LeastNatural
  <2>3. QED
    BY <2>2 DEF Directory!Min
<1>2. view \in Views /\ view.page = 1
  <2>1. PICK size \in PageSizes : size = Directory!Min(PageSizes)
    BY <1>1
  <2>2. view = [input |-> "", applied |-> "", page |-> 1, size |-> size, sort |-> [field |-> "installDate", desc |-> TRUE]]
    BY <2>1 DEF Directory!Init
  <2>3. [field |-> "installDate", desc |-> TRUE] \in Sorts /\ "" \in DOMAIN Matches
    BY DEF Sorts, Directory!Fields, Directory!Paged
  <2>4. PICK sort \in Sorts : sort = [field |-> "installDate", desc |-> TRUE]
    BY <2>3
  <2>5. view = [input |-> "", applied |-> "", page |-> 1, size |-> size, sort |-> sort]
    BY <2>2, <2>4
  <2>6. PICK first \in Nat \ {0} : first = 1
    OBVIOUS
  <2>7. PICK all \in DOMAIN Matches : all = ""
    BY <2>3
  <2>8. view = [input |-> all, applied |-> all, page |-> first, size |-> size, sort |-> sort]
    BY <2>5, <2>6, <2>7
  <2>9. view \in Views
    BY <2>8 DEF Views
  <2>10. QED
    BY <2>5, <2>9
<1>3. Table(table)
  <2>1. replica.shops \subseteq Stores /\ IsFiniteSet(replica.shops)
    BY DEF Directory!Init, Directory!Paged, Directory!IsFiniteSet, IsFiniteSet
  <2>2. QED
    BY <2>1, FirstTable DEF Directory!Init
<1>4. listing = {Directory!Key(view)} /\ lists = <<>> /\ version = 0 /\ walk = <<>>
  BY DEF Directory!Init
<1>5. Directory!Key(view) \in Searches /\ Directory!Key(view).page = 1
  BY <1>2 DEF Directory!Key, Views, Searches
<1>6. DOMAIN lists = {}
  BY <1>4
<1>7. walk \in Seq(Answers) /\ DOMAIN walk = {} /\ Len(walk) = 0
  BY <1>4
<1>8. HistoryInv
  <2>1. PICK h : h = [v \in 0 .. 0 |-> table]
    OBVIOUS
  <2>2. \A v \in 0 .. version : h[v] = table
    BY <1>4, <2>1
  <2>3. version \in 0 .. version
    BY <1>4
  <2>4. History(h)
    BY <1>3, <1>6, <1>7, <2>2, <2>3 DEF History
  <2>5. QED
    BY <2>4 DEF HistoryInv
<1>9. WalkedInv
  BY <1>2, <1>6, <1>7 DEF WalkedInv
<1>10. DirectoryTypes
  BY <1>2, <1>3, <1>4, <1>5, <1>6, <1>7 DEF DirectoryTypes
<1>11. QED
  BY <1>8, <1>9, <1>10 DEF DirectoryInv

\* A shop comes, or a row is written: what was answered is of a table that was there.
LEMMA TableStep ==
  ASSUME Directory!Paged, DirectoryInv, Table(table'), version' = version + 1,
         UNCHANGED <<view, lists, listing, unlisted, walk>>
  PROVE  DirectoryInv'
<1>. USE DEF DirectoryInv
<1>1. DirectoryTypes'
  BY DEF DirectoryTypes
<1>2. version \in Nat
  BY DEF DirectoryTypes
<1>3. PICK h : History(h)
  BY DEF HistoryInv
<1>4. PICK g : g = [v \in 0 .. version + 1 |-> IF v = version + 1 THEN table' ELSE h[v]]
  OBVIOUS
<1>5. g[version + 1] = table' /\ \A v \in 0 .. version : g[v] = h[v]
  BY <1>2, <1>4
<1>6. ASSUME NEW q, NEW a, WasRead(h, q, a) PROVE \E v \in 0 .. version + 1 : a = PageOf(g[v], v, q)
  <2>1. PICK v \in 0 .. version : a = PageOf(h[v], v, q)
    BY <1>6 DEF WasRead
  <2>2. v \in 0 .. version + 1
    BY <1>2
  <2>3. QED
    BY <1>5, <2>1, <2>2
<1>7. \A v \in 0 .. version + 1 : Table(g[v])
  <2>1. \A v \in 0 .. version + 1 : v \in 0 .. version \/ v = version + 1
    BY <1>2
  <2>2. QED
    BY <1>3, <1>5, <2>1 DEF History
<1>8. \A k \in DOMAIN lists : \E v \in 0 .. version + 1 : lists[k] = PageOf(g[v], v, k)
  BY <1>3, <1>6 DEF History
<1>9. \A i \in DOMAIN walk : \E v \in 0 .. version + 1 : walk[i] = PageOf(g[v], v, PageQuery(i))
  BY <1>3, <1>6 DEF History
<1>10. \A i : PageQuery(i)' = PageQuery(i)
  BY DEF PageQuery
<1>11. History(g)'
  BY <1>5, <1>7, <1>8, <1>9, <1>10 DEF History, WasRead
<1>12. HistoryInv'
  BY <1>11 DEF HistoryInv
<1>13. WalkedInv'
  BY DEF WalkedInv, Directory!Current, Directory!Key
<1>14. QED
  BY <1>1, <1>12, <1>13

\* An answer that is shown becomes the walk's of its page.
LEMMA SeenWalk ==
  ASSUME NEW w, w \in Seq(Answers), NEW n \in Nat \ {0}, n - 1 <= Len(w), NEW a \in Answers, NEW u,
         u = IF n \in DOMAIN w THEN [w EXCEPT ![n] = a] ELSE Append(w, a)
  PROVE  /\ u \in Seq(Answers) /\ Len(u) \in Nat /\ Len(w) \in Nat /\ n <= Len(u) /\ Len(w) <= Len(u)
         /\ DOMAIN w = 1 .. Len(w) /\ DOMAIN u = DOMAIN w \cup {n}
         /\ u[n] = a /\ \A i \in DOMAIN w : i # n => u[i] = w[i]
<1>1. Len(w) \in Nat /\ DOMAIN w = 1 .. Len(w)
  BY LenProperties
<1>2. CASE n \in DOMAIN w
  <2>1. u \in Seq(Answers) /\ Len(u) = Len(w) /\ \A i \in 1 .. Len(w) : u[i] = IF i = n THEN a ELSE w[i]
    BY <1>1, <1>2, ExceptSeq
  <2>2. DOMAIN u = 1 .. Len(w)
    BY <2>1, LenProperties
  <2>3. QED
    BY <1>1, <1>2, <2>1, <2>2
<1>3. CASE n \notin DOMAIN w
  <2>1. n = Len(w) + 1
    BY <1>1, <1>3
  <2>2. u \in Seq(Answers) /\ Len(u) = Len(w) + 1 /\ u[Len(w) + 1] = a /\ \A i \in 1 .. Len(w) : u[i] = w[i]
    BY <1>3, AppendProperties
  <2>3. DOMAIN u = 1 .. Len(w) + 1
    BY <1>1, <2>2, LenProperties
  <2>4. QED
    BY <1>1, <2>1, <2>2, <2>3
<1>4. QED
  BY <1>2, <1>3

\* Another query is turned to, its page the first one or one that is there by the answer before it.
LEMMA TurnStep ==
  ASSUME Directory!Paged, DirectoryInv, NEW v \in Views, Directory!Turned(v),
         v.page # 1 =>
           /\ [v EXCEPT !.page = view.page] = view
           /\ v.page - 1 <= Len(walk)
           /\ \A i \in 1 .. v.page - 1 : i * v.size < walk[i].total
  PROVE  DirectoryInv'
<1>. USE DEF DirectoryInv
<1>1. view' = v /\ UNCHANGED <<table, version, lists>> /\ listing' \subseteq listing \cup {Directory!Key(v)}
  BY DEF Directory!Turned, Directory!Reads
<1>2. PICK q : q = Directory!Key(v)
  OBVIOUS
<1>3. q \in Searches /\ q = [search |-> v.applied, sort |-> v.sort, page |-> v.page, size |-> v.size]
  BY <1>2 DEF Directory!Key, Views, Searches
<1>4. PICK n \in Nat \ {0} : n = v.page
  BY DEF Views
<1>5. PICK w : /\ w = IF n = 1 \/ [v EXCEPT !.page = view.page] # view THEN <<>> ELSE walk
               /\ walk' = Directory!Seen(v, w, lists)
  BY <1>4 DEF Directory!Turned
<1>6. PICK h : History(h)
  BY DEF HistoryInv
<1>7. walk \in Seq(Answers) /\ version \in Nat
  BY DEF DirectoryTypes
<1>8. \/ n = 1 /\ w = <<>>
      \/ /\ n # 1 /\ w = walk
         /\ v.applied = view.applied /\ v.sort = view.sort /\ v.size = view.size
  <2>1. CASE n = 1
    BY <1>5, <2>1
  <2>2. CASE n # 1
    <3>1. [v EXCEPT !.page = view.page] = view
      BY <1>4, <2>2
    <3>2. /\ [v EXCEPT !.page = view.page].applied = v.applied
          /\ [v EXCEPT !.page = view.page].sort = v.sort
          /\ [v EXCEPT !.page = view.page].size = v.size
      BY DEF Views
    <3>3. QED
      BY <1>5, <2>2, <3>1, <3>2
  <2>3. QED
    BY <2>1, <2>2
<1>9. w \in Seq(Answers) /\ Len(w) \in Nat /\ DOMAIN w = 1 .. Len(w)
  <2>1. w \in Seq(Answers)
    BY <1>7, <1>8, EmptySeq
  <2>2. QED
    BY <2>1, LenProperties
<1>10. n - 1 <= Len(w) /\ \A i \in 1 .. n - 1 : i * v.size < w[i].total
  BY <1>4, <1>8, <1>9
<1>11. /\ Directory!Current' = q
       /\ \A i : PageQuery(i)' = [search |-> v.applied, sort |-> v.sort, page |-> i, size |-> v.size]
  BY <1>1, <1>2 DEF Directory!Current, Directory!Key, PageQuery
<1>12. \A i \in DOMAIN w : WasRead(h, [search |-> v.applied, sort |-> v.sort, page |-> i, size |-> v.size], w[i])
  BY <1>6, <1>8 DEF History, PageQuery
<1>13. ASSUME NEW u, u = walk', u \in Seq(Answers),
              \A i \in DOMAIN u :
                WasRead(h, [search |-> v.applied, sort |-> v.sort, page |-> i, size |-> v.size], u[i]),
              n - 1 <= Len(u), \A i \in 1 .. n - 1 : i * v.size < u[i].total,
              q \in DOMAIN lists => n <= Len(u) /\ u[n] = lists[q]
       PROVE  DirectoryInv'
  <2>1. DirectoryTypes'
    BY <1>1, <1>2, <1>3, <1>13 DEF DirectoryTypes
  <2>2. History(h)'
    BY <1>1, <1>6, <1>11, <1>13 DEF History, WasRead
  <2>3. WalkedInv'
    BY <1>1, <1>4, <1>11, <1>13 DEF WalkedInv
  <2>4. QED
    BY <2>1, <2>2, <2>3 DEF HistoryInv
<1>14. CASE q \notin DOMAIN lists
  <2>1. walk' = w
    BY <1>2, <1>5, <1>14 DEF Directory!Seen
  <2>2. QED
    BY <1>9, <1>10, <1>12, <1>13, <1>14, <2>1
<1>15. CASE q \in DOMAIN lists
  <2>1. PICK a : a = lists[q]
    OBVIOUS
  <2>2. WasRead(h, q, a)
    BY <1>6, <1>15, <2>1 DEF History
  <2>3. a \in Answers
    <3>1. PICK i \in 0 .. version : a = PageOf(h[i], i, q)
      BY <2>2 DEF WasRead
    <3>2. i \in Nat /\ Table(h[i])
      BY <1>6, <1>7, <3>1 DEF History
    <3>3. QED
      BY <1>3, <3>1, <3>2, PageTyped
  <2>4. walk' = IF n \in DOMAIN w THEN [w EXCEPT ![n] = a] ELSE Append(w, a)
    BY <1>2, <1>4, <1>5, <1>15, <2>1 DEF Directory!Seen
  <2>5. PICK u : u = walk'
    OBVIOUS
  <2>6. /\ u \in Seq(Answers) /\ Len(u) \in Nat /\ n <= Len(u)
        /\ DOMAIN u = DOMAIN w \cup {n}
        /\ u[n] = a /\ \A i \in DOMAIN w : i # n => u[i] = w[i]
    BY <1>9, <1>10, <2>3, <2>4, <2>5, SeenWalk
  <2>7. \A i \in DOMAIN u : WasRead(h, [search |-> v.applied, sort |-> v.sort, page |-> i, size |-> v.size], u[i])
    <3>1. ASSUME NEW i \in DOMAIN u
          PROVE WasRead(h, [search |-> v.applied, sort |-> v.sort, page |-> i, size |-> v.size], u[i])
      <4>1. CASE i = n
        BY <1>3, <1>4, <2>2, <2>6, <4>1
      <4>2. CASE i # n
        BY <1>12, <2>6, <3>1, <4>2
      <4>3. QED
        BY <4>1, <4>2
    <3>2. QED
      BY <3>1
  <2>8. \A i \in 1 .. n - 1 : i * v.size < u[i].total
    <3>1. \A i \in 1 .. n - 1 : i \in DOMAIN w /\ i # n
      BY <1>9, <1>10
    <3>2. QED
      BY <1>10, <2>6, <3>1
  <2>9. n - 1 <= Len(u)
    BY <2>6
  <2>10. QED
    BY <1>13, <2>1, <2>5, <2>6, <2>7, <2>8, <2>9
<1>16. QED
  BY <1>14, <1>15

\* A page is answered.
LEMMA AnswerStep ==
  ASSUME Directory!Paged, DirectoryInv, NEW k \in listing, Directory!Answer(k)
  PROVE  DirectoryInv'
<1>. USE DEF DirectoryInv
<1>1. PICK a : a = Directory!QueryShops(k)
  OBVIOUS
<1>2. a = PageOf(table, version, k)
  BY <1>1, SameCardinality DEF Directory!QueryShops, PageOf
<1>3. /\ lists' = [q \in DOMAIN lists \cup {k} |-> IF q = k THEN a ELSE lists[q]]
      /\ walk' = IF k = Directory!Current THEN Directory!Seen(view, walk, lists') ELSE walk
      /\ listing' \subseteq listing
      /\ UNCHANGED <<table, version, view>>
  BY <1>1 DEF Directory!Answer
<1>4. k \in Searches /\ Table(table) /\ version \in Nat /\ walk \in Seq(Answers)
  BY DEF DirectoryTypes
<1>5. a \in Answers
  BY <1>2, <1>4, PageTyped
<1>6. PICK h : History(h)
  BY DEF HistoryInv
<1>7. WasRead(h, k, a)
  <2>1. version \in 0 .. version /\ h[version] = table
    BY <1>4, <1>6 DEF History
  <2>2. QED
    BY <1>2, <2>1 DEF WasRead
<1>8. /\ DOMAIN lists' = DOMAIN lists \cup {k} /\ lists'[k] = a
      /\ \A q \in DOMAIN lists : q # k => lists'[q] = lists[q]
  BY <1>3
<1>9. \A q \in DOMAIN lists' : WasRead(h, q, lists'[q])
  BY <1>6, <1>7, <1>8 DEF History
<1>10. PICK n \in Nat \ {0} : n = view.page
  BY DEF DirectoryTypes, Views
<1>11. n - 1 <= Len(walk) /\ \A i \in 1 .. n - 1 : i * view.size < walk[i].total
  BY <1>10 DEF WalkedInv
<1>12. Directory!Current = PageQuery(n) /\ Directory!Current' = Directory!Current /\ \A i : PageQuery(i)' = PageQuery(i)
  BY <1>3, <1>10 DEF Directory!Current, Directory!Key, PageQuery
<1>13. \A i \in DOMAIN walk : WasRead(h, PageQuery(i), walk[i])
  BY <1>6 DEF History
<1>14. ASSUME NEW u, u = walk', u \in Seq(Answers), \A i \in DOMAIN u : WasRead(h, PageQuery(i), u[i]),
              n - 1 <= Len(u), \A i \in 1 .. n - 1 : i * view.size < u[i].total,
              PageQuery(n) \in DOMAIN lists' => n <= Len(u) /\ u[n] = lists'[PageQuery(n)]
       PROVE  DirectoryInv'
  <2>1. DirectoryTypes'
    BY <1>3, <1>4, <1>8, <1>14 DEF DirectoryTypes
  <2>2. History(h)'
    BY <1>3, <1>6, <1>9, <1>12, <1>14 DEF History, WasRead
  <2>3. WalkedInv'
    BY <1>3, <1>10, <1>12, <1>14 DEF WalkedInv
  <2>4. QED
    BY <2>1, <2>2, <2>3 DEF HistoryInv
<1>15. CASE k # PageQuery(n)
  <2>1. walk' = walk
    BY <1>3, <1>12, <1>15
  <2>2. PageQuery(n) \in DOMAIN lists' => n <= Len(walk) /\ walk[n] = lists'[PageQuery(n)]
    BY <1>8, <1>10, <1>12, <1>15 DEF WalkedInv
  <2>3. QED
    BY <1>4, <1>11, <1>13, <1>14, <2>1, <2>2
<1>16. CASE k = PageQuery(n)
  <2>1. Directory!Key(view) = k
    BY <1>12, <1>16 DEF Directory!Current
  <2>2. walk' = IF n \in DOMAIN walk THEN [walk EXCEPT ![n] = a] ELSE Append(walk, a)
    <3>1. walk' = Directory!Seen(view, walk, lists')
      BY <1>3, <1>12, <1>16
    <3>2. QED
      BY <1>8, <1>10, <2>1, <3>1 DEF Directory!Seen
  <2>3. PICK u : u = walk'
    OBVIOUS
  <2>4. /\ u \in Seq(Answers) /\ Len(u) \in Nat /\ n <= Len(u)
        /\ DOMAIN walk = 1 .. Len(walk) /\ Len(walk) \in Nat
        /\ DOMAIN u = DOMAIN walk \cup {n}
        /\ u[n] = a /\ \A i \in DOMAIN walk : i # n => u[i] = walk[i]
    BY <1>4, <1>5, <1>11, <2>2, <2>3, SeenWalk
  <2>5. \A i \in DOMAIN u : WasRead(h, PageQuery(i), u[i])
    <3>1. ASSUME NEW i \in DOMAIN u PROVE WasRead(h, PageQuery(i), u[i])
      <4>1. CASE i = n
        BY <1>7, <1>16, <2>4, <4>1
      <4>2. CASE i # n
        BY <1>13, <2>4, <3>1, <4>2
      <4>3. QED
        BY <4>1, <4>2
    <3>2. QED
      BY <3>1
  <2>6. \A i \in 1 .. n - 1 : i * view.size < u[i].total
    <3>1. \A i \in 1 .. n - 1 : i \in DOMAIN walk /\ i # n
      BY <1>11, <2>4
    <3>2. QED
      BY <1>11, <2>4, <3>1
  <2>7. n - 1 <= Len(u) /\ n <= Len(u) /\ u[n] = lists'[PageQuery(n)]
    BY <1>8, <1>16, <2>4
  <2>8. QED
    BY <1>14, <2>3, <2>4, <2>5, <2>6, <2>7
<1>17. QED
  BY <1>15, <1>16

\* One page more, where there is one, exists.
LEMMA NextExists ==
  ASSUME NEW n \in Nat \ {0}, NEW s \in Nat \ {0}, NEW total \in Nat,
         n < IF total = 0 THEN 1 ELSE (total + s - 1) \div s
  PROVE  n * s < total
<1>1. total # 0
  OBVIOUS
<1>2. PICK m \in Nat : m = total + s - 1
  OBVIOUS
<1>3. PICK k \in Nat : k = m \div s
  OBVIOUS
<1>4. s * k <= m /\ s * k = k * s
  BY <1>3
<1>5. n < k
  BY <1>1, <1>2, <1>3
<1>6. n * s \in Nat /\ n * s + s <= k * s
  BY <1>5, Starts
<1>7. QED
  BY <1>2, <1>4, <1>6

\* Nothing of the page changes.
LEMMA RestStep ==
  ASSUME Directory!Paged, DirectoryInv, UNCHANGED <<table, version, lists, walk>>,
         view' = view \/ (\E s \in DOMAIN Matches : view' = [view EXCEPT !.input = s]),
         listing' \subseteq listing \cup {Directory!Current}
  PROVE  DirectoryInv'
<1>. USE DEF DirectoryInv
<1>1. /\ view' \in Views /\ view'.applied = view.applied /\ view'.page = view.page
      /\ view'.size = view.size /\ view'.sort = view.sort
  BY DEF DirectoryTypes, Views
<1>2. Directory!Current \in Searches
  BY DEF Directory!Current, Directory!Key, DirectoryTypes, Views, Searches
<1>3. DirectoryTypes'
  BY <1>1, <1>2 DEF DirectoryTypes
<1>4. Directory!Current' = Directory!Current /\ \A i : PageQuery(i)' = PageQuery(i)
  BY <1>1 DEF Directory!Current, Directory!Key, PageQuery
<1>5. HistoryInv'
  <2>1. PICK h : History(h)
    BY DEF HistoryInv
  <2>2. History(h)'
    BY <1>4, <2>1 DEF History, WasRead
  <2>3. QED
    BY <2>2 DEF HistoryInv
<1>6. WalkedInv'
  BY <1>1, <1>4 DEF WalkedInv
<1>7. QED
  BY <1>3, <1>5, <1>6

\* A query for a first page.
LEMMA FirstPage ==
  ASSUME Directory!Paged, DirectoryInv, NEW v \in Views, v.page = 1, Directory!Turned(v)
  PROVE  DirectoryInv'
BY TurnStep

\* Each step keeps what was answered a page of a table, and each page one that was there by the answer before it.
LEMMA DirectoryStep ==
  ASSUME Directory!Paged
  PROVE  DirectoryInv /\ [Directory!Next]_(Directory!vars) => DirectoryInv'
<1>. SUFFICES ASSUME DirectoryInv, [Directory!Next]_(Directory!vars) PROVE DirectoryInv'
  OBVIOUS
<1>1. Table(table) /\ version \in Nat /\ view \in Views
  BY DEF DirectoryInv, DirectoryTypes
<1>2. \A i \in DOMAIN table : table[i] \in Row
  BY <1>1, ElementOfSeq, LenProperties DEF Table
<1>3. CASE Directory!Arrive
  <2>1. PICK s \in Stores \ {table[i].shop : i \in DOMAIN table} : table' = Append(table, Directory!Row(s))
    BY <1>3 DEF Directory!Arrive
  <2>2. PICK row \in Row : row = Directory!Row(s) /\ row.shop = s
    BY <2>1, RowsOfShops
  <2>3. \A i \in DOMAIN table : table[i].shop # row.shop
    BY <2>1, <2>2
  <2>4. Table(Append(table, row))
    BY <1>1, <2>3, LongerTable
  <2>5. Table(table')
    BY <2>1, <2>2, <2>4
  <2>6. QED
    BY <1>3, <2>5, TableStep DEF Directory!Arrive
<1>4. ASSUME NEW i \in DOMAIN table, Directory!RowChanges(i) PROVE DirectoryInv'
  <2>1. PICK row \in Row : row.shop = table[i].shop /\ table' = Append(Directory!RemoveAt(table, i), row)
    <3>1. PICK old \in Row : old = table[i]
      BY <1>2
    <3>2. PICK row : /\ row \in {[old EXCEPT !.status = IF @ = "active" THEN "uninstalled" ELSE "active"]}
                               \cup {[old EXCEPT !.plan = Plan[s]] : s \in Stores}
                               \cup {[old EXCEPT !.words = w] : w \in SUBSET (DOMAIN Matches \ {""})}
                     /\ table' = Append(Directory!RemoveAt(table, i), row)
      BY <1>4, <3>1 DEF Directory!RowChanges
    <3>3. \A s \in Stores : Plan[s] \in Int
      BY DEF Directory!Paged
    <3>4. \/ \E status \in {"active", "uninstalled"} : row = [old EXCEPT !.status = status]
          \/ \E p \in Int : row = [old EXCEPT !.plan = p]
          \/ \E words \in SUBSET DOMAIN Matches : row = [old EXCEPT !.words = words]
      BY <3>2, <3>3
    <3>5. row \in Row /\ row.shop = old.shop
      BY <3>4 DEF Row
    <3>6. QED
      BY <3>1, <3>2, <3>5
  <2>2. PICK short : short = Directory!RemoveAt(table, i)
    OBVIOUS
  <2>3. Table(short) /\ Listed(short) = Listed(table) \ {table[i].shop}
    BY <1>1, <2>2, ShorterTable
  <2>4. \A j \in DOMAIN short : short[j].shop # row.shop
    BY <2>1, <2>3 DEF Listed
  <2>5. Table(table')
    BY <2>1, <2>2, <2>3, <2>4, LongerTable
  <2>6. QED
    BY <1>4, <2>5, TableStep DEF Directory!RowChanges
<1>5. CASE Directory!Type
  BY <1>5, RestStep DEF Directory!Type
<1>6. CASE Directory!SubmitSearch
  <2>1. PICK v : v = [view EXCEPT !.applied = view.input, !.page = 1]
    OBVIOUS
  <2>2. v \in Views /\ v.page = 1
    <3>1. PICK one \in Nat \ {0} : one = 1
      OBVIOUS
    <3>2. v \in Views /\ v.page = one
      BY <3>1, <1>1, <2>1 DEF Views
    <3>3. QED
      BY <3>1, <3>2
  <2>3. QED
    BY <1>6, <2>1, <2>2, FirstPage DEF Directory!SubmitSearch
<1>7. CASE Directory!ClearSearch
  <2>1. PICK v : v = [view EXCEPT !.input = "", !.applied = "", !.page = 1]
    OBVIOUS
  <2>2. v \in Views /\ v.page = 1
    <3>1. PICK one \in Nat \ {0} : one = 1
      OBVIOUS
    <3>2. v \in Views /\ v.page = one
      BY <3>1, <1>1, <2>1 DEF Views, Directory!Paged
    <3>3. QED
      BY <3>1, <3>2
  <2>3. QED
    BY <1>7, <2>1, <2>2, FirstPage DEF Directory!ClearSearch
<1>8. ASSUME NEW f \in Directory!Fields, Directory!SortBy(f) PROVE DirectoryInv'
  <2>1. PICK first \in BOOLEAN : first = (Directory!Shown.rows = <<>>)
    OBVIOUS
  <2>2. PICK old \in Sorts : old = view.sort
    BY <1>1 DEF Views
  <2>3. PICK sort : sort = IF old.field # f THEN [field |-> f, desc |-> first]
                           ELSE IF old.desc # first THEN Directory!NoSort
                           ELSE [field |-> f, desc |-> ~old.desc]
    OBVIOUS
  <2>4. sort \in Sorts
    BY <2>2, <2>3 DEF Sorts, Directory!NoSort
  <2>5. PICK v : v = [view EXCEPT !.sort = sort, !.page = 1]
    OBVIOUS
  <2>6. v \in Views /\ v.page = 1
    <3>1. PICK one \in Nat \ {0} : one = 1
      OBVIOUS
    <3>2. v \in Views /\ v.page = one
      BY <3>1, <1>1, <2>4, <2>5 DEF Views
    <3>3. QED
      BY <3>1, <3>2
  <2>7. Directory!Turned(v)
    BY <1>8, <2>1, <2>2, <2>3, <2>5 DEF Directory!SortBy
  <2>8. QED
    BY <2>6, <2>7, FirstPage
<1>9. ASSUME NEW n \in PageSizes, Directory!SetPageSize(n) PROVE DirectoryInv'
  <2>1. PICK v : v = [view EXCEPT !.size = n, !.page = 1]
    OBVIOUS
  <2>2. v \in Views /\ v.page = 1
    <3>1. PICK one \in Nat \ {0} : one = 1
      OBVIOUS
    <3>2. v \in Views /\ v.page = one
      BY <3>1, <1>1, <2>1 DEF Views
    <3>3. QED
      BY <3>1, <3>2
  <2>3. QED
    BY <1>9, <2>1, <2>2, FirstPage DEF Directory!SetPageSize
<1>10. PICK page0 \in Nat \ {0}, size \in Nat \ {0} : page0 = view.page /\ size = view.size
  BY <1>1 DEF Views, Directory!Paged
<1>11. page0 - 1 <= Len(walk) /\ \A i \in 1 .. page0 - 1 : i * size < walk[i].total
  BY <1>10 DEF DirectoryInv, WalkedInv
<1>12. ASSUME NEW n \in Nat \ {0}, Directory!Turned([view EXCEPT !.page = n]), n - 1 <= Len(walk),
              \A i \in 1 .. n - 1 : i * size < walk[i].total
       PROVE  DirectoryInv'
  <2>1. PICK v : v = [view EXCEPT !.page = n]
    OBVIOUS
  <2>2. v \in Views /\ v.page = n /\ v.size = size /\ [v EXCEPT !.page = view.page] = view
    BY <1>1, <1>10, <2>1 DEF Views
  <2>3. QED
    BY <1>12, <2>1, <2>2, TurnStep
<1>13. CASE Directory!Previous
  <2>1. PICK n \in Nat \ {0} : n = page0 - 1
    BY <1>10, <1>13 DEF Directory!Previous
  <2>2. Directory!Turned([view EXCEPT !.page = n])
    BY <1>10, <1>13, <2>1 DEF Directory!Previous
  <2>3. Len(walk) \in Nat
    BY LenProperties DEF DirectoryInv, DirectoryTypes
  <2>4. n - 1 <= Len(walk) /\ \A i \in 1 .. n - 1 : i \in 1 .. page0 - 1
    BY <1>11, <2>1, <2>3
  <2>5. QED
    BY <1>11, <1>12, <2>2, <2>4
<1>14. CASE Directory!NextPage
  <2>1. PICK n \in Nat \ {0} : n = page0 + 1
    OBVIOUS
  <2>2. Directory!Turned([view EXCEPT !.page = n])
    BY <1>10, <1>14, <2>1 DEF Directory!NextPage
  <2>3. PICK total : total = Directory!Shown.total
    OBVIOUS
  <2>4. page0 < IF total = 0 THEN 1 ELSE (total + size - 1) \div size
    BY <1>10, <1>14, <2>3 DEF Directory!NextPage, Directory!PageCount
  <2>5. total # 0
    BY <2>4
  <2>6. Directory!Current \in DOMAIN lists /\ total = lists[Directory!Current].total
    BY <2>3, <2>5 DEF Directory!Shown, Directory!Nothing
  <2>7. page0 <= Len(walk) /\ walk[page0].total = total
    BY <1>10, <2>6 DEF DirectoryInv, WalkedInv
  <2>8. Len(walk) \in Nat /\ DOMAIN walk = 1 .. Len(walk) /\ \A i \in DOMAIN walk : walk[i] \in Answers
    BY LenProperties, ElementOfSeq DEF DirectoryInv, DirectoryTypes
  <2>9. total \in Nat
    BY <2>7, <2>8 DEF Answers
  <2>10. page0 * size < total
    BY <2>4, <2>9, NextExists
  <2>11. \A i \in 1 .. n - 1 : i \in 1 .. page0 - 1 \/ i = page0
    BY <2>1
  <2>12. n - 1 <= Len(walk)
    BY <2>1, <2>7
  <2>13. \A i \in 1 .. n - 1 : i * size < walk[i].total
    BY <1>11, <2>7, <2>10, <2>11
  <2>14. QED
    BY <1>12, <2>2, <2>12, <2>13
<1>15. ASSUME NEW k \in listing, Directory!FetchFails(k) PROVE DirectoryInv'
  BY <1>15, RestStep DEF Directory!FetchFails
<1>16. CASE Directory!Refetch
  BY <1>16, RestStep DEF Directory!Refetch, Directory!Reads
<1>17. CASE UNCHANGED Directory!vars
  BY <1>17, RestStep DEF Directory!vars
<1>18. QED
  BY <1>3, <1>4, <1>5, <1>6, <1>7, <1>8, <1>9, <1>13, <1>14, <1>15, <1>16, <1>17, AnswerStep DEF Directory!Next

\* What the page shows is whole.
LEMMA DirectoryIsSafe ==
  ASSUME Directory!Paged, DirectoryInv
  PROVE  Directory!TypeOK /\ Directory!DirectoryIsWhole
<1>. USE DEF DirectoryInv
<1>1. Directory!TypeOK
  <2>1. \A i \in DOMAIN table : table[i] \in Row
    BY ElementOfSeq, LenProperties DEF DirectoryTypes, Table
  <2>2. \A i \in DOMAIN table : table[i].shop \in Stores /\ table[i].status \in {"active", "uninstalled"}
    BY <2>1 DEF Row
  <2>3. /\ view.page \in Nat \ {0} /\ view.size \in PageSizes
        /\ view.input \in DOMAIN Matches /\ view.applied \in DOMAIN Matches
        /\ view.sort.field \in Directory!Fields \cup {"none"}
    BY DEF DirectoryTypes, Views, Sorts
  <2>4. \A k \in DOMAIN lists : lists[k].version <= version
    <3>1. PICK h : History(h)
      BY DEF HistoryInv
    <3>2. ASSUME NEW k \in DOMAIN lists PROVE lists[k].version <= version
      <4>1. PICK v \in 0 .. version : lists[k] = PageOf(h[v], v, k)
        BY <3>1, <3>2 DEF History, WasRead
      <4>2. lists[k].version = v
        BY <4>1 DEF PageOf
      <4>3. QED
        BY <4>2
    <3>3. QED
      BY <3>2
  <2>5. QED
    BY <2>2, <2>3, <2>4 DEF Directory!TypeOK
<1>2. PICK now : now = Directory!Current
  OBVIOUS
<1>3. /\ now.search = view.applied /\ now.sort = view.sort /\ now.page = view.page /\ now.size = view.size
  BY <1>2 DEF Directory!Current, Directory!Key
<1>4. PICK page0 \in Nat \ {0}, size \in Nat \ {0} : page0 = view.page /\ size = view.size
  BY DEF DirectoryTypes, Views, Directory!Paged
<1>5. PICK found : found = Directory!Shown
  OBVIOUS
<1>6. PICK h : History(h)
  BY DEF HistoryInv
<1>7. now \in DOMAIN lists => found = lists[now] /\ SoundAnswer(now, found)
  <2>1. SUFFICES ASSUME now \in DOMAIN lists PROVE found = lists[now] /\ SoundAnswer(now, found)
    OBVIOUS
  <2>2. found = lists[now]
    BY <1>2, <1>5, <2>1 DEF Directory!Shown
  <2>3. PICK v \in 0 .. version : lists[now] = PageOf(h[v], v, now)
    BY <1>6, <2>1 DEF History, WasRead
  <2>4. Table(h[v]) /\ now \in Searches
    BY <1>6, <2>1 DEF History, DirectoryTypes
  <2>5. SoundAnswer(now, PageOf(h[v], v, now))
    BY <2>4, PagesAreSound
  <2>6. QED
    BY <2>2, <2>3, <2>5
<1>8. PICK start \in Nat, end \in Nat : start = (page0 - 1) * size /\ end = page0 * size /\ end = start + size
  OBVIOUS
<1>9. now \in DOMAIN lists =>
        \E total \in Nat, len \in Nat :
          /\ total = found.total /\ DOMAIN found.rows = 1 .. len /\ found.rows \in Seq(Row)
          /\ len = IF total <= start THEN 0 ELSE IF end < total THEN size ELSE total - start
  BY <1>3, <1>4, <1>7, <1>8 DEF SoundAnswer
<1>10. Directory!NoneFound /\ found.total > 0 =>
         /\ view.page - 1 \in DOMAIN walk
         /\ walk[view.page - 1].total > (view.page - 1) * view.size
         /\ walk[view.page - 1].version # found.version
  <2>1. SUFFICES ASSUME now \in DOMAIN lists, found.rows = <<>>, found.total > 0
                 PROVE  /\ page0 - 1 \in DOMAIN walk
                        /\ walk[page0 - 1].total > start
                        /\ walk[page0 - 1].version # found.version
    BY <1>2, <1>4, <1>5, <1>8 DEF Directory!NoneFound
  <2>2. PICK total \in Nat, len \in Nat :
          /\ total = found.total /\ DOMAIN found.rows = 1 .. len
          /\ len = IF total <= start THEN 0 ELSE IF end < total THEN size ELSE total - start
    BY <1>9, <2>1
  <2>3. len = 0
    <3>1. DOMAIN found.rows = {}
      BY <2>1
    <3>2. CASE len # 0
      <4>1. 1 \in 1 .. len
        BY <3>2
      <4>2. QED
        BY <2>2, <3>1, <4>1
    <3>3. QED
      BY <3>2
  <2>4. total > 0 /\ total <= start
    BY <1>4, <1>8, <2>1, <2>2, <2>3
  <2>5. PICK n \in Nat : n = page0 - 1
    OBVIOUS
  <2>6. n # 0
    BY <1>8, <2>4, <2>5
  <2>7. Len(walk) \in Nat /\ DOMAIN walk = 1 .. Len(walk) /\ \A i \in DOMAIN walk : walk[i] \in Answers
    BY LenProperties, ElementOfSeq DEF DirectoryTypes
  <2>8. n \in DOMAIN walk
    BY <1>4, <2>5, <2>6, <2>7 DEF WalkedInv
  <2>9. start < walk[n].total
    <3>1. n \in 1 .. page0 - 1
      BY <2>5, <2>6
    <3>2. QED
      BY <1>4, <1>8, <2>5, <3>1 DEF WalkedInv
  <2>10. PICK v \in 0 .. version : lists[now] = PageOf(h[v], v, now)
    BY <1>6, <2>1 DEF History, WasRead
  <2>11. PICK u \in 0 .. version : walk[n] = PageOf(h[u], u, PageQuery(n))
    BY <1>6, <2>8 DEF History, WasRead
  <2>12. /\ found.total = Cardinality(Directory!Matching(h[v], view.applied)) /\ found.version = v
         /\ walk[n].total = Cardinality(Directory!Matching(h[u], view.applied)) /\ walk[n].version = u
    <3>1. found.total = Cardinality(Directory!Matching(h[v], view.applied)) /\ found.version = v
      BY <1>3, <1>7, <2>1, <2>10 DEF PageOf
    <3>2. PageQuery(n).search = view.applied
      BY DEF PageQuery
    <3>3. walk[n].total = Cardinality(Directory!Matching(h[u], view.applied)) /\ walk[n].version = u
      BY <2>11, <3>2 DEF PageOf
    <3>4. QED
      BY <3>1, <3>3
  <2>13. walk[n].total \in Nat
    BY <2>7, <2>8 DEF Answers
  <2>14. found.total # walk[n].total
    BY <2>2, <2>4, <2>9, <2>13
  <2>15. u # v
    BY <2>12, <2>14
  <2>16. QED
    BY <2>5, <2>8, <2>9, <2>12, <2>13, <2>15
<1>11. now \in DOMAIN lists =>
         Len(found.rows) = IF found.total = 0 \/ Directory!RangeStart > Directory!RangeEnd THEN 0
                           ELSE Directory!RangeEnd - Directory!RangeStart + 1
  <2>1. SUFFICES ASSUME now \in DOMAIN lists
                 PROVE  Len(found.rows) = IF found.total = 0 \/ Directory!RangeStart > Directory!RangeEnd THEN 0
                                          ELSE Directory!RangeEnd - Directory!RangeStart + 1
    OBVIOUS
  <2>2. PICK total \in Nat, len \in Nat :
          /\ total = found.total /\ DOMAIN found.rows = 1 .. len /\ found.rows \in Seq(Row)
          /\ len = IF total <= start THEN 0 ELSE IF end < total THEN size ELSE total - start
    BY <1>9, <2>1
  <2>3. Len(found.rows) = len
    BY <2>2, LenProperties
  <2>4. total # 0 => /\ Directory!RangeStart = start + 1
                     /\ Directory!RangeEnd = IF end < total THEN end ELSE total
    BY <1>4, <1>5, <1>8, <2>2 DEF Directory!RangeStart, Directory!RangeEnd
  <2>5. QED
    BY <1>8, <2>2, <2>3, <2>4
<1>12. ASSUME NEW f \in Directory!Fields, NEW i \in DOMAIN found.rows, NEW j \in DOMAIN found.rows, i < j
       PROVE  /\ Directory!AriaSort(f) = "ascending" =>
                   Directory!Compare(f, found.rows[i]) <= Directory!Compare(f, found.rows[j])
              /\ Directory!AriaSort(f) = "descending" =>
                   Directory!Compare(f, found.rows[i]) >= Directory!Compare(f, found.rows[j])
  <2>1. CASE now \in DOMAIN lists
    <3>1. view.sort.field = f =>
            IF view.sort.desc THEN Directory!Compare(f, found.rows[i]) >= Directory!Compare(f, found.rows[j])
            ELSE Directory!Compare(f, found.rows[i]) <= Directory!Compare(f, found.rows[j])
      BY <1>3, <1>7, <1>12, <2>1 DEF SoundAnswer
    <3>2. QED
      BY <3>1 DEF Directory!AriaSort
  <2>2. CASE now \notin DOMAIN lists
    <3>1. DOMAIN found.rows = {}
      BY <1>2, <1>5, <2>2 DEF Directory!Shown, Directory!Nothing
    <3>2. QED
      BY <3>1
  <2>3. QED
    BY <2>1, <2>2
<1>13. Whole(walk, view.applied, view.size)
  <2>1. PICK L \in Nat : L = Len(walk) /\ DOMAIN walk = 1 .. L
    BY LenProperties DEF DirectoryTypes
  <2>2. CASE L # 0 /\ \A i \in 1 .. L : walk[i].version = walk[1].version
    <3>1. 1 \in DOMAIN walk
      BY <2>1, <2>2
    <3>2. PICK v \in 0 .. version : walk[1] = PageOf(h[v], v, PageQuery(1))
      BY <1>6, <3>1 DEF History, WasRead
    <3>3. PICK q : q = [search |-> view.applied, sort |-> view.sort, page |-> page0, size |-> view.size]
      OBVIOUS
    <3>4. q \in Searches /\ q.search = view.applied /\ q.sort = view.sort /\ q.size = view.size
      BY <1>4, <3>3 DEF DirectoryTypes, Views, Searches
    <3>5. ASSUME NEW i \in 1 .. L
          PROVE  walk[i] = PageOf(h[v], v, [search |-> q.search, sort |-> q.sort, page |-> i, size |-> q.size])
      <4>1. PICK u \in 0 .. version : walk[i] = PageOf(h[u], u, PageQuery(i))
        BY <1>6, <2>1, <3>5 DEF History, WasRead
      <4>2. walk[i].version = u /\ walk[1].version = v
        BY <3>2, <4>1 DEF PageOf
      <4>3. u = v
        BY <2>2, <4>2
      <4>4. QED
        BY <3>4, <4>1, <4>3 DEF PageQuery
    <3>6. Table(h[v])
      BY <1>6 DEF History
    <3>7. PICK w, t : w = walk /\ t = h[v]
      OBVIOUS
    <3>8. /\ Table(t) /\ DOMAIN w = 1 .. L /\ Len(w) = L
          /\ \A i \in 1 .. L : w[i] = PageOf(t, v, [search |-> q.search, sort |-> q.sort, page |-> i, size |-> q.size])
      BY <2>1, <3>5, <3>6, <3>7
    <3>9. Whole(w, q.search, q.size)
      BY <3>4, <3>8, PagesAreWhole
    <3>10. QED
      BY <3>4, <3>7, <3>9
  <2>3. CASE L = 0
    <3>1. walk = <<>>
      BY <2>1, <2>3, EmptySeq DEF DirectoryTypes
    <3>2. QED
      BY <3>1 DEF Whole
  <2>4. CASE ~\A i \in 1 .. L : walk[i].version = walk[1].version
    BY <2>1, <2>4 DEF Whole
  <2>5. QED
    BY <2>2, <2>3, <2>4
<1>14. QED
  BY <1>1, <1>2, <1>5, <1>10, <1>11, <1>12, <1>13 DEF Directory!DirectoryIsWhole, Whole

\* The page that is turned to was there by the answer it is turned from, so that only a row written since leaves it
\* without merchants; its rows are in the order the headers announce, and whoever walks through the pages while
\* nothing is written sees each matching merchant once (Merchants, queryShops).
THEOREM DirectorySafety == ASSUME Directory!Paged PROVE Directory!Spec => [](Directory!TypeOK /\ Directory!DirectoryIsWhole)
<1>1. Directory!Init => DirectoryInv
  BY DirectoryInit
<1>2. DirectoryInv /\ [Directory!Next]_(Directory!vars) => DirectoryInv'
  BY DirectoryStep
<1>3. DirectoryInv => Directory!TypeOK /\ Directory!DirectoryIsWhole
  BY DirectoryIsSafe
<1>4. QED
  BY <1>1, <1>2, <1>3, PTL DEF Directory!Spec

\* The directory among the console's parts: "No merchants found" is said where merchants match only on a page that
\* was there by the answer it was turned from, and after a row was written since; the range counts the rows, rows are
\* in the announced order, and pages that are turned in order while nothing is written show each match once and, by
\* the last, all, whatever names, emails, plans and states the replica's rows take (Merchants,
\* MerchantService.list, queryShops).
THEOREM DirectoryIsWholeHolds == ConsoleSpec => []DirectoryIsWhole
<1>1. [ConsoleNext]_allVars => part' = part
  BY DEF ConsoleNext, allVars, Moves
<1>2. ConsoleInit /\ part = "directory" => Directory!Init
  BY DEF ConsoleInit
<1>3. [ConsoleNext]_allVars /\ part = "directory" => [Directory!Next]_(Directory!vars)
  BY DEF ConsoleNext, allVars, Directory!vars, directory, Moves
<1>4. Directory!Spec => [](Directory!TypeOK /\ Directory!DirectoryIsWhole)
  BY DirectorySafety, ConstantsAssumption DEF ConstantsAssumption
<1>5. part = "directory" /\ part' = part => (part = "directory")'
  OBVIOUS
<1>6. part # "directory" /\ part' = part => (part # "directory")'
  OBVIOUS
<1>7. (part # "directory" => DirectoryIsWhole) /\ (Directory!TypeOK /\ Directory!DirectoryIsWhole => DirectoryIsWhole)
  BY DEF DirectoryIsWhole
<1>8. part = "directory" \/ part # "directory"
  OBVIOUS
<1>9. QED
  BY <1>1, <1>2, <1>3, <1>4, <1>5, <1>6, <1>7, <1>8, PTL DEF ConsoleSpec, Directory!Spec

-----------------------------------------------------------------------------
(* The audit trail: the rows a query answers with.                         *)

LEMMA TrailCounts == \A S : Trail!Cardinality(S) = Cardinality(S)
BY DEF Trail!Cardinality, Cardinality

\* How many of a finite set of numbers are as large gives each its number.
LEMMA Newest ==
  ASSUME NEW M, NEW n \in Nat, M \subseteq 1 .. n
  PROVE  /\ IsFiniteSet(M) /\ Cardinality(M) \in Nat
         /\ \A i \in M : Cardinality({j \in M : j >= i}) \in 1 .. Cardinality(M)
         /\ \A i, j \in M : i < j => Cardinality({k \in M : k >= j}) < Cardinality({k \in M : k >= i})
         /\ \A m \in 1 .. Cardinality(M) : \E i \in M : Cardinality({j \in M : j >= i}) = m
<1>. DEFINE B == [i \in M |-> {j \in M : j > i}]
<1>1. IsFiniteSet(M)
  <2>1. IsFiniteSet(1 .. n) /\ M \in SUBSET (1 .. n)
    BY FS_Interval
  <2>2. QED
    BY <2>1, FS_Subset
<1>2. \A i \in M : i \in Nat
  OBVIOUS
<1>3. \A i \in M : Cardinality({j \in M : j >= i}) = 1 + Cardinality(B[i])
  <2>. SUFFICES ASSUME NEW i \in M PROVE Cardinality({j \in M : j >= i}) = 1 + Cardinality(B[i])
    OBVIOUS
  <2>1. B[i] \in SUBSET M /\ i \notin B[i] /\ {j \in M : j >= i} = B[i] \cup {i}
    <3>1. B[i] = {j \in M : j > i}
      OBVIOUS
    <3>2. \A j \in M : j >= i <=> j > i \/ j = i
      BY <1>2
    <3>3. {j \in M : j >= i} = {j \in M : j > i} \cup {i}
      BY <3>2
    <3>4. i \notin {j \in M : j > i} /\ {j \in M : j > i} \in SUBSET M
      BY <1>2
    <3>. HIDE DEF B
    <3>5. QED
      BY <3>1, <3>3, <3>4
  <2>2. IsFiniteSet(B[i])
    BY <1>1, <2>1, FS_Subset
  <2>3. Cardinality(B[i] \cup {i}) = Cardinality(B[i]) + 1 /\ Cardinality(B[i]) \in Nat
    BY <2>1, <2>2, FS_AddElement, FS_CardinalityType
  <2>4. QED
    BY <2>1, <2>3
<1>4. /\ \A i \in M : i \notin B[i]
      /\ \A i, j, k \in M : j \in B[i] /\ k \in B[j] => k \in B[i]
      /\ \A i, j \in M : i # j => i \in B[j] \/ j \in B[i]
      /\ B \in [M -> SUBSET M]
      /\ \A i, j \in M : j \in B[i] <=> j > i
  BY <1>2
<1>. HIDE DEF B
<1>5. /\ Cardinality(M) \in Nat
      /\ \A i \in M : 1 + Cardinality(B[i]) \in 1 .. Cardinality(M)
      /\ \A i, j \in M : j \in B[i] => Cardinality(B[j]) < Cardinality(B[i])
      /\ \A m \in 1 .. Cardinality(M) : \E i \in M : 1 + Cardinality(B[i]) = m
  BY <1>1, <1>4, Ranks
<1>6. \A i \in M : Cardinality(B[i]) \in Nat
  <2>1. \A i \in M : IsFiniteSet(B[i])
    BY <1>1, <1>4, FS_Subset
  <2>2. QED
    BY <2>1, FS_CardinalityType
<1>7. ASSUME NEW i \in M, NEW j \in M, i < j
      PROVE  Cardinality({k \in M : k >= j}) < Cardinality({k \in M : k >= i})
  <2>1. Cardinality(B[j]) < Cardinality(B[i])
    BY <1>2, <1>4, <1>5, <1>7
  <2>2. QED
    BY <1>3, <1>6, <2>1
<1>8. QED
  BY <1>1, <1>3, <1>5, <1>7

\* The element of a rank, newest first.
NthOf(M, k) == CHOOSE i \in M : Cardinality({j \in M : j >= i}) = k

LEMMA NthIsNthOf ==
  \A f, n, k : Trail!Nth(f, n, k) = NthOf(Trail!Matching(f, n), k)
BY TrailCounts DEF Trail!Nth, Trail!Rank, NthOf

\* The elements in the order of their ranks.
LEMMA NthOfOrders ==
  ASSUME NEW M, NEW n \in Nat, M \subseteq 1 .. n
  PROVE  /\ Cardinality(M) \in Nat
         /\ \A k \in 1 .. Cardinality(M) : NthOf(M, k) \in M
         /\ \A k, m \in 1 .. Cardinality(M) : k < m => NthOf(M, k) > NthOf(M, m)
         /\ \A i \in M : \E k \in 1 .. Cardinality(M) : NthOf(M, k) = i
<1>. DEFINE R(i) == Cardinality({j \in M : j >= i})
<1>1. /\ Cardinality(M) \in Nat
      /\ \A i \in M : R(i) \in 1 .. Cardinality(M)
      /\ \A i, j \in M : i < j => R(j) < R(i)
      /\ \A m \in 1 .. Cardinality(M) : \E i \in M : R(i) = m
  BY Newest
<1>2. \A k : NthOf(M, k) = CHOOSE i \in M : R(i) = k
  BY DEF NthOf
<1>3. \A i \in M : i \in Nat
  OBVIOUS
<1>. HIDE DEF R
<1>4. \A k \in 1 .. Cardinality(M) : NthOf(M, k) \in M /\ R(NthOf(M, k)) = k
  BY <1>1, <1>2
<1>5. \A i, j \in M : R(i) = R(j) => i = j
  <2>1. \A i \in M : R(i) \in Int
    BY <1>1
  <2>2. QED
    BY <1>1, <1>3, <2>1
<1>6. ASSUME NEW k \in 1 .. Cardinality(M), NEW m \in 1 .. Cardinality(M), k < m PROVE NthOf(M, k) > NthOf(M, m)
  <2>1. NthOf(M, k) \in M /\ NthOf(M, m) \in M /\ R(NthOf(M, k)) = k /\ R(NthOf(M, m)) = m
    BY <1>4
  <2>2. PICK x \in M, y \in M : x = NthOf(M, k) /\ y = NthOf(M, m) /\ R(x) = k /\ R(y) = m
    BY <2>1
  <2>3. x < y => R(y) < R(x)
    BY <1>1
  <2>4. x \in Nat /\ y \in Nat /\ k \in Int /\ m \in Int
    BY <1>3
  <2>5. x # y
    BY <1>6, <2>2, <2>4
  <2>6. x > y
    BY <1>6, <2>2, <2>3, <2>4, <2>5
  <2>7. QED
    BY <2>2, <2>6
<1>7. ASSUME NEW i \in M PROVE \E k \in 1 .. Cardinality(M) : NthOf(M, k) = i
  <2>1. R(i) \in 1 .. Cardinality(M)
    BY <1>1
  <2>2. NthOf(M, R(i)) = i
    BY <1>4, <1>5, <2>1
  <2>3. QED
    BY <2>1, <2>2
<1>8. QED
  BY <1>1, <1>4, <1>6, <1>7

\* The newest of the first n rows that match, in their order, up to the limit.
AreNewest(shown, f, n) ==
  /\ shown \in Seq(Events) /\ Len(shown) <= Limit
  /\ \E place \in [DOMAIN shown -> 1 .. n] :
       /\ \A j \in DOMAIN shown : shown[j] = log[place[j]] /\ Trail!Fits(f, shown[j], place[j])
       /\ \A j, k \in DOMAIN shown : j < k => place[j] > place[k]
       /\ \A i \in 1 .. n :
            Trail!Fits(f, log[i], i) =>
              \/ \E j \in DOMAIN shown : place[j] = i
              \/ Len(shown) = Limit /\ \A j \in DOMAIN shown : i < place[j]

\* The answer of a query.
LEMMA QueryIsNewest ==
  ASSUME Trail!Filed, log \in Seq(Events), NEW f \in Filters, NEW n \in 0 .. Len(log)
  PROVE  AreNewest(Trail!Query(f, n), f, n)
<1>1. PICK M : M = Trail!Matching(f, n)
  OBVIOUS
<1>2. n \in Nat /\ Len(log) \in Nat /\ n <= Len(log) /\ \A i \in 1 .. n : log[i] \in Events
  <2>1. Len(log) \in Nat /\ DOMAIN log = 1 .. Len(log)
    BY LenProperties
  <2>2. \A i \in 1 .. Len(log) : log[i] \in Events
    BY ElementOfSeq
  <2>3. QED
    BY <2>1, <2>2
<1>3. M \subseteq 1 .. n /\ \A i \in 1 .. n : i \in M <=> Trail!Fits(f, log[i], i)
  BY <1>1 DEF Trail!Matching
<1>4. /\ Cardinality(M) \in Nat
      /\ \A k \in 1 .. Cardinality(M) : NthOf(M, k) \in M
      /\ \A k, m \in 1 .. Cardinality(M) : k < m => NthOf(M, k) > NthOf(M, m)
      /\ \A i \in M : \E k \in 1 .. Cardinality(M) : NthOf(M, k) = i
  BY <1>2, <1>3, NthOfOrders
<1>5. Limit \in Nat
  BY DEF Trail!Filed
<1>6. PICK size \in Nat : /\ size = Trail!Limited(Cardinality(M)) /\ size <= Limit /\ size <= Cardinality(M)
                          /\ size < Cardinality(M) => size = Limit
  BY <1>4, <1>5 DEF Trail!Limited
<1>7. PICK place : place = [k \in 1 .. size |-> NthOf(M, k)]
  OBVIOUS
<1>8. PICK shown : shown = [k \in 1 .. size |-> log[NthOf(M, k)]]
  OBVIOUS
<1>9. shown = Trail!Query(f, n)
  BY <1>1, <1>6, <1>8, NthIsNthOf, TrailCounts DEF Trail!Query
<1>10. 1 .. size \subseteq 1 .. Cardinality(M)
  BY <1>4, <1>6
<1>11. \A k \in 1 .. size : place[k] \in M /\ place[k] \in 1 .. n /\ shown[k] = log[place[k]] /\ shown[k] \in Events
  BY <1>2, <1>3, <1>4, <1>7, <1>8, <1>10
<1>12. shown \in Seq(Events) /\ Len(shown) = size /\ DOMAIN shown = 1 .. size
  <2>1. shown \in [1 .. size -> Events]
    BY <1>8, <1>11
  <2>2. QED
    BY <1>6, <1>8, <2>1 DEF Seq
<1>13. place \in [1 .. size -> 1 .. n]
  BY <1>7, <1>11
<1>14. \A j, k \in 1 .. size : j < k => place[j] > place[k]
  BY <1>4, <1>7, <1>10
<1>15. ASSUME NEW i \in 1 .. n, Trail!Fits(f, log[i], i)
       PROVE  \/ \E j \in 1 .. size : place[j] = i
              \/ size = Limit /\ \A j \in 1 .. size : i < place[j]
  <2>1. PICK k \in 1 .. Cardinality(M) : NthOf(M, k) = i
    BY <1>3, <1>4, <1>15
  <2>2. CASE k <= size
    BY <1>7, <2>1, <2>2
  <2>3. CASE k > size
    <3>1. size = Limit
      BY <1>4, <1>6, <2>3
    <3>2. \A j \in 1 .. size : j < k /\ j \in 1 .. Cardinality(M)
      BY <1>4, <1>6, <2>3
    <3>3. \A j \in 1 .. size : NthOf(M, j) > i
      BY <1>4, <2>1, <3>2
    <3>4. QED
      BY <1>7, <1>11, <3>1, <3>3
  <2>4. QED
    BY <1>6, <2>2, <2>3
<1>16. \A j \in 1 .. size : Trail!Fits(f, shown[j], place[j])
  BY <1>3, <1>11
<1>17. QED
  BY <1>6, <1>9, <1>11, <1>12, <1>13, <1>14, <1>15, <1>16 DEF AreNewest

\* Appending a row changes no answer about the rows before it.
LEMMA QueryStays ==
  ASSUME Trail!Filed, log \in Seq(Events), NEW e \in Events, log' = Append(log, e),
         NEW f, NEW n \in 0 .. Len(log)
  PROVE  Trail!Query(f, n)' = Trail!Query(f, n)
<1>1. n \in Nat /\ \A i \in 1 .. n : log'[i] = log[i]
  <2>1. Len(log) \in Nat
    BY LenProperties
  <2>2. \A i \in 1 .. Len(log) : Append(log, e)[i] = log[i]
    BY AppendProperties
  <2>3. QED
    BY <2>1, <2>2
<1>2. PICK M : M = Trail!Matching(f, n)
  OBVIOUS
<1>3. Trail!Matching(f, n)' = M
  BY <1>1, <1>2 DEF Trail!Matching, Trail!Fits
<1>4. M \subseteq 1 .. n
  BY <1>2 DEF Trail!Matching
<1>5. Cardinality(M) \in Nat /\ \A k \in 1 .. Cardinality(M) : NthOf(M, k) \in M
  BY <1>1, <1>4, NthOfOrders
<1>6. PICK size : size = Trail!Limited(Cardinality(M)) /\ 1 .. size \subseteq 1 .. Cardinality(M)
  BY <1>5 DEF Trail!Limited, Trail!Filed
<1>7. Trail!Query(f, n) = [k \in 1 .. size |-> log[NthOf(M, k)]]
  BY <1>2, <1>6, NthIsNthOf, TrailCounts DEF Trail!Query
<1>8. \A k : Trail!Nth(f, n, k)' = NthOf(M, k)
  BY <1>3, TrailCounts DEF Trail!Nth, Trail!Rank, NthOf
<1>9. Trail!Query(f, n)' = [k \in 1 .. size |-> log'[NthOf(M, k)]]
  BY <1>3, <1>6, <1>8, TrailCounts DEF Trail!Query, Trail!Limited
<1>10. \A k \in 1 .. size : log'[NthOf(M, k)] = log[NthOf(M, k)]
  BY <1>1, <1>4, <1>5, <1>6
<1>11. QED
  BY <1>7, <1>9, <1>10

-----------------------------------------------------------------------------
(* The groups of the sidebar, and the trail.                               *)

\* The counts of all groups together are the number of rows.
LEMMA GroupsCount ==
  ASSUME NEW keyed, NEW n \in Nat, DOMAIN keyed = 1 .. n
  PROVE  Cardinality(UNION {{k} \X (1 .. Trail!Grouped(keyed)[k].count) : k \in DOMAIN Trail!Grouped(keyed)}) = n
<1>1. PICK key : key = [i \in 1 .. n |-> keyed[i].key]
  OBVIOUS
<1>2. PICK K : K = {key[i] : i \in 1 .. n}
  OBVIOUS
<1>3. PICK of : of = [k \in K |-> {i \in 1 .. n : key[i] = k}]
  OBVIOUS
<1>4. DOMAIN Trail!Grouped(keyed) = K /\ \A k \in K : Trail!Grouped(keyed)[k].count = Cardinality(of[k])
  <2>1. DOMAIN Trail!Grouped(keyed) = {keyed[i].key : i \in DOMAIN keyed}
    BY DEF Trail!Grouped
  <2>2. {keyed[i].key : i \in DOMAIN keyed} = K
    BY <1>1, <1>2
  <2>3. ASSUME NEW k \in K PROVE Trail!Grouped(keyed)[k].count = Cardinality(of[k])
    <3>1. {i \in DOMAIN keyed : keyed[i].key = k} = of[k]
      BY <1>1, <1>3, <2>3
    <3>2. Trail!Grouped(keyed)[k].count = Trail!Cardinality({i \in DOMAIN keyed : keyed[i].key = k})
      BY <2>2, <2>3 DEF Trail!Grouped
    <3>3. QED
      BY <3>1, <3>2, TrailCounts
  <2>4. QED
    BY <2>1, <2>2, <2>3
<1>. DEFINE P == UNION {{k} \X (1 .. Cardinality(of[k])) : k \in K}
            g == [i \in 1 .. n |-> <<key[i], Cardinality({j \in of[key[i]] : j >= i})>>]
<1>5. \A i \in 1 .. n : key[i] \in K /\ i \in of[key[i]]
  BY <1>1, <1>2, <1>3
<1>6. \A k \in K : of[k] \subseteq 1 .. n /\ \A i \in of[k] : key[i] = k
  BY <1>3
<1>7. ASSUME NEW k \in K
      PROVE  /\ \A i \in of[k] : Cardinality({j \in of[k] : j >= i}) \in 1 .. Cardinality(of[k])
             /\ \A i, j \in of[k] : i < j => Cardinality({m \in of[k] : m >= j}) < Cardinality({m \in of[k] : m >= i})
             /\ \A m \in 1 .. Cardinality(of[k]) : \E i \in of[k] : Cardinality({j \in of[k] : j >= i}) = m
             /\ Cardinality(of[k]) \in Nat
  BY <1>6, Newest
<1>8. g \in [1 .. n -> P]
  <2>1. ASSUME NEW i \in 1 .. n PROVE <<key[i], Cardinality({j \in of[key[i]] : j >= i})>> \in P
    <3>1. key[i] \in K /\ Cardinality({j \in of[key[i]] : j >= i}) \in 1 .. Cardinality(of[key[i]])
      BY <1>5, <1>7
    <3>2. PICK k, m : k \in K /\ k = key[i] /\ m = Cardinality({j \in of[key[i]] : j >= i}) /\ m \in 1 .. Cardinality(of[k])
      BY <3>1
    <3>3. <<k, m>> \in {k} \X (1 .. Cardinality(of[k]))
      BY <3>2
    <3>4. <<k, m>> \in P
      BY <3>2, <3>3
    <3>5. QED
      BY <3>2, <3>4
  <2>2. QED
    BY <2>1
<1>9. ASSUME NEW i \in 1 .. n, NEW j \in 1 .. n, g[i] = g[j] PROVE i = j
  <2>1. PICK k \in K : k = key[i] /\ k = key[j] /\ i \in of[k] /\ j \in of[k]
    <3>1. key[i] = key[j]
      BY <1>9
    <3>2. QED
      BY <1>5, <3>1
  <2>2. PICK r : r = [m \in of[k] |-> Cardinality({h \in of[k] : h >= m})]
    OBVIOUS
  <2>3. r[i] = r[j]
    <3>1. g[i][2] = r[i] /\ g[j][2] = r[j]
      BY <2>1, <2>2
    <3>2. QED
      BY <1>9, <3>1
  <2>4. (i < j => r[j] < r[i]) /\ (j < i => r[i] < r[j]) /\ r[i] \in Int /\ r[j] \in Int
    <3>1. /\ \A a \in of[k] : Cardinality({h \in of[k] : h >= a}) \in 1 .. Cardinality(of[k])
          /\ \A a, b \in of[k] : a < b => Cardinality({h \in of[k] : h >= b}) < Cardinality({h \in of[k] : h >= a})
      BY <1>7
    <3>2. \A a \in of[k] : r[a] = Cardinality({h \in of[k] : h >= a})
      BY <2>2
    <3>3. \A a \in of[k] : r[a] \in 1 .. Cardinality(of[k])
      BY <3>1, <3>2
    <3>4. \A a, b \in of[k] : a < b => r[b] < r[a]
      BY <3>1, <3>2
    <3>5. QED
      BY <2>1, <3>3, <3>4
  <2>5. QED
    BY <2>3, <2>4
<1>10. ASSUME NEW x \in P PROVE \E i \in 1 .. n : g[i] = x
  <2>0. PICK k \in K : x \in {k} \X (1 .. Cardinality(of[k]))
    BY <1>10
  <2>1. PICK m \in 1 .. Cardinality(of[k]) : x = <<k, m>>
    BY <2>0
  <2>2. PICK i \in of[k] : Cardinality({j \in of[k] : j >= i}) = m
    BY <1>7
  <2>3. i \in 1 .. n /\ key[i] = k
    BY <1>6
  <2>4. QED
    BY <2>1, <2>2, <2>3
<1>. HIDE DEF g, P
<1>11. g \in Bijection(1 .. n, P)
  BY <1>8, <1>9, <1>10 DEF Bijection, Injection, Surjection, IsInjective
<1>12. ExistsBijection(1 .. n, P)
  BY <1>11 DEF ExistsBijection
<1>13. Cardinality(P) = n
  BY <1>12, FS_CountingElements
<1>14. UNION {{k} \X (1 .. Trail!Grouped(keyed)[k].count) : k \in DOMAIN Trail!Grouped(keyed)} = P
  BY <1>4 DEF P
<1>15. QED
  BY <1>13, <1>14

\* The count beside a key, or beside a part of a key.
LEMMA CountsOf ==
  ASSUME NEW keyed, NEW key, NEW sub, NEW S,
         \A i : i \in S <=> i \in DOMAIN keyed /\ keyed[i].key = key /\ (sub # "none" => keyed[i].part = sub)
  PROVE  Trail!CountAt(<<Trail!Grouped(keyed), key, sub>>) = Cardinality(S)
<1>1. PICK path : path = <<Trail!Grouped(keyed), key, sub>>
  OBVIOUS
<1>2. path[1] = Trail!Grouped(keyed) /\ path[2] = key /\ path[3] = sub
  BY <1>1
<1>3. PICK of : of = {i \in DOMAIN keyed : keyed[i].key = key}
  OBVIOUS
<1>4. DOMAIN Trail!Grouped(keyed) = {keyed[i].key : i \in DOMAIN keyed}
  BY DEF Trail!Grouped
<1>5. CASE of = {}
  <2>1. key \notin DOMAIN Trail!Grouped(keyed)
    BY <1>3, <1>4, <1>5
  <2>2. S = {}
    BY <1>3, <1>5
  <2>3. Trail!CountAt(path) = 0
    BY <1>2, <2>1 DEF Trail!CountAt
  <2>4. QED
    BY <1>1, <2>2, <2>3, FS_EmptySet
<1>6. CASE of # {}
  <2>1. key \in DOMAIN Trail!Grouped(keyed)
    BY <1>3, <1>4, <1>6
  <2>2. PICK g : g = Trail!Grouped(keyed)[key]
    OBVIOUS
  <2>3. g = [count |-> Trail!Cardinality(of),
             parts |-> [p \in {keyed[i].part : i \in of} \ {Trail!None} |->
                          Trail!Cardinality({i \in of : keyed[i].part = p})]]
    BY <1>3, <1>4, <2>1, <2>2 DEF Trail!Grouped
  <2>4. /\ g.count = Cardinality(of)
        /\ DOMAIN g.parts = {keyed[i].part : i \in of} \ {"none"}
        /\ \A p \in DOMAIN g.parts : g.parts[p] = Cardinality({i \in of : keyed[i].part = p})
    BY <2>3, TrailCounts DEF Trail!None
  <2>5. Trail!CountAt(path) = IF sub = "none" THEN g.count ELSE IF sub \in DOMAIN g.parts THEN g.parts[sub] ELSE 0
    BY <1>2, <2>1, <2>2 DEF Trail!CountAt, Trail!None
  <2>7. CASE sub = "none"
    <3>1. S = of
      BY <1>3, <2>7
    <3>2. QED
      BY <1>1, <2>4, <2>5, <2>7, <3>1
  <2>8. CASE sub # "none" /\ sub \in DOMAIN g.parts
    <3>1. S = {i \in of : keyed[i].part = sub}
      BY <1>3, <2>8
    <3>2. QED
      BY <1>1, <2>4, <2>5, <2>8, <3>1
  <2>9. CASE sub # "none" /\ sub \notin DOMAIN g.parts
    <3>1. S = {}
      BY <1>3, <2>4, <2>9
    <3>2. QED
      BY <1>1, <2>5, <2>9, <3>1, FS_EmptySet
  <2>10. QED
    BY <2>7, <2>8, <2>9
<1>7. QED
  BY <1>5, <1>6

\* Counting to a number.
LEMMA CountTo == \A n \in Nat : Cardinality(1 .. n) = n
<1>1. 0 \in Int /\ 1 \in Int
  OBVIOUS
<1>2. ASSUME NEW n \in Nat PROVE Cardinality(1 .. n) = n
  <2>1. n \in Int /\ 1 \in Int
    OBVIOUS
  <2>2. Cardinality(1 .. n) = IF 1 > n THEN 0 ELSE n - 1 + 1
    BY <2>1, FS_Interval
  <2>3. QED
    BY <2>1, <2>2
<1>3. QED
  BY <1>2

TrailModes == {"handler", "store", "category", "unified"}

\* What is chosen.
TrailChosen ==
  /\ chosen.mode \in TrailModes
  /\ chosen = [mode |-> chosen.mode, handler |-> chosen.handler, shop |-> chosen.shop, category |-> chosen.category]
  /\ chosen.mode = "handler" => chosen.shop # ""

\* The rows on the page.
TrailShown == answers[applied].rows \in Seq(Events)

\* The trail has as many rows as the sidebar counts beside what its title names.
LEMMA TitleCounts ==
  ASSUME Trail!Filed, TrailShown, TrailChosen
  PROVE  Cardinality(Trail!Trail) = Trail!CountAt(Trail!Title)
<1>1. PICK shown : shown = answers[applied].rows
  OBVIOUS
<1>2. Trail!Rows = shown
  BY <1>1 DEF Trail!Rows
<1>3. /\ DOMAIN shown = 1 .. Len(shown) /\ Len(shown) \in Nat
      /\ \A i \in DOMAIN shown : shown[i].by # "none" /\ shown[i].shop # "none"
  <2>1. shown \in Seq(Events)
    BY <1>1 DEF TrailShown
  <2>2. DOMAIN shown = 1 .. Len(shown) /\ Len(shown) \in Nat
    BY <2>1, LenProperties
  <2>3. \A i \in DOMAIN shown : shown[i] \in Events
    BY <2>1, <2>2, ElementOfSeq
  <2>4. QED
    BY <2>2, <2>3 DEF Trail!Filed, Trail!None
<1>4. CASE chosen.mode = "handler"
  <2>1. PICK who : who = Trail!ActiveHandler
    OBVIOUS
  <2>2. Trail!Trail = {i \in DOMAIN shown : shown[i].by = who /\ chosen.shop \in {"none", shown[i].shop}}
    BY <1>2, <1>4, <2>1 DEF Trail!Trail, Trail!None
  <2>3. PICK keyed : keyed = [i \in DOMAIN shown |-> [key |-> shown[i].by, part |-> IF shown[i].shop = "" THEN "none" ELSE shown[i].shop]]
    OBVIOUS
  <2>4. Trail!Title = <<Trail!Grouped(keyed), who, chosen.shop>>
    BY <1>2, <1>4, <2>1, <2>3 DEF Trail!Title, Trail!HandlerGroups, Trail!ByHandler, Trail!None
  <2>5. /\ DOMAIN keyed = DOMAIN shown
        /\ \A i \in DOMAIN shown : /\ keyed[i].key = shown[i].by
                                   /\ keyed[i].part = IF shown[i].shop = "" THEN "none" ELSE shown[i].shop
    BY <2>3
  <2>6. PICK sub, S : sub = chosen.shop /\ S = Trail!Trail
    OBVIOUS
  <2>7. \A i : i \in S <=> i \in DOMAIN keyed /\ keyed[i].key = who /\ (sub # "none" => keyed[i].part = sub)
    BY <1>3, <1>4, <2>2, <2>5, <2>6 DEF TrailChosen
  <2>8. Trail!CountAt(<<Trail!Grouped(keyed), who, sub>>) = Cardinality(S)
    BY <2>7, CountsOf
  <2>9. QED
    BY <2>4, <2>6, <2>8
<1>5. CASE chosen.mode = "store"
  <2>1. PICK shop : shop = Trail!ActiveStore
    OBVIOUS
  <2>2. Trail!Trail = {i \in DOMAIN shown : Trail!ShopOf(shown[i]) = shop /\ chosen.handler \in {"none", shown[i].by}}
    BY <1>2, <1>5, <2>1 DEF Trail!Trail, Trail!None
  <2>3. PICK keyed : keyed = [i \in DOMAIN shown |-> [key |-> Trail!ShopOf(shown[i]), part |-> shown[i].by]]
    OBVIOUS
  <2>4. Trail!Title = <<Trail!Grouped(keyed), shop, chosen.handler>>
    BY <1>2, <1>5, <2>1, <2>3 DEF Trail!Title, Trail!StoreGroups, Trail!ByStore
  <2>5. /\ DOMAIN keyed = DOMAIN shown
        /\ \A i \in DOMAIN shown : keyed[i].key = Trail!ShopOf(shown[i]) /\ keyed[i].part = shown[i].by
    BY <2>3
  <2>6. PICK sub, S : sub = chosen.handler /\ S = Trail!Trail
    OBVIOUS
  <2>7. \A i : i \in S <=> i \in DOMAIN keyed /\ keyed[i].key = shop /\ (sub # "none" => keyed[i].part = sub)
    BY <1>3, <2>2, <2>5, <2>6
  <2>8. Trail!CountAt(<<Trail!Grouped(keyed), shop, sub>>) = Cardinality(S)
    BY <2>7, CountsOf
  <2>9. QED
    BY <2>4, <2>6, <2>8
<1>6. CASE chosen.mode = "category"
  <2>1. PICK category : category = Trail!ActiveCategory
    OBVIOUS
  <2>2. Trail!Trail = {i \in DOMAIN shown : Trail!GetActionCategory(shown[i].area) = category}
    BY <1>2, <1>6, <2>1 DEF Trail!Trail
  <2>3. PICK keyed : keyed = [i \in DOMAIN shown |-> [key |-> Trail!GetActionCategory(shown[i].area), part |-> "none"]]
    OBVIOUS
  <2>4. Trail!Title = <<Trail!Grouped(keyed), category, "none">>
    BY <1>2, <1>6, <2>1, <2>3 DEF Trail!Title, Trail!CategoryGroups, Trail!ByCategory, Trail!None
  <2>5. DOMAIN keyed = DOMAIN shown /\ \A i \in DOMAIN shown : keyed[i].key = Trail!GetActionCategory(shown[i].area)
    BY <2>3
  <2>6. PICK S : S = Trail!Trail
    OBVIOUS
  <2>7. \A i : i \in S <=> i \in DOMAIN keyed /\ keyed[i].key = category /\ ("none" # "none" => keyed[i].part = "none")
    BY <2>2, <2>5, <2>6
  <2>8. Trail!CountAt(<<Trail!Grouped(keyed), category, "none">>) = Cardinality(S)
    BY <2>7, CountsOf
  <2>9. QED
    BY <2>4, <2>6, <2>8
<1>7. CASE chosen.mode = "unified"
  <2>1. Trail!Trail = DOMAIN shown
    BY <1>2, <1>7 DEF Trail!Trail
  <2>2. Trail!Title = <<[all |-> [count |-> Len(shown)]], "all", "none">>
    BY <1>2, <1>7 DEF Trail!Title, Trail!None
  <2>3. Trail!CountAt(<<[all |-> [count |-> Len(shown)]], "all", "none">>) = Len(shown)
    BY DEF Trail!CountAt, Trail!None
  <2>4. Cardinality(1 .. Len(shown)) = Len(shown)
    BY <1>3, CountTo
  <2>5. QED
    BY <1>3, <2>1, <2>2, <2>3, <2>4
<1>8. QED
  BY <1>4, <1>5, <1>6, <1>7 DEF TrailModes, TrailChosen

\* The counts of a mode's groups are of the rows on the page.
LEMMA ModesCount ==
  ASSUME TrailShown
  PROVE  \A groups \in {Trail!HandlerGroups, Trail!StoreGroups, Trail!CategoryGroups} :
           Trail!Cardinality(UNION {{k} \X (1 .. groups[k].count) : k \in DOMAIN groups}) = Len(Trail!Rows)
<1>1. PICK n \in Nat : n = Len(Trail!Rows) /\ DOMAIN Trail!Rows = 1 .. n
  <2>1. Trail!Rows \in Seq(Events)
    BY DEF TrailShown, Trail!Rows
  <2>2. QED
    BY <2>1, LenProperties
<1>2. PICK a, b, c : a = Trail!ByHandler /\ b = Trail!ByStore /\ c = Trail!ByCategory
  OBVIOUS
<1>3. DOMAIN a = 1 .. n /\ DOMAIN b = 1 .. n /\ DOMAIN c = 1 .. n
  BY <1>1, <1>2 DEF Trail!ByHandler, Trail!ByStore, Trail!ByCategory
<1>4. Trail!HandlerGroups = Trail!Grouped(a) /\ Trail!StoreGroups = Trail!Grouped(b) /\ Trail!CategoryGroups = Trail!Grouped(c)
  BY <1>2 DEF Trail!HandlerGroups, Trail!StoreGroups, Trail!CategoryGroups
<1>5. Cardinality(UNION {{k} \X (1 .. Trail!Grouped(a)[k].count) : k \in DOMAIN Trail!Grouped(a)}) = n
  BY <1>3, GroupsCount
<1>6. Cardinality(UNION {{k} \X (1 .. Trail!Grouped(b)[k].count) : k \in DOMAIN Trail!Grouped(b)}) = n
  BY <1>3, GroupsCount
<1>7. Cardinality(UNION {{k} \X (1 .. Trail!Grouped(c)[k].count) : k \in DOMAIN Trail!Grouped(c)}) = n
  BY <1>3, GroupsCount
<1>8. ASSUME NEW groups \in {Trail!HandlerGroups, Trail!StoreGroups, Trail!CategoryGroups}
      PROVE  Trail!Cardinality(UNION {{k} \X (1 .. groups[k].count) : k \in DOMAIN groups}) = Len(Trail!Rows)
  <2>1. CASE groups = Trail!Grouped(a)
    BY <1>1, <1>5, <2>1, TrailCounts
  <2>2. CASE groups = Trail!Grouped(b)
    BY <1>1, <1>6, <2>2, TrailCounts
  <2>3. CASE groups = Trail!Grouped(c)
    BY <1>1, <1>7, <2>3, TrailCounts
  <2>4. QED
    BY <1>4, <1>8, <2>1, <2>2, <2>3
<1>9. QED
  BY <1>8

\* A query's answer is of the log.
LEMMA QueryFixed ==
  ASSUME log' = log, NEW f, NEW n
  PROVE  Trail!Query(f, n)' = Trail!Query(f, n)
<1>1. PICK M : M = Trail!Matching(f, n)
  OBVIOUS
<1>2. Trail!Matching(f, n)' = M
  BY <1>1 DEF Trail!Matching, Trail!Fits
<1>3. \A k : Trail!Nth(f, n, k) = NthOf(M, k) /\ Trail!Nth(f, n, k)' = NthOf(M, k)
  BY <1>1, <1>2, TrailCounts DEF Trail!Nth, Trail!Rank, NthOf
<1>4. PICK size : size = Trail!Limited(Cardinality(M))
  OBVIOUS
<1>5. Trail!Query(f, n) = [k \in 1 .. size |-> log[NthOf(M, k)]]
  BY <1>1, <1>3, <1>4, TrailCounts DEF Trail!Query
<1>6. Trail!Query(f, n)' = [k \in 1 .. size |-> log'[NthOf(M, k)]]
  BY <1>2, <1>3, <1>4, TrailCounts DEF Trail!Query, Trail!Limited
<1>7. QED
  BY <1>5, <1>6

\* A query about no rows.
LEMMA QueryOfNone == ASSUME Trail!Filed, NEW f PROVE Trail!Query(f, 0) = <<>>
<1>1. PICK M : M = Trail!Matching(f, 0)
  OBVIOUS
<1>2. M = {}
  BY <1>1 DEF Trail!Matching
<1>3. Trail!Cardinality(M) = 0
  BY <1>2, TrailCounts, FS_EmptySet
<1>4. Trail!Limited(0) = 0
  BY DEF Trail!Limited, Trail!Filed
<1>5. PICK shown : shown = Trail!Query(f, 0)
  OBVIOUS
<1>6. shown = [k \in 1 .. 0 |-> log[Trail!Nth(f, 0, k)]]
  BY <1>1, <1>3, <1>4, <1>5 DEF Trail!Query
<1>7. shown \in Seq({}) /\ Len(shown) = 0
  <2>1. shown \in [1 .. 0 -> {}]
    BY <1>6
  <2>2. 0 \in Nat
    OBVIOUS
  <2>3. QED
    BY <1>6, <2>1, <2>2
<1>8. QED
  BY <1>5, <1>7, EmptySeq

-----------------------------------------------------------------------------
(* The audit trail as a part of the console.                               *)

TrailTyped ==
  /\ log \in Seq(Events) /\ Len(log) <= MaxLog
  /\ draft \in Filters /\ applied \in Filters

\* The rows kept for a filter are those that matched when the newest answer was read.
TrailAnswered ==
  /\ seen = [f \in Filters |-> seen[f]] /\ answers = [f \in Filters |-> answers[f]]
  /\ \A f \in Filters :
       /\ seen[f] \in 0 .. Len(log)
       /\ answers[f] = [rows |-> Trail!Query(f, seen[f]), at |-> seen[f]]

\* A filter is asked for once, and what is being answered is not older than what was.
TrailAsked ==
  \A q \in asked :
    /\ q = [key |-> q.key, at |-> q.at] /\ q.key \in Filters /\ q.at \in 0 .. Len(log)
    /\ q.at # 0 => seen[q.key] <= q.at
    /\ \A r \in asked : r.key = q.key => r = q

TrailInv == TrailTyped /\ TrailChosen /\ TrailAnswered /\ TrailAsked

LEMMA TrailInit == ASSUME Trail!Filed, Trail!Init PROVE TrailInv
<1>1. Len(log) \in Nat /\ log \in Seq(Events) /\ Len(log) <= MaxLog
  <2>1. log \in Seq(Events)
    BY DEF Trail!Init, Trail!Filed
  <2>2. Len(log) \in Nat
    BY <2>1, LenProperties
  <2>3. QED
    BY <2>1, <2>2 DEF Trail!Init, Trail!Filed
<1>2. Trail!NoFilter \in Filters
  BY DEF Trail!Filed
<1>3. TrailTyped
  BY <1>1, <1>2 DEF TrailTyped, Trail!Init
<1>4. TrailChosen
  BY DEF TrailChosen, TrailModes, Trail!Init, Trail!Unchosen, Trail!None
<1>5. TrailAnswered
  <2>1. \A f \in Filters : seen[f] = 0 /\ answers[f] = [rows |-> <<>>, at |-> 0]
    BY DEF Trail!Init
  <2>2. seen = [f \in Filters |-> seen[f]] /\ answers = [f \in Filters |-> answers[f]]
    BY DEF Trail!Init
  <2>3. \A f : Trail!Query(f, 0) = <<>>
    BY QueryOfNone
  <2>4. 0 \in 0 .. Len(log)
    BY <1>1
  <2>5. QED
    BY <2>1, <2>2, <2>3, <2>4 DEF TrailAnswered
<1>6. TrailAsked
  <2>1. PICK q : q = [key |-> Trail!NoFilter, at |-> 0]
    OBVIOUS
  <2>2. asked = {q} /\ q.key = Trail!NoFilter /\ q.at = 0
    BY <2>1 DEF Trail!Init
  <2>3. QED
    BY <1>1, <1>2, <2>1, <2>2 DEF TrailAsked
<1>7. QED
  BY <1>3, <1>4, <1>5, <1>6 DEF TrailInv

\* A step that leaves the log and the answers.
LEMMA AnswersKept ==
  ASSUME TrailInv, log' = log, answers' = answers, seen' = seen PROVE TrailAnswered'
<1>1. \A f : Trail!Query(f, seen[f])' = Trail!Query(f, seen[f])
  <2>1. TAKE f
  <2>2. PICK n : n = seen[f]
    OBVIOUS
  <2>3. Trail!Query(f, n)' = Trail!Query(f, n)
    BY QueryFixed
  <2>4. Trail!Query(f, seen[f])' = Trail!Query(f, n)'
    BY <2>2 DEF Trail!Query, Trail!Nth, Trail!Rank, Trail!Matching, Trail!Fits, Trail!Limited
  <2>5. QED
    BY <2>2, <2>3, <2>4
<1>2. QED
  BY <1>1 DEF TrailInv, TrailAnswered

\* It also asks for a filter, or gives up.
LEMMA TrailKept ==
  ASSUME TrailInv, log' = log, answers' = answers, seen' = seen,
         \/ asked' \subseteq asked
         \/ \E f \in Filters : asked' = Trail!Asked(f)
  PROVE  TrailAnswered' /\ TrailAsked'
<1>1. TrailAnswered'
  BY AnswersKept
<1>2. ASSUME asked' \subseteq asked PROVE TrailAsked'
  BY <1>2 DEF TrailInv, TrailAsked
<1>3. ASSUME NEW f \in Filters, asked' = Trail!Asked(f) PROVE TrailAsked'
  <2>1. CASE \E q \in asked : q.key = f
    <3>1. asked' = asked
      BY <1>3, <2>1 DEF Trail!Asked
    <3>2. QED
      BY <3>1 DEF TrailInv, TrailAsked
  <2>2. CASE ~ \E q \in asked : q.key = f
    <3>1. PICK r : r = [key |-> f, at |-> 0]
      OBVIOUS
    <3>2. asked' = asked \cup {r}
      BY <1>3, <2>2, <3>1 DEF Trail!Asked
    <3>3. r = [key |-> r.key, at |-> r.at] /\ r.key = f /\ r.at = 0
      BY <3>1
    <3>4. 0 \in 0 .. Len(log)
      <4>1. Len(log) \in Nat
        BY LenProperties DEF TrailInv, TrailTyped
      <4>2. QED
        BY <4>1
    <3>5. QED
      BY <2>2, <3>2, <3>3, <3>4 DEF TrailInv, TrailAsked
  <2>3. QED
    BY <2>1, <2>2
<1>4. QED
  BY <1>1, <1>2, <1>3

LEMMA TrailStep == ASSUME Trail!Filed, TrailInv, [Trail!Next]_(Trail!vars) PROVE TrailInv'
<1>0. /\ log \in Seq(Events) /\ Len(log) \in Nat /\ Len(log) <= MaxLog /\ MaxLog \in Nat
      /\ Trail!NoFilter \in Filters
  <2>1. log \in Seq(Events)
    BY DEF TrailInv, TrailTyped
  <2>2. Len(log) \in Nat
    BY <2>1, LenProperties
  <2>3. QED
    BY <2>1, <2>2 DEF TrailInv, TrailTyped, Trail!Filed
<1>1. ASSUME NEW e \in Events, Trail!AppendRow(e) PROVE TrailInv'
  <2>1. /\ Len(log) < MaxLog /\ log' = Append(log, e)
        /\ draft' = draft /\ applied' = applied /\ answers' = answers /\ asked' = asked
        /\ chosen' = chosen /\ seen' = seen
    BY <1>1 DEF Trail!AppendRow
  <2>2. log' \in Seq(Events) /\ Len(log') = Len(log) + 1
    BY <1>0, <2>1, AppendProperties
  <2>3. TrailTyped'
    BY <1>0, <2>1, <2>2 DEF TrailInv, TrailTyped
  <2>4. TrailChosen'
    BY <2>1 DEF TrailInv, TrailChosen
  <2>5. 0 .. Len(log) \subseteq 0 .. Len(log')
    BY <1>0, <2>2
  <2>6. TrailAnswered'
    <3>1. \A f \in Filters : Trail!Query(f, seen[f])' = Trail!Query(f, seen[f])
      <4>1. TAKE f \in Filters
      <4>2. PICK n \in 0 .. Len(log) : n = seen[f]
        BY DEF TrailInv, TrailAnswered
      <4>3. Trail!Query(f, n)' = Trail!Query(f, n)
        BY <1>0, <2>1, QueryStays
      <4>4. Trail!Query(f, seen[f])' = Trail!Query(f, n)'
        BY <2>1, <4>2 DEF Trail!Query, Trail!Nth, Trail!Rank, Trail!Matching, Trail!Fits, Trail!Limited
      <4>5. QED
        BY <4>2, <4>3, <4>4
    <3>2. QED
      BY <2>1, <2>5, <3>1 DEF TrailInv, TrailAnswered
  <2>7. TrailAsked'
    BY <2>1, <2>5 DEF TrailInv, TrailAsked
  <2>8. QED
    BY <2>3, <2>4, <2>6, <2>7 DEF TrailInv
<1>2. ASSUME NEW f \in Filters, Trail!UpdateDraft(f) PROVE TrailInv'
  <2>1. /\ log' = log /\ applied' = applied /\ answers' = answers /\ asked' = asked /\ chosen' = chosen
        /\ seen' = seen /\ draft' = f
    BY <1>2 DEF Trail!UpdateDraft
  <2>2. TrailAnswered' /\ TrailAsked'
    BY <2>1, TrailKept
  <2>3. QED
    BY <2>1, <2>2 DEF TrailInv, TrailTyped, TrailChosen
<1>3. ASSUME Trail!SubmitFilters \/ Trail!ClearFilters \/ Trail!Refocus PROVE TrailInv'
  <2>1. /\ log' = log /\ answers' = answers /\ chosen' = chosen /\ seen' = seen
        /\ draft' \in Filters /\ applied' \in Filters
        /\ \E f \in Filters : asked' = Trail!Asked(f)
    BY <1>0, <1>3 DEF Trail!SubmitFilters, Trail!ClearFilters, Trail!Refocus, TrailInv, TrailTyped
  <2>2. TrailAnswered' /\ TrailAsked'
    BY <2>1, TrailKept
  <2>3. QED
    BY <2>1, <2>2 DEF TrailInv, TrailTyped, TrailChosen
<1>4. ASSUME NEW q \in asked, Trail!Read(q) PROVE TrailInv'
  <2>1. /\ q.at = 0 /\ asked' = (asked \ {q}) \cup {[q EXCEPT !.at = Len(log)]}
        /\ log' = log /\ draft' = draft /\ applied' = applied /\ answers' = answers /\ chosen' = chosen /\ seen' = seen
    BY <1>4 DEF Trail!Read
  <2>2. q = [key |-> q.key, at |-> q.at] /\ q.key \in Filters
    BY DEF TrailInv, TrailAsked
  <2>3. PICK r : r = [key |-> q.key, at |-> Len(log)]
    OBVIOUS
  <2>4. asked' = (asked \ {q}) \cup {r}
    BY <2>1, <2>2, <2>3
  <2>5. r = [key |-> r.key, at |-> r.at] /\ r.key = q.key /\ r.at = Len(log)
    BY <2>3
  <2>6. TrailAnswered'
    BY <2>1, AnswersKept
  <2>7. seen[q.key] <= Len(log)
    BY <1>0, <2>2 DEF TrailInv, TrailAnswered
  <2>8. TrailAsked'
    BY <1>0, <2>1, <2>2, <2>4, <2>5, <2>7 DEF TrailInv, TrailAsked
  <2>9. QED
    BY <2>1, <2>6, <2>8 DEF TrailInv, TrailTyped, TrailChosen
<1>5. ASSUME NEW q \in asked, Trail!Answer(q) PROVE TrailInv'
  <2>1. /\ q.at # 0 /\ asked' = asked \ {q}
        /\ answers' = [answers EXCEPT ![q.key] = [rows |-> Trail!Query(q.key, q.at), at |-> q.at]]
        /\ seen' = [seen EXCEPT ![q.key] = IF q.at > seen[q.key] THEN q.at ELSE seen[q.key]]
        /\ log' = log /\ draft' = draft /\ applied' = applied /\ chosen' = chosen
    BY <1>5 DEF Trail!Answer
  <2>2. PICK f \in Filters, n \in 0 .. Len(log) : f = q.key /\ n = q.at /\ seen[f] <= n
    BY <2>1 DEF TrailInv, TrailAsked
  <2>3. seen[f] \in 0 .. Len(log)
    BY DEF TrailInv, TrailAnswered
  <2>4. seen' = [seen EXCEPT ![f] = n] /\ answers' = [answers EXCEPT ![f] = [rows |-> Trail!Query(f, n), at |-> n]]
    <3>1. n > seen[f] \/ n = seen[f]
      BY <1>0, <2>2, <2>3
    <3>2. seen' = [seen EXCEPT ![f] = IF n > seen[f] THEN n ELSE seen[f]]
      BY <2>1, <2>2
    <3>3. (IF n > seen[f] THEN n ELSE seen[f]) = n
      BY <3>1
    <3>4. QED
      BY <2>1, <2>2, <3>2, <3>3
  <2>5. TrailAnswered'
    <3>1. ASSUME NEW g \in Filters PROVE Trail!Query(g, seen[g])' = Trail!Query(g, seen'[g])
      <4>1. PICK m : m = seen'[g]
        OBVIOUS
      <4>2. Trail!Query(g, m)' = Trail!Query(g, m)
        BY <2>1, QueryFixed
      <4>3. Trail!Query(g, seen[g])' = Trail!Query(g, m)'
        BY <4>1 DEF Trail!Query, Trail!Nth, Trail!Rank, Trail!Matching, Trail!Fits, Trail!Limited
      <4>4. QED
        BY <4>1, <4>2, <4>3
    <3>2. seen = [g \in Filters |-> seen[g]] /\ answers = [g \in Filters |-> answers[g]]
      BY DEF TrailInv, TrailAnswered
    <3>3. seen' = [g \in Filters |-> seen'[g]] /\ answers' = [g \in Filters |-> answers'[g]]
      BY <2>4, <3>2
    <3>4. /\ seen'[f] = n /\ answers'[f] = [rows |-> Trail!Query(f, n), at |-> n]
          /\ \A g \in Filters \ {f} : seen'[g] = seen[g] /\ answers'[g] = answers[g]
      BY <2>4, <3>2
    <3>5. ASSUME NEW g \in Filters
          PROVE  seen'[g] \in 0 .. Len(log') /\ answers'[g] = [rows |-> Trail!Query(g, seen'[g]), at |-> seen'[g]]
      <4>1. CASE g = f
        BY <2>1, <3>4, <4>1
      <4>2. CASE g # f
        BY <2>1, <3>4, <4>2 DEF TrailInv, TrailAnswered
      <4>3. QED
        BY <4>1, <4>2
    <3>6. QED
      BY <3>1, <3>3, <3>5 DEF TrailAnswered
  <2>6. TrailAsked'
    <3>1. ASSUME NEW r \in asked' PROVE r \in asked /\ r.key \in Filters /\ r.key # f
      BY <2>1, <2>2, <3>1 DEF TrailInv, TrailAsked
    <3>2. \A g \in Filters \ {f} : seen'[g] = seen[g]
      BY <2>4 DEF TrailInv, TrailAnswered
    <3>3. QED
      BY <2>1, <3>1, <3>2 DEF TrailInv, TrailAsked
  <2>7. QED
    BY <2>1, <2>5, <2>6 DEF TrailInv, TrailTyped, TrailChosen
<1>6. ASSUME NEW q \in asked, Trail!QueryFails(q) PROVE TrailInv'
  <2>1. /\ asked' \subseteq asked
        /\ log' = log /\ draft' = draft /\ applied' = applied /\ answers' = answers /\ chosen' = chosen /\ seen' = seen
    BY <1>6 DEF Trail!QueryFails
  <2>2. TrailAnswered' /\ TrailAsked'
    BY <2>1, TrailKept
  <2>3. QED
    BY <2>1, <2>2 DEF TrailInv, TrailTyped, TrailChosen
<1>7. ASSUME log' = log, draft' = draft, applied' = applied, answers' = answers, asked' = asked, seen' = seen, TrailChosen'
      PROVE  TrailInv'
  <2>1. TrailAnswered' /\ TrailAsked'
    BY <1>7, TrailKept
  <2>2. QED
    BY <1>7, <2>1 DEF TrailInv, TrailTyped
<1>8. ASSUME NEW mode \in TrailModes, Trail!ModeChange(mode) PROVE TrailInv'
  <2>1. TrailChosen'
    BY <1>8 DEF Trail!ModeChange, Trail!Unchosen, Trail!None, TrailChosen
  <2>2. QED
    BY <1>7, <1>8, <2>1 DEF Trail!ModeChange
<1>9. ASSUME NEW h \in DOMAIN Trail!HandlerGroups,
             NEW shop \in {Trail!None} \cup DOMAIN Trail!HandlerGroups[h].parts, Trail!SelectHandler(h, shop)
      PROVE  TrailInv'
  <2>1. shop # ""
    <3>1. PICK keyed : keyed = Trail!ByHandler
      OBVIOUS
    <3>2. \A i \in DOMAIN keyed : keyed[i].part # ""
      BY <3>1 DEF Trail!ByHandler, Trail!None
    <3>3. DOMAIN Trail!Grouped(keyed)[h].parts \subseteq {keyed[i].part : i \in DOMAIN keyed}
      BY <1>9, <3>1 DEF Trail!HandlerGroups, Trail!Grouped
    <3>4. QED
      BY <1>9, <3>1, <3>2, <3>3 DEF Trail!HandlerGroups, Trail!None
  <2>2. chosen' = [mode |-> chosen.mode, handler |-> h, shop |-> shop, category |-> chosen.category]
    BY <1>9 DEF Trail!SelectHandler, TrailInv, TrailChosen
  <2>3. TrailChosen'
    BY <2>1, <2>2 DEF TrailInv, TrailChosen
  <2>4. QED
    BY <1>7, <1>9, <2>3 DEF Trail!SelectHandler
<1>10. ASSUME NEW shop, NEW h, Trail!SelectStore(shop, h) PROVE TrailInv'
  <2>1. chosen' = [mode |-> "store", handler |-> h, shop |-> shop, category |-> chosen.category]
    BY <1>10 DEF Trail!SelectStore, TrailInv, TrailChosen
  <2>2. TrailChosen'
    BY <2>1 DEF TrailChosen, TrailModes
  <2>3. QED
    BY <1>7, <1>10, <2>2 DEF Trail!SelectStore
<1>11. ASSUME NEW c, Trail!SelectCategory(c) PROVE TrailInv'
  <2>1. chosen' = [mode |-> "category", handler |-> "none", shop |-> "none", category |-> c]
    BY <1>11 DEF Trail!SelectCategory, Trail!Unchosen, Trail!None
  <2>2. TrailChosen'
    BY <2>1 DEF TrailChosen, TrailModes
  <2>3. QED
    BY <1>7, <1>11, <2>2 DEF Trail!SelectCategory
<1>12. ASSUME Trail!ClearFilter PROVE TrailInv'
  <2>1. chosen' = [mode |-> chosen.mode, handler |-> "none", shop |-> "none", category |-> "none"]
    BY <1>12 DEF Trail!ClearFilter, Trail!Unchosen, Trail!None
  <2>2. TrailChosen'
    BY <2>1 DEF TrailInv, TrailChosen
  <2>3. QED
    BY <1>7, <1>12, <2>2 DEF Trail!ClearFilter
<1>13. CASE UNCHANGED Trail!vars
  <2>1. TrailChosen'
    BY <1>13 DEF Trail!vars, TrailInv, TrailChosen
  <2>2. QED
    BY <1>7, <1>13, <2>1 DEF Trail!vars
<1>14. QED
  BY <1>1, <1>2, <1>3, <1>4, <1>5, <1>6, <1>8, <1>9, <1>10, <1>11, <1>12, <1>13 DEF Trail!Next, TrailModes

\* What the invariant says of the rows on the page, the trail and the groups.
LEMMA TrailInvAgrees == ASSUME Trail!Filed, TrailInv PROVE Trail!TypeOK /\ Trail!TrailAgrees
<1>0. log \in Seq(Events) /\ Len(log) \in Nat
  <2>1. log \in Seq(Events)
    BY DEF TrailInv, TrailTyped
  <2>2. QED
    BY <2>1, LenProperties
<1>1. ASSUME NEW f \in Filters
      PROVE  /\ answers[f].at = seen[f] /\ seen[f] <= Len(log)
             /\ AreNewest(answers[f].rows, f, answers[f].at)
  <2>1. PICK n \in 0 .. Len(log) : n = seen[f] /\ answers[f] = [rows |-> Trail!Query(f, n), at |-> n]
    BY DEF TrailInv, TrailAnswered
  <2>2. PICK shown : shown = Trail!Query(f, n)
    OBVIOUS
  <2>3. answers[f].rows = shown /\ answers[f].at = n /\ n = seen[f] /\ n <= Len(log)
    BY <1>0, <2>1, <2>2
  <2>4. AreNewest(shown, f, n)
    BY <1>0, <2>2, QueryIsNewest
  <2>5. QED
    BY <2>3, <2>4
<1>2. TrailShown
  <2>1. applied \in Filters
    BY DEF TrailInv, TrailTyped
  <2>2. QED
    BY <1>1, <2>1 DEF TrailShown, AreNewest
<1>3. Trail!TypeOK
  <2>1. \A f \in Filters : Len(answers[f].rows) <= Limit /\ answers[f].at <= Len(log)
    BY <1>1 DEF AreNewest
  <2>2. \A q \in asked : q.key \in Filters /\ q.at <= Len(log)
    BY <1>0 DEF TrailInv, TrailAsked
  <2>3. QED
    BY <1>0, <2>1, <2>2 DEF Trail!TypeOK, TrailInv, TrailTyped, TrailChosen, TrailModes
<1>4. Trail!Cardinality(Trail!Trail) = Trail!CountAt(Trail!Title)
  BY <1>2, TitleCounts, TrailCounts DEF TrailInv
<1>5. \A groups \in {Trail!HandlerGroups, Trail!StoreGroups, Trail!CategoryGroups} :
        Trail!Cardinality(UNION {{k} \X (1 .. groups[k].count) : k \in DOMAIN groups}) = Len(Trail!Rows)
  BY <1>2, ModesCount
<1>6. QED
  BY <1>1, <1>3, <1>4, <1>5 DEF Trail!TrailAgrees, AreNewest

THEOREM TrailSafety ==
  ASSUME Trail!Filed PROVE Trail!Spec => [](Trail!TypeOK /\ Trail!TrailAgrees)
<1>1. Trail!Init => TrailInv
  BY TrailInit
<1>2. TrailInv /\ [Trail!Next]_(Trail!vars) => TrailInv'
  BY TrailStep
<1>3. TrailInv => Trail!TypeOK /\ Trail!TrailAgrees
  BY TrailInvAgrees
<1>4. QED
  BY <1>1, <1>2, <1>3, PTL DEF Trail!Spec

\* The audit trail among the console's parts: the rows on the page are the newest that match its
\* filters at one moment and never older than rows shown before, the trail is what its title
\* names, and the groups count each row once (AuditService.query, audit.tsx, AuditGroupSidebar).
THEOREM TrailAgreesHolds == ConsoleSpec => []TrailAgrees
<1>1. [ConsoleNext]_allVars => part' = part
  BY DEF ConsoleNext, allVars, Moves
<1>2. ConsoleInit /\ part = "trail" => Trail!Init
  BY DEF ConsoleInit
<1>3. [ConsoleNext]_allVars /\ part = "trail" => [Trail!Next]_(Trail!vars)
  BY DEF ConsoleNext, allVars, Moves, Trail!vars, trail
<1>4. Trail!Spec => [](Trail!TypeOK /\ Trail!TrailAgrees)
  BY TrailSafety, ConstantsAssumption DEF ConstantsAssumption
<1>5. part = "trail" /\ part' = part => (part = "trail")'
  OBVIOUS
<1>6. part # "trail" /\ part' = part => (part # "trail")'
  OBVIOUS
<1>7. (part # "trail" => TrailAgrees) /\ (Trail!TypeOK /\ Trail!TrailAgrees => TrailAgrees)
  BY DEF TrailAgrees
<1>8. part = "trail" \/ part # "trail"
  OBVIOUS
<1>9. QED
  BY <1>1, <1>2, <1>3, <1>4, <1>5, <1>6, <1>7, <1>8, PTL DEF ConsoleSpec, Trail!Spec

=============================================================================
