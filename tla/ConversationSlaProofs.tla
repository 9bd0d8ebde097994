------------------------- MODULE ConversationSlaProofs -------------------------
(***************************************************************************)
(* What is true of the SLA columns for any conversations, calls, sweeps,   *)
(* faults and office hours.                                                *)
(***************************************************************************)
EXTENDS ConversationSla, TLAPS

-----------------------------------------------------------------------------
(* Types.                                                                  *)

LEMMA TimesAreNaturals == Times \subseteq Nat /\ Null \notin Nat
BY ConstantsAssumption DEF Times

\* The types of a call in progress, one case at a time.
LEMMA CallTypes ==
  ASSUME TypeOK, NEW k \in Calls
  PROVE  /\ op[k].pc \in {"idle", "sent", "stamp", "priority"}
         /\ op[k].pc = "idle" <=> op[k] = Idle
         /\ op[k].pc # "idle" => op[k].conv \in Convs /\ op[k].at \in Times /\ op[k].at \in Nat
         /\ op[k].pc = "stamp" => op[k].met \in BOOLEAN
         /\ op[k].pc = "priority" => op[k].to \in Priority /\ op[k].reply \in Times \cup {Null}
<1> DEFINE Typed ==
      /\ op[k].pc \in {"idle", "sent", "stamp", "priority"}
      /\ op[k].pc = "idle" <=> op[k] = Idle
      /\ op[k].pc # "idle" => op[k].conv \in Convs /\ op[k].at \in Times
      /\ op[k].pc = "stamp" => op[k].met \in BOOLEAN
      /\ op[k].pc = "priority" => op[k].to \in Priority /\ op[k].reply \in Times \cup {Null}
<1>1. op[k] \in CallInProgress
  BY DEF TypeOK
<1>2. ASSUME op[k] \in [pc : {"idle"}] PROVE Typed
  BY <1>2 DEF Idle
<1>3. ASSUME op[k] \in [pc : {"sent"}, conv : Convs, at : Times] PROVE Typed
  BY <1>3 DEF Idle
<1>4. ASSUME op[k] \in [pc : {"stamp"}, conv : Convs, at : Times, met : BOOLEAN] PROVE Typed
  BY <1>4 DEF Idle
<1>5. ASSUME op[k] \in [pc : {"priority"}, conv : Convs, at : Times, to : Priority,
                        reply : Times \cup {Null}]
      PROVE Typed
  BY <1>5 DEF Idle
<1>6. Typed
  BY <1>1, <1>2, <1>3, <1>4, <1>5 DEF CallInProgress
<1>7. QED
  BY <1>6, TimesAreNaturals

\* What is known of a row.
LEMMA RowTypes ==
  ASSUME TypeOK, NEW c \in Convs
  PROVE  /\ conv[c] \in Row
         /\ conv[c].slaState \in SlaState
         /\ conv[c].firstReplyAt \in Times \cup {Null}
         /\ conv[c].priority = "NONE" => conv[c].responseDue = Null /\ conv[c].resolutionDue = Null
         /\ conv[c].priority # "NONE" => conv[c].responseDue \in Nat /\ conv[c].resolutionDue \in Nat
  BY DEF TypeOK, Row, MaybeTime

\* Due-times are there exactly when the priority carries an SLA.
LEMMA DueTimesTypes ==
  ASSUME NEW p \in Priority, NEW t \in Times
  PROVE  /\ p = "NONE" => DueTimes(p, t) = [response |-> Null, resolution |-> Null]
         /\ p # "NONE" => DueTimes(p, t).response \in Nat /\ DueTimes(p, t).resolution \in Nat
         /\ DueTimes(p, t).response = Null <=> p = "NONE"
         /\ DueTimes(p, t).resolution = Null <=> p = "NONE"
<1>1. CASE p = "NONE"
  BY <1>1 DEF DueTimes
<1>2. CASE p # "NONE"
  <2>1. ResponseDue[p][t] \in Nat /\ ResolutionDue[p][t] \in Nat
    BY <1>2, ConstantsAssumption DEF Priority
  <2>2. QED
    BY <1>2, <2>1, ConstantsAssumption DEF DueTimes
<1>3. QED
  BY <1>1, <1>2

LEMMA TypeInit == Init => TypeOK
<1> SUFFICES ASSUME Init PROVE TypeOK
  OBVIOUS
<1>1. conv \in [Convs -> Row]
  BY DEF Init, Row, ConvStatus, Priority, SlaState, MaybeTime
<1>2. op \in [Calls -> CallInProgress]
  BY DEF Init, Idle, CallInProgress
<1>3. QED
  BY <1>1, <1>2, ConstantsAssumption DEF Init, TypeOK, Times

LEMMA TypeStep == TypeOK /\ [Next]_vars => TypeOK'
<1> SUFFICES ASSUME TypeOK, [Next]_vars PROVE TypeOK'
  OBVIOUS
<1>1. CASE Tick
  BY <1>1, ConstantsAssumption DEF Tick, TypeOK, Times
<1>2. ASSUME NEW k \in Calls, NEW c \in Convs, ReplyStored(k, c) PROVE TypeOK'
  <2>1. [pc |-> "sent", conv |-> c, at |-> now] \in CallInProgress
    BY DEF TypeOK, CallInProgress
  <2>2. op' \in [Calls -> CallInProgress]
    BY <1>2, <2>1 DEF ReplyStored, TypeOK
  <2>3. earliest' \in [Convs -> Times \cup {Null}]
    BY <1>2 DEF ReplyStored, TypeOK
  <2>4. QED
    BY <1>2, <2>2, <2>3 DEF ReplyStored, TypeOK
<1>3. ASSUME NEW k \in Calls, NEW c \in Convs, NEW p \in Priority, SetPriorityReads(k, c, p)
      PROVE TypeOK'
  <2>1. [pc |-> "priority", conv |-> c, at |-> now, to |-> p, reply |-> conv[c].firstReplyAt]
          \in CallInProgress
    BY RowTypes DEF TypeOK, CallInProgress
  <2>2. op' \in [Calls -> CallInProgress]
    BY <1>3, <2>1 DEF SetPriorityReads, TypeOK
  <2>3. QED
    BY <1>3, <2>2 DEF SetPriorityReads, TypeOK
<1>4. ASSUME NEW k \in Calls, ReplyReads(k) PROVE TypeOK'
  <2> DEFINE next == IF conv[op[k].conv].firstReplyAt = Null
                     THEN [pc |-> "stamp", conv |-> op[k].conv, at |-> op[k].at,
                           met |-> Meets(conv[op[k].conv], op[k].at)]
                     ELSE Idle
  <2>1. op[k].conv \in Convs /\ op[k].at \in Times
    BY <1>4, CallTypes DEF ReplyReads
  <2>2. Meets(conv[op[k].conv], op[k].at) \in BOOLEAN
    BY DEF Meets
  <2>3. next \in CallInProgress
    BY <2>1, <2>2 DEF Idle, CallInProgress
  <2>4. op' = [op EXCEPT ![k] = next]
    BY <1>4 DEF ReplyReads
  <2>5. op' \in [Calls -> CallInProgress]
    BY <2>3, <2>4 DEF TypeOK
  <2>6. QED
    BY <1>4, <2>5 DEF ReplyReads, TypeOK
<1>5. ASSUME NEW k \in Calls, ReplyStamps(k) PROVE TypeOK'
  <2>1. op[k].conv \in Convs /\ op[k].at \in Times
    BY <1>5, CallTypes DEF ReplyStamps
  <2> DEFINE d == op[k].conv
             state == IF op[k].met THEN "MET" ELSE conv[d].slaState
             row == [conv[d] EXCEPT !.firstReplyAt = op[k].at, !.slaState = state]
  <2>2. conv' = [conv EXCEPT ![d] = row]
    BY <1>5 DEF ReplyStamps, TypeOK
  <2>3. /\ row \in Row /\ row.firstReplyAt = op[k].at
        /\ row.priority = conv[d].priority
        /\ row.responseDue = conv[d].responseDue
        /\ row.resolutionDue = conv[d].resolutionDue
    <3>1. op[k].at \in MaybeTime /\ state \in SlaState /\ conv[d] \in Row
      BY <2>1, RowTypes, ConstantsAssumption DEF Times, MaybeTime, SlaState
    <3> HIDE DEF state, d
    <3>2. QED
      BY <3>1 DEF Row
  <2> HIDE DEF row
  <2>4. op' \in [Calls -> CallInProgress]
    BY <1>5 DEF ReplyStamps, TypeOK, CallInProgress, Idle
  <2>5. conv' \in [Convs -> Row]
    BY <2>2, <2>3 DEF TypeOK
  <2>6. \A c \in Convs :
          /\ conv'[c].firstReplyAt \in Times \cup {Null}
          /\ conv'[c].responseDue = Null <=> conv'[c].priority = "NONE"
          /\ conv'[c].resolutionDue = Null <=> conv'[c].priority = "NONE"
    BY <2>1, <2>2, <2>3 DEF TypeOK
  <2>7. QED
    BY <1>5, <2>4, <2>5, <2>6 DEF ReplyStamps, TypeOK
<1>6. ASSUME NEW k \in Calls, SetPriorityCommits(k) PROVE TypeOK'
  <2> DEFINE o == op[k]
             due == DueTimes(o.to, o.at)
             row == [conv[o.conv] EXCEPT !.priority = o.to, !.slaState = SetState(o),
                       !.responseDue = due.response, !.resolutionDue = due.resolution]
  <2>1. o.conv \in Convs /\ o.at \in Times /\ o.to \in Priority
    BY <1>6, CallTypes DEF SetPriorityCommits
  <2>2. /\ due.response \in MaybeTime /\ due.resolution \in MaybeTime
        /\ due.response = Null <=> o.to = "NONE"
        /\ due.resolution = Null <=> o.to = "NONE"
    BY <2>1, DueTimesTypes DEF MaybeTime
  <2>3. SetState(o) \in SlaState
    BY DEF SetState, SlaState
  <2>4. conv' = [conv EXCEPT ![o.conv] = row] /\ op' = [op EXCEPT ![k] = Idle]
        /\ UNCHANGED <<now, todo, earliest, disturbed, lost, faults>>
    BY <1>6 DEF SetPriorityCommits
  <2>5. conv[o.conv] \in Row
    BY <2>1, RowTypes
  <2>6. /\ row \in Row
        /\ row.firstReplyAt = conv[o.conv].firstReplyAt
        /\ row.responseDue = Null <=> row.priority = "NONE"
        /\ row.resolutionDue = Null <=> row.priority = "NONE"
    <3> HIDE DEF o, due
    <3>1. QED
      BY <2>1, <2>2, <2>3, <2>5 DEF Row
  <2>7. conv' \in [Convs -> Row]
    BY <2>4, <2>6 DEF TypeOK
  <2>8. \A c \in Convs :
          /\ conv'[c].firstReplyAt \in Times \cup {Null}
          /\ conv'[c].responseDue = Null <=> conv'[c].priority = "NONE"
          /\ conv'[c].resolutionDue = Null <=> conv'[c].priority = "NONE"
    <3> HIDE DEF row, o, due
    <3>1. QED
      BY <2>1, <2>4, <2>6 DEF TypeOK
  <2>9. op' \in [Calls -> CallInProgress]
    BY <2>4 DEF TypeOK, CallInProgress, Idle
  <2>10. QED
    BY <2>4, <2>7, <2>8, <2>9 DEF TypeOK
<1>7. ASSUME NEW k \in Calls, CallFails(k) PROVE TypeOK'
  <2>1. op[k].conv \in Convs
    BY <1>7, CallTypes DEF CallFails
  <2>2. op' \in [Calls -> CallInProgress]
    BY <1>7 DEF CallFails, TypeOK, CallInProgress, Idle
  <2>3. QED
    BY <1>7, <2>1, <2>2, ConstantsAssumption DEF CallFails, TypeOK
<1>8. ASSUME NEW c \in Convs, NEW s \in ConvStatus, SetStatus(c, s) PROVE TypeOK'
  BY <1>8 DEF SetStatus, TypeOK, Row
<1>9. ASSUME NEW w \in Sweepers, SweepReads(w) PROVE TypeOK'
  <2>1. PICK listed \in SUBSET Open :
          /\ todo' = [todo EXCEPT ![w] = Flags(listed)]
          /\ disturbed' = disturbed \cup {c \in {f.conv : f \in Flags(listed)} : Busy(c)}
    BY <1>9 DEF SweepReads
  <2>2. Flags(listed) \subseteq Flag
    BY DEF Flags, Flag, Open
  <2>3. disturbed' \subseteq Convs
    BY <2>1, <2>2 DEF Flag, TypeOK
  <2>4. QED
    BY <1>9, <2>1, <2>2, <2>3 DEF SweepReads, TypeOK
<1>10. ASSUME NEW w \in Sweepers, SweepFlags(w) PROVE TypeOK'
  <2>1. PICK f \in todo[w] : /\ conv' = [conv EXCEPT ![f.conv].slaState = f.next]
                             /\ todo' = [todo EXCEPT ![w] = @ \ {f}]
    BY <1>10 DEF SweepFlags
  <2>2. f.conv \in Convs /\ f.next \in SlaState
    BY DEF TypeOK, Flag, SlaState
  <2>3. /\ [conv[f.conv] EXCEPT !.slaState = f.next] \in Row
        /\ conv' = [conv EXCEPT ![f.conv] = [conv[f.conv] EXCEPT !.slaState = f.next]]
    BY <2>1, <2>2, RowTypes DEF Row
  <2>4. conv' \in [Convs -> Row]
    BY <2>3 DEF TypeOK
  <2>5. QED
    BY <1>10, <2>1, <2>2, <2>4 DEF SweepFlags, TypeOK, Row
<1>11. ASSUME NEW w \in Sweepers, SweepFails(w) PROVE TypeOK'
  BY <1>11, ConstantsAssumption DEF SweepFails, TypeOK
<1>12. CASE UNCHANGED vars
  BY <1>12 DEF vars, TypeOK
<1>13. QED
  BY <1>1, <1>2, <1>3, <1>4, <1>5, <1>6, <1>7, <1>8, <1>9, <1>10, <1>11, <1>12 DEF Next

\* Every reachable state is well typed; due-times come with a priority.
THEOREM TypeCorrect == Spec => []TypeOK
BY TypeInit, TypeStep, PTL DEF Spec

-----------------------------------------------------------------------------
(* The steps, as one conversation and one call see them.                   *)

\* The steps that write the SLA columns of a row.
StampedBy(k, c) ==
  /\ ReplyStamps(k) /\ op[k].conv = c
  /\ conv'[c] = [conv[c] EXCEPT !.firstReplyAt = op[k].at,
                               !.slaState = IF op[k].met THEN "MET" ELSE conv[c].slaState]

PrioritizedBy(k, c) ==
  /\ SetPriorityCommits(k) /\ op[k].conv = c
  /\ conv'[c] = [conv[c] EXCEPT !.priority = op[k].to, !.slaState = SetState(op[k]),
                   !.responseDue = DueTimes(op[k].to, op[k].at).response,
                   !.resolutionDue = DueTimes(op[k].to, op[k].at).resolution]

FlaggedBy(w, c) ==
  \E f \in todo[w] : f.conv = c /\ conv'[c] = [conv[c] EXCEPT !.slaState = f.next]

\* The SLA columns of a row stay as they are.
SlaUntouched(c) ==
  /\ conv'[c].firstReplyAt = conv[c].firstReplyAt
  /\ conv'[c].slaState = conv[c].slaState

\* What a step can do to the row of a conversation.
LEMMA ConvStep ==
  ASSUME TypeOK, [Next]_vars, NEW c \in Convs
  PROVE  \/ SlaUntouched(c)
         \/ \E k \in Calls : StampedBy(k, c) \/ PrioritizedBy(k, c)
         \/ \E w \in Sweepers : FlaggedBy(w, c)
<1>1. CASE UNCHANGED conv
  BY <1>1 DEF SlaUntouched
<1>2. ASSUME NEW d \in Convs, NEW s \in ConvStatus, SetStatus(d, s) PROVE SlaUntouched(c)
  BY <1>2 DEF SetStatus, TypeOK, Row, SlaUntouched
<1>3. ASSUME NEW k \in Calls, ReplyStamps(k) PROVE SlaUntouched(c) \/ StampedBy(k, c)
  BY <1>3 DEF ReplyStamps, TypeOK, SlaUntouched, StampedBy
<1>4. ASSUME NEW k \in Calls, SetPriorityCommits(k) PROVE SlaUntouched(c) \/ PrioritizedBy(k, c)
  BY <1>4 DEF SetPriorityCommits, TypeOK, SlaUntouched, PrioritizedBy
<1>5. ASSUME NEW w \in Sweepers, SweepFlags(w) PROVE SlaUntouched(c) \/ FlaggedBy(w, c)
  <2>1. PICK f \in todo[w] : conv' = [conv EXCEPT ![f.conv].slaState = f.next]
    BY <1>5 DEF SweepFlags
  <2>2. CASE f.conv # c
    BY <2>1, <2>2 DEF TypeOK, SlaUntouched
  <2>3. CASE f.conv = c
    BY <2>1, <2>3 DEF TypeOK, FlaggedBy
  <2>4. QED
    BY <2>2, <2>3
<1>6. \/ UNCHANGED conv
      \/ \E d \in Convs, s \in ConvStatus : SetStatus(d, s)
      \/ \E k \in Calls : ReplyStamps(k) \/ SetPriorityCommits(k)
      \/ \E w \in Sweepers : SweepFlags(w)
  BY DEF Next, vars, Tick, ReplyStored, SetPriorityReads, ReplyReads, CallFails, SweepReads, SweepFails
<1>7. QED
  BY <1>1, <1>2, <1>3, <1>4, <1>5, <1>6

\* What these steps make of the columns.
LEMMA SlaColumns ==
  ASSUME TypeOK, NEW c \in Convs
  PROVE  /\ \A k \in Calls : StampedBy(k, c) =>
              /\ op[k].pc = "stamp" /\ op[k].conv = c
              /\ conv'[c].firstReplyAt = op[k].at
              /\ conv'[c].slaState = IF op[k].met THEN "MET" ELSE conv[c].slaState
         /\ \A k \in Calls : PrioritizedBy(k, c) =>
              /\ op[k].pc = "priority" /\ op[k].conv = c
              /\ conv'[c].firstReplyAt = conv[c].firstReplyAt
              /\ conv'[c].slaState = SetState(op[k])
         /\ \A w \in Sweepers : FlaggedBy(w, c) =>
              /\ conv'[c].firstReplyAt = conv[c].firstReplyAt
              /\ \E f \in todo[w] : f.conv = c /\ conv'[c].slaState = f.next
              /\ conv'[c].slaState \in {"BREACHING", "BREACHED"}
<1>1. conv[c] \in Row
  BY RowTypes
<1>2. ASSUME NEW k \in Calls, StampedBy(k, c)
      PROVE  /\ op[k].pc = "stamp" /\ op[k].conv = c
             /\ conv'[c].firstReplyAt = op[k].at
             /\ conv'[c].slaState = IF op[k].met THEN "MET" ELSE conv[c].slaState
  <2>1. op[k].pc = "stamp" /\ op[k].conv = c
    BY <1>2 DEF StampedBy, ReplyStamps
  <2>2. conv'[c] = [conv[c] EXCEPT !.firstReplyAt = op[k].at,
                                  !.slaState = IF op[k].met THEN "MET" ELSE conv[c].slaState]
    BY <1>2 DEF StampedBy
  <2>3. QED
    BY <1>1, <2>1, <2>2 DEF Row
<1>3. ASSUME NEW k \in Calls, PrioritizedBy(k, c)
      PROVE  /\ op[k].pc = "priority" /\ op[k].conv = c
             /\ conv'[c].firstReplyAt = conv[c].firstReplyAt
             /\ conv'[c].slaState = SetState(op[k])
  <2>1. op[k].pc = "priority" /\ op[k].conv = c
    BY <1>3 DEF PrioritizedBy, SetPriorityCommits
  <2>2. conv'[c] = [conv[c] EXCEPT !.priority = op[k].to, !.slaState = SetState(op[k]),
                      !.responseDue = DueTimes(op[k].to, op[k].at).response,
                      !.resolutionDue = DueTimes(op[k].to, op[k].at).resolution]
    BY <1>3 DEF PrioritizedBy
  <2>3. QED
    BY <1>1, <2>1, <2>2 DEF Row
<1>4. ASSUME NEW w \in Sweepers, FlaggedBy(w, c)
      PROVE  /\ conv'[c].firstReplyAt = conv[c].firstReplyAt
             /\ \E f \in todo[w] : f.conv = c /\ conv'[c].slaState = f.next
             /\ conv'[c].slaState \in {"BREACHING", "BREACHED"}
  <2>1. PICK f \in todo[w] : f.conv = c /\ conv'[c] = [conv[c] EXCEPT !.slaState = f.next]
    BY <1>4 DEF FlaggedBy
  <2>2. f.next \in {"BREACHING", "BREACHED"}
    BY DEF TypeOK, Flag
  <2>3. QED
    BY <1>1, <2>1, <2>2 DEF Row
<1>5. QED
  BY <1>2, <1>3, <1>4

\* What a step can do to a call.
LEMMA CallStep ==
  ASSUME TypeOK, [Next]_vars, NEW k \in Calls
  PROVE  \/ op'[k] = op[k]
         \/ op'[k] = Idle
         \/ \E c \in Convs : ReplyStored(k, c) /\ op'[k] = [pc |-> "sent", conv |-> c, at |-> now]
         \/ \E c \in Convs, p \in Priority :
              /\ SetPriorityReads(k, c, p)
              /\ op'[k] = [pc |-> "priority", conv |-> c, at |-> now, to |-> p,
                           reply |-> conv[c].firstReplyAt]
         \/ /\ ReplyReads(k) /\ conv[op[k].conv].firstReplyAt = Null
            /\ op'[k] = [pc |-> "stamp", conv |-> op[k].conv, at |-> op[k].at,
                         met |-> Meets(conv[op[k].conv], op[k].at)]
<1>1. CASE UNCHANGED op
  BY <1>1
<1>2. ASSUME NEW j \in Calls, NEW c \in Convs, ReplyStored(j, c)
      PROVE  \/ op'[k] = op[k]
             \/ j = k /\ op'[k] = [pc |-> "sent", conv |-> c, at |-> now]
  BY <1>2 DEF ReplyStored, TypeOK
<1>3. ASSUME NEW j \in Calls, NEW c \in Convs, NEW p \in Priority, SetPriorityReads(j, c, p)
      PROVE  \/ op'[k] = op[k]
             \/ /\ j = k
                /\ op'[k] = [pc |-> "priority", conv |-> c, at |-> now, to |-> p,
                             reply |-> conv[c].firstReplyAt]
  BY <1>3 DEF SetPriorityReads, TypeOK
<1>4. ASSUME NEW j \in Calls, ReplyReads(j)
      PROVE  \/ op'[k] = op[k]
             \/ op'[k] = Idle
             \/ /\ j = k /\ conv[op[k].conv].firstReplyAt = Null
                /\ op'[k] = [pc |-> "stamp", conv |-> op[k].conv, at |-> op[k].at,
                             met |-> Meets(conv[op[k].conv], op[k].at)]
  BY <1>4 DEF ReplyReads, TypeOK
<1>5. ASSUME NEW j \in Calls, ReplyStamps(j) \/ SetPriorityCommits(j) \/ CallFails(j)
      PROVE  op'[k] = op[k] \/ op'[k] = Idle
  BY <1>5 DEF ReplyStamps, SetPriorityCommits, CallFails, TypeOK
<1>6. QED
  <2>1. \/ UNCHANGED op
        \/ \E j \in Calls, c \in Convs : ReplyStored(j, c)
        \/ \E j \in Calls, c \in Convs, p \in Priority : SetPriorityReads(j, c, p)
        \/ \E j \in Calls : ReplyReads(j)
        \/ \E j \in Calls : ReplyStamps(j) \/ SetPriorityCommits(j) \/ CallFails(j)
    BY DEF Next, vars, Tick, SetStatus, SweepReads, SweepFlags, SweepFails
  <2>2. CASE UNCHANGED op
    BY <2>2
  <2>3. CASE \E j \in Calls, c \in Convs : ReplyStored(j, c)
    BY <2>3, <1>2
  <2>4. CASE \E j \in Calls, c \in Convs, p \in Priority : SetPriorityReads(j, c, p)
    BY <2>4, <1>3
  <2>5. CASE \E j \in Calls : ReplyReads(j)
    BY <2>5, <1>4
  <2>6. CASE \E j \in Calls : ReplyStamps(j) \/ SetPriorityCommits(j) \/ CallFails(j)
    BY <2>6, <1>5
  <2>7. QED
    BY <2>1, <2>2, <2>3, <2>4, <2>5, <2>6

\* Time does not go back, and the earliest reply stays what it is.
LEMMA ClockStep ==
  ASSUME TypeOK, [Next]_vars
  PROVE  /\ now \in Nat /\ now' \in Nat /\ now <= now'
         /\ \A c \in Convs :
              \/ earliest'[c] = earliest[c]
              \/ /\ earliest[c] = Null /\ earliest'[c] = now /\ now' = now
                 /\ \E k \in Calls : ReplyStored(k, c)
<1>1. now \in Nat
  BY ConstantsAssumption DEF TypeOK, Times
<1>2. CASE Tick
  BY <1>1, <1>2 DEF Tick
<1>3. ASSUME NEW k \in Calls, NEW d \in Convs, ReplyStored(k, d)
      PROVE  now' = now /\ \A c \in Convs :
               \/ earliest'[c] = earliest[c]
               \/ c = d /\ earliest[c] = Null /\ earliest'[c] = now
  BY <1>3 DEF ReplyStored, TypeOK
<1>4. CASE UNCHANGED <<now, earliest>>
  BY <1>1, <1>4
<1>5. QED
  <2>1. \/ Tick
        \/ \E k \in Calls, d \in Convs : ReplyStored(k, d)
        \/ UNCHANGED <<now, earliest>>
    BY DEF Next, vars, SetPriorityReads, ReplyReads, ReplyStamps, SetPriorityCommits, CallFails,
           SetStatus, SweepReads, SweepFlags, SweepFails
  <2>2. CASE \E k \in Calls, d \in Convs : ReplyStored(k, d)
    BY <1>1, <1>3, <2>2
  <2>3. QED
    BY <1>2, <1>4, <2>1, <2>2
-----------------------------------------------------------------------------
(* Replies and stamps, however operations interleave.                      *)

Replying(k, c) == op[k].pc \in {"sent", "stamp"} /\ op[k].conv = c

\* The reply of a call in progress has been stored; a priority change has read a stamp
\* that is still there.
CallPast(k) ==
  /\ op[k].pc # "idle" => op[k].at <= now
  /\ op[k].pc \in {"sent", "stamp"} =>
       earliest[op[k].conv] # Null /\ earliest[op[k].conv] <= op[k].at
  /\ op[k].pc = "priority" /\ op[k].reply # Null => conv[op[k].conv].firstReplyAt # Null

RowPast(c) ==
  /\ earliest[c] # Null => earliest[c] <= now
  /\ conv[c].firstReplyAt # Null =>
       /\ earliest[c] # Null /\ earliest[c] <= conv[c].firstReplyAt
       /\ conv[c].firstReplyAt <= now
  /\ conv[c].slaState = "MET" => conv[c].firstReplyAt # Null

\* A stored reply is stamped, or its call still has to, or failed.
Kept(c) ==
  c \notin lost /\ earliest[c] # Null =>
    conv[c].firstReplyAt # Null \/ \E k \in Calls : Replying(k, c)

StampInv ==
  /\ \A k \in Calls : CallPast(k)
  /\ \A c \in Convs : RowPast(c) /\ Kept(c)

LEMMA StampInit == Init => StampInv
BY DEF Init, Idle, StampInv, CallPast, RowPast, Kept

\* A stamp is never taken back: it is set, or set again.
LEMMA StampStays ==
  ASSUME TypeOK, [Next]_vars, NEW c \in Convs
  PROVE  conv[c].firstReplyAt # Null => conv'[c].firstReplyAt # Null
<1>1. ASSUME NEW k \in Calls, StampedBy(k, c) PROVE conv'[c].firstReplyAt # Null
  BY <1>1, SlaColumns, CallTypes, TimesAreNaturals
<1>2. ASSUME NEW k \in Calls, PrioritizedBy(k, c)
      PROVE  conv'[c].firstReplyAt = conv[c].firstReplyAt
  BY <1>2, SlaColumns
<1>3. ASSUME NEW w \in Sweepers, FlaggedBy(w, c)
      PROVE  conv'[c].firstReplyAt = conv[c].firstReplyAt
  BY <1>3, SlaColumns
<1>4. QED
  BY <1>1, <1>2, <1>3, ConvStep DEF SlaUntouched

LEMMA CallPastStep ==
  ASSUME TypeOK, StampInv, [Next]_vars, NEW k \in Calls
  PROVE  CallPast(k)'
<1>1. CallPast(k) /\ now \in Nat /\ now' \in Nat /\ now <= now'
  BY ClockStep DEF StampInv
<1>2. op[k].pc # "idle" => op[k].conv \in Convs /\ op[k].at \in Nat
  BY CallTypes
<1>3. ASSUME op[k].pc # "idle" PROVE
        /\ op[k].at <= now'
        /\ op[k].pc \in {"sent", "stamp"} =>
             earliest'[op[k].conv] # Null /\ earliest'[op[k].conv] <= op[k].at
        /\ op[k].pc = "priority" /\ op[k].reply # Null => conv'[op[k].conv].firstReplyAt # Null
  <2>1. op[k].conv \in Convs
    BY <1>2, <1>3
  <2>2. op[k].at <= now'
    BY <1>1, <1>2, <1>3 DEF CallPast
  <2>3. earliest[op[k].conv] # Null => earliest'[op[k].conv] = earliest[op[k].conv]
    BY <2>1, ClockStep
  <2>4. QED
    BY <1>1, <1>3, <2>1, <2>2, <2>3, StampStays DEF CallPast
<1>4. CASE op'[k] = op[k]
  BY <1>3, <1>4 DEF CallPast
<1>5. CASE op'[k] = Idle
  BY <1>5 DEF CallPast, Idle
<1>6. ASSUME NEW c \in Convs, ReplyStored(k, c), op'[k] = [pc |-> "sent", conv |-> c, at |-> now]
      PROVE  CallPast(k)'
  <2>1. earliest'[c] # Null /\ earliest'[c] <= now
    BY <1>1, <1>6, ConstantsAssumption DEF ReplyStored, TypeOK, Times, StampInv, RowPast
  <2>2. QED
    BY <1>1, <1>6, <2>1 DEF CallPast
<1>7. ASSUME NEW c \in Convs, NEW p \in Priority, SetPriorityReads(k, c, p),
             op'[k] = [pc |-> "priority", conv |-> c, at |-> now, to |-> p,
                       reply |-> conv[c].firstReplyAt]
      PROVE  CallPast(k)'
  BY <1>1, <1>7 DEF CallPast, SetPriorityReads
<1>8. ASSUME ReplyReads(k),
             op'[k] = [pc |-> "stamp", conv |-> op[k].conv, at |-> op[k].at,
                       met |-> Meets(conv[op[k].conv], op[k].at)]
      PROVE  CallPast(k)'
  <2>1. op[k].pc = "sent"
    BY <1>8 DEF ReplyReads
  <2>2. QED
    BY <1>3, <1>8, <2>1 DEF CallPast
<1>9. QED
  BY <1>4, <1>5, <1>6, <1>7, <1>8, CallStep

LEMMA RowPastStep ==
  ASSUME TypeOK, StampInv, [Next]_vars, NEW c \in Convs
  PROVE  RowPast(c)'
<1>1. /\ RowPast(c) /\ now \in Nat /\ now' \in Nat /\ now <= now'
      /\ \/ earliest'[c] = earliest[c]
         \/ earliest[c] = Null /\ earliest'[c] = now
  BY ClockStep DEF StampInv
<1>2. /\ conv[c] \in Row /\ conv[c].firstReplyAt \in Nat \cup {Null}
      /\ earliest[c] \in Nat \cup {Null}
      /\ Null \notin Nat
  BY RowTypes, ConstantsAssumption DEF Times, TypeOK
<1>3. earliest'[c] # Null => earliest'[c] <= now'
  BY <1>1, <1>2 DEF RowPast
<1>4. ASSUME conv'[c].firstReplyAt = conv[c].firstReplyAt, conv[c].firstReplyAt # Null
      PROVE  /\ earliest'[c] # Null /\ earliest'[c] <= conv'[c].firstReplyAt
             /\ conv'[c].firstReplyAt <= now'
  BY <1>1, <1>2, <1>4 DEF RowPast
<1>5. CASE /\ conv'[c].firstReplyAt = conv[c].firstReplyAt
           /\ conv'[c].slaState = "MET" => conv[c].slaState = "MET"
  BY <1>1, <1>3, <1>4, <1>5 DEF RowPast
<1>6. ASSUME NEW k \in Calls, StampedBy(k, c) PROVE RowPast(c)'
  <2>1. conv'[c].firstReplyAt = op[k].at /\ op[k].pc = "stamp" /\ op[k].conv = c
    BY <1>6, SlaColumns
  <2>2. earliest' = earliest /\ now' = now
    BY <1>6 DEF StampedBy, ReplyStamps
  <2>3. op[k].at \in Nat
    BY <2>1, CallTypes
  <2>4. op[k].at <= now /\ earliest[c] # Null /\ earliest[c] <= op[k].at
    BY <2>1 DEF StampInv, CallPast
  <2>5. QED
    BY <1>2, <1>3, <2>1, <2>2, <2>3, <2>4 DEF RowPast
<1>7. ASSUME NEW k \in Calls, PrioritizedBy(k, c) PROVE RowPast(c)'
  <2>1. /\ op[k].pc = "priority" /\ op[k].conv = c
        /\ conv'[c].firstReplyAt = conv[c].firstReplyAt /\ conv'[c].slaState = SetState(op[k])
    BY <1>7, SlaColumns
  <2>2. CASE SetState(op[k]) = "MET"
    <3>1. op[k].reply # Null
      BY <2>2 DEF SetState
    <3>2. conv[c].firstReplyAt # Null
      BY <2>1, <3>1 DEF StampInv, CallPast
    <3>3. QED
      BY <1>3, <1>4, <2>1, <3>2 DEF RowPast
  <2>3. CASE SetState(op[k]) # "MET"
    BY <1>5, <2>1, <2>3
  <2>4. QED
    BY <2>2, <2>3
<1>8. ASSUME NEW w \in Sweepers, FlaggedBy(w, c) PROVE RowPast(c)'
  BY <1>5, <1>8, SlaColumns
<1>9. QED
  BY <1>5, <1>6, <1>7, <1>8, ConvStep DEF SlaUntouched

LEMMA KeptStep ==
  ASSUME TypeOK, StampInv, [Next]_vars, NEW c \in Convs
  PROVE  Kept(c)'
<1> SUFFICES ASSUME (c \notin lost)', earliest'[c] # Null, conv'[c].firstReplyAt = Null
             PROVE  \E k \in Calls : Replying(k, c)'
  BY DEF Kept
<1>1. c \notin lost
  BY DEF Next, vars, Tick, ReplyStored, SetPriorityReads, ReplyReads, ReplyStamps,
         SetPriorityCommits, CallFails, SetStatus, SweepReads, SweepFlags, SweepFails
<1>2. conv[c].firstReplyAt = Null
  BY StampStays
<1>3. CASE earliest[c] # Null
  <2>1. PICK k \in Calls : Replying(k, c)
    BY <1>1, <1>2, <1>3 DEF StampInv, Kept
  <2>2. op[k].pc \in {"sent", "stamp"} /\ op[k].conv = c
    BY <2>1 DEF Replying
  <2>3. op[k] # Idle
    BY <2>2 DEF Idle
  <2>4. \A d \in Convs : ~ReplyStored(k, d)
    BY <2>3 DEF ReplyStored
  <2>5. \A d \in Convs, p \in Priority : ~SetPriorityReads(k, d, p)
    BY <2>3 DEF SetPriorityReads
  <2>6. op'[k] # Idle
    <3>1. CASE UNCHANGED op
      BY <2>3, <3>1
    <3>2. ASSUME NEW j \in Calls, ReplyReads(j) PROVE op'[k] # Idle
      <4>1. CASE j = k
        <5>1. op'[k].pc = "stamp"
          BY <1>2, <2>2, <3>2, <4>1 DEF ReplyReads, TypeOK
        <5>2. QED
          BY <5>1 DEF Idle
      <4>2. CASE j # k
        BY <2>3, <3>2, <4>2 DEF ReplyReads, TypeOK
      <4>3. QED
        BY <4>1, <4>2
    <3>3. ASSUME NEW j \in Calls, ReplyStamps(j) PROVE op'[k] # Idle
      <4>1. j # k
        <5>1. SUFFICES ASSUME j = k PROVE FALSE
          OBVIOUS
        <5>2. conv'[c].firstReplyAt = op[k].at
          BY <2>2, <3>3, <5>1 DEF ReplyStamps, TypeOK, Row
        <5>3. QED
          BY <2>2, <5>2, CallTypes, TimesAreNaturals
      <4>2. QED
        BY <2>3, <3>3, <4>1 DEF ReplyStamps, TypeOK
    <3>4. ASSUME NEW j \in Calls, SetPriorityCommits(j) PROVE op'[k] # Idle
      BY <2>2, <2>3, <3>4 DEF SetPriorityCommits, TypeOK
    <3>5. ASSUME NEW j \in Calls, CallFails(j) PROVE op'[k] # Idle
      <4>1. j # k
        BY <2>2, <3>5 DEF CallFails
      <4>2. QED
        BY <2>3, <3>5, <4>1 DEF CallFails, TypeOK
    <3>6. ASSUME NEW j \in Calls, NEW d \in Convs,
                 ReplyStored(j, d) \/ \E p \in Priority : SetPriorityReads(j, d, p)
          PROVE  op'[k] # Idle
      BY <2>3, <2>4, <2>5, <3>6 DEF ReplyStored, SetPriorityReads, TypeOK
    <3>7. \/ UNCHANGED op
          \/ \E j \in Calls : ReplyReads(j) \/ ReplyStamps(j) \/ SetPriorityCommits(j) \/ CallFails(j)
          \/ \E j \in Calls, d \in Convs :
               ReplyStored(j, d) \/ \E p \in Priority : SetPriorityReads(j, d, p)
      BY DEF Next, vars, Tick, SetStatus, SweepReads, SweepFlags, SweepFails
    <3>8. QED
      BY <3>1, <3>2, <3>3, <3>4, <3>5, <3>6, <3>7
  <2>7. op'[k].pc \in {"sent", "stamp"} /\ op'[k].conv = c
    <3>1. CASE op'[k] = op[k]
      BY <2>2, <3>1
    <3>2. CASE op'[k] # op[k]
      <4>1. op'[k] = [pc |-> "stamp", conv |-> op[k].conv, at |-> op[k].at,
                      met |-> Meets(conv[op[k].conv], op[k].at)]
        BY <2>4, <2>5, <2>6, <3>2, CallStep
      <4>2. QED
        BY <2>2, <4>1
    <3>3. QED
      BY <3>1, <3>2
  <2>8. QED
    BY <2>7 DEF Replying
<1>4. CASE earliest[c] = Null
  <2>1. PICK k \in Calls : ReplyStored(k, c)
    BY <1>4, ClockStep
  <2>2. op'[k] = [pc |-> "sent", conv |-> c, at |-> now]
    BY <2>1 DEF ReplyStored, TypeOK
  <2>3. QED
    BY <2>2 DEF Replying
<1>5. QED
  BY <1>3, <1>4

LEMMA StampStep == TypeOK /\ StampInv /\ [Next]_vars => StampInv'
<1> SUFFICES ASSUME TypeOK, StampInv, [Next]_vars PROVE StampInv'
  OBVIOUS
<1>1. QED
  BY CallPastStep, RowPastStep, KeptStep DEF StampInv

\* However calls and sweeps interleave, a reply whose call did not fail is not forgotten.
THEOREM RepliedIsStampedHolds == Spec => []RepliedIsStamped
<1>1. StampInv => RepliedIsStamped
  <2> SUFFICES ASSUME StampInv, NEW c \in Convs
               PROVE  /\ c \notin lost /\ ~Busy(c) /\ earliest[c] # Null => conv[c].firstReplyAt # Null
                      /\ conv[c].firstReplyAt # Null =>
                           earliest[c] # Null /\ earliest[c] <= conv[c].firstReplyAt
                      /\ conv[c].slaState = "MET" => conv[c].firstReplyAt # Null
    BY DEF RepliedIsStamped
  <2>1. \A k \in Calls : Replying(k, c) => Busy(c)
    BY DEF Replying, Busy, On
  <2>2. QED
    BY <2>1 DEF StampInv, RowPast, Kept
<1>2. QED
  BY <1>1, TypeInit, TypeStep, StampInit, StampStep, PTL DEF Spec
-----------------------------------------------------------------------------
(* Conversations whose operations come one at a time.                      *)

Serial(c) == c \notin disturbed /\ c \notin lost

\* At most one operation is in progress with a conversation.
Alone(c) ==
  /\ \A j, k \in Calls : On(j, c) /\ On(k, c) => j = k
  /\ \A k \in Calls, w \in Sweepers : ~(On(k, c) /\ Flagging(w, c))
  /\ \A v, w \in Sweepers : Flagging(v, c) /\ Flagging(w, c) => v = w
  /\ \A w \in Sweepers : \A f, g \in todo[w] : f.conv = c /\ g.conv = c => f = g

\* MET and the flags say what the other columns say.
SlaTrue(c) ==
  LET row == conv[c] IN
  /\ row.slaState = "MET" <=>
       /\ row.priority # "NONE"
       /\ row.firstReplyAt # Null
       /\ row.firstReplyAt <= row.responseDue
  /\ row.slaState = "BREACHED" => row.priority # "NONE" /\ now > row.responseDue
  /\ row.slaState = "BREACHING" => row.priority # "NONE" /\ now + Warning > row.responseDue

\* While no reply is on its way, the stamp is the earliest reply.
RestTrue(c) == (\A k \in Calls : ~Replying(k, c)) => conv[c].firstReplyAt = earliest[c]

\* What a call has read of the row is still there.  A breach is older than the reply
\* that is on its way.
CallTrue(k, c) ==
  LET row == conv[c] IN
  On(k, c) =>
    /\ op[k].pc = "sent" /\ row.firstReplyAt # Null => row.firstReplyAt = earliest[c]
    /\ op[k].pc = "sent" /\ row.firstReplyAt = Null => earliest[c] = op[k].at
    /\ op[k].pc \in {"sent", "stamp"} /\ row.slaState = "BREACHED" => op[k].at > row.responseDue
    /\ op[k].pc = "stamp" =>
         /\ row.firstReplyAt = Null /\ earliest[c] = op[k].at
         /\ op[k].met <=> Meets(row, op[k].at)
    /\ op[k].pc = "priority" => op[k].reply = row.firstReplyAt

\* What a sweep is going to write is justified by the row as it is.
FlagTrue(w, c) ==
  LET row == conv[c] IN
  \A f \in todo[w] : f.conv = c =>
    /\ row.priority # "NONE" /\ row.slaState \in {"ON_TRACK", "BREACHING"}
    /\ f.next = "BREACHED" => now > row.responseDue
    /\ f.next = "BREACHING" => now + Warning > row.responseDue

SerialAt(c) ==
  /\ Alone(c) /\ SlaTrue(c) /\ RestTrue(c)
  /\ \A k \in Calls : CallTrue(k, c)
  /\ \A w \in Sweepers : FlagTrue(w, c)

SerialInv == \A c \in Convs : Serial(c) => SerialAt(c)

LEMMA SerialInit == Init => SerialInv
<1> SUFFICES ASSUME Init, NEW c \in Convs PROVE SerialAt(c)
  BY DEF SerialInv
<1>1. \A k \in Calls : ~On(k, c) /\ ~Replying(k, c)
  BY DEF Init, Idle, On, Replying
<1>2. \A w \in Sweepers : todo[w] = {}
  BY DEF Init
<1>3. Alone(c) /\ (\A k \in Calls : CallTrue(k, c)) /\ (\A w \in Sweepers : FlagTrue(w, c))
  BY <1>1, <1>2 DEF Alone, CallTrue, FlagTrue, Flagging
<1>4. SlaTrue(c) /\ RestTrue(c)
  BY DEF Init, SlaTrue, RestTrue
<1>5. QED
  BY <1>3, <1>4 DEF SerialAt

\* A step of others: nothing is added to what is in progress with the conversation, and
\* the columns it looks at stay as they are.
Bystander(c) ==
  /\ conv'[c].priority = conv[c].priority /\ conv'[c].slaState = conv[c].slaState
  /\ conv'[c].firstReplyAt = conv[c].firstReplyAt /\ conv'[c].responseDue = conv[c].responseDue
  /\ earliest'[c] = earliest[c]
  /\ \A k \in Calls : On(k, c)' => op'[k] = op[k]
  /\ \A k \in Calls : Replying(k, c) => Replying(k, c)' \/ conv[c].firstReplyAt = earliest[c]
  /\ \A w \in Sweepers : \A f \in todo'[w] : f.conv = c => f \in todo[w]

LEMMA BystanderStep ==
  ASSUME TypeOK, [Next]_vars, NEW c \in Convs, SerialAt(c), Bystander(c)
  PROVE  SerialAt(c)'
<1>1. now \in Nat /\ now' \in Nat /\ now <= now' /\ Warning \in Nat
  BY ClockStep, ConstantsAssumption
<1>2. /\ conv[c].priority # "NONE" => conv[c].responseDue \in Nat
      /\ conv[c].firstReplyAt \in Nat \cup {Null}
  BY RowTypes, TimesAreNaturals
<1>3. \A k \in Calls : On(k, c)' => On(k, c)
  BY DEF Bystander, On
<1>4. \A w \in Sweepers : Flagging(w, c)' => Flagging(w, c)
  BY DEF Bystander, Flagging
<1>5. Alone(c)'
  BY <1>3, <1>4 DEF SerialAt, Alone, Bystander
<1>6. SlaTrue(c)'
  BY <1>1, <1>2 DEF SerialAt, SlaTrue, Bystander
<1>7. RestTrue(c)'
  BY DEF SerialAt, RestTrue, Bystander
<1>8. ASSUME NEW k \in Calls PROVE CallTrue(k, c)'
  <2>1. Meets(conv[c], op[k].at) <=> Meets(conv'[c], op[k].at)
    BY DEF Meets, Bystander
  <2>2. QED
    BY <1>3, <2>1 DEF SerialAt, CallTrue, Bystander
<1>9. ASSUME NEW w \in Sweepers PROVE FlagTrue(w, c)'
  BY <1>1, <1>2 DEF SerialAt, FlagTrue, Bystander
<1>10. QED
  BY <1>5, <1>6, <1>7, <1>8, <1>9 DEF SerialAt

\* A reply begins alone: what is stamped so far is the earliest reply.
LEMMA ReplyBegins ==
  ASSUME TypeOK, StampInv, NEW c \in Convs, NEW k \in Calls, SerialAt(c), ~Busy(c), ReplyStored(k, c)
  PROVE  SerialAt(c)'
<1>1. op' = [op EXCEPT ![k] = [pc |-> "sent", conv |-> c, at |-> now]]
      /\ UNCHANGED <<now, conv, todo>>
  BY DEF ReplyStored
<1>2. \A j \in Calls : On(j, c)' => j = k
  BY <1>1 DEF Busy, On, TypeOK
<1>3. \A w \in Sweepers : ~Flagging(w, c)'
  BY <1>1 DEF Busy, Flagging
<1>4. conv[c].firstReplyAt = earliest[c]
  <2>1. \A j \in Calls : ~Replying(j, c)
    BY DEF Busy, Replying, On
  <2>2. QED
    BY <2>1 DEF SerialAt, RestTrue
<1>5. op'[k].pc = "sent" /\ op'[k].conv = c /\ op'[k].at = now
  BY <1>1 DEF TypeOK
<1>6. earliest'[c] = IF conv[c].firstReplyAt = Null THEN now ELSE conv[c].firstReplyAt
  BY <1>4 DEF ReplyStored, TypeOK
<1>7. conv[c].slaState = "BREACHED" => now > conv[c].responseDue
  BY DEF SerialAt, SlaTrue
<1>8. \A j \in Calls : CallTrue(j, c)'
  BY <1>1, <1>2, <1>5, <1>6, <1>7 DEF CallTrue
<1>9. SlaTrue(c)'
  BY <1>1 DEF SerialAt, SlaTrue
<1>10. RestTrue(c)'
  BY <1>5 DEF RestTrue, Replying
<1>11. Alone(c)' /\ \A w \in Sweepers : FlagTrue(w, c)'
  BY <1>2, <1>3 DEF Alone, FlagTrue, Flagging
<1>12. QED
  BY <1>8, <1>9, <1>10, <1>11 DEF SerialAt

LEMMA PriorityBegins ==
  ASSUME TypeOK, NEW c \in Convs, NEW k \in Calls, NEW p \in Priority,
         SerialAt(c), ~Busy(c), SetPriorityReads(k, c, p)
  PROVE  SerialAt(c)'
<1>1. op' = [op EXCEPT ![k] = [pc |-> "priority", conv |-> c, at |-> now, to |-> p,
                               reply |-> conv[c].firstReplyAt]]
      /\ UNCHANGED <<now, conv, todo, earliest>>
  BY DEF SetPriorityReads
<1>2. \A j \in Calls : On(j, c)' => j = k
  BY <1>1 DEF Busy, On, TypeOK
<1>3. \A w \in Sweepers : ~Flagging(w, c)'
  BY <1>1 DEF Busy, Flagging
<1>4. conv[c].firstReplyAt = earliest[c]
  <2>1. \A j \in Calls : ~Replying(j, c)
    BY DEF Busy, Replying, On
  <2>2. QED
    BY <2>1 DEF SerialAt, RestTrue
<1>5. op'[k].pc = "priority" /\ op'[k].reply = conv[c].firstReplyAt
  BY <1>1 DEF TypeOK
<1>6. \A j \in Calls : CallTrue(j, c)'
  BY <1>1, <1>2, <1>5 DEF CallTrue
<1>7. SlaTrue(c)' /\ RestTrue(c)'
  BY <1>1, <1>4 DEF SerialAt, SlaTrue, RestTrue
<1>8. Alone(c)' /\ \A w \in Sweepers : FlagTrue(w, c)'
  BY <1>2, <1>3 DEF Alone, FlagTrue, Flagging
<1>9. QED
  BY <1>6, <1>7, <1>8 DEF SerialAt

\* The reply decides on the row it will write to.
LEMMA ReplyDecides ==
  ASSUME TypeOK, NEW c \in Convs, NEW k \in Calls, SerialAt(c), ReplyReads(k), op[k].conv = c,
         conv[c].firstReplyAt = Null
  PROVE  SerialAt(c)'
<1>1. /\ op'[k] = [pc |-> "stamp", conv |-> c, at |-> op[k].at, met |-> Meets(conv[c], op[k].at)]
      /\ \A j \in Calls \ {k} : op'[j] = op[j]
      /\ op[k].pc = "sent"
      /\ UNCHANGED <<now, conv, todo, earliest>>
  BY DEF ReplyReads, TypeOK
<1>2. \A j \in Calls : On(j, c)' <=> On(j, c)
  BY <1>1 DEF On
<1>3. On(k, c)
  BY <1>1 DEF On
<1>4. \A j \in Calls : On(j, c) => j = k
  BY <1>3 DEF SerialAt, Alone
<1>5. \A j \in Calls : CallTrue(j, c)'
  <2>1. /\ earliest[c] = op[k].at
        /\ conv[c].slaState = "BREACHED" => op[k].at > conv[c].responseDue
    BY <1>1, <1>3 DEF SerialAt, CallTrue
  <2>2. CallTrue(k, c)'
    BY <1>1, <2>1 DEF CallTrue
  <2>3. QED
    BY <1>2, <1>4, <2>2 DEF CallTrue
<1>6. SlaTrue(c)' /\ \A w \in Sweepers : FlagTrue(w, c)'
  BY <1>1 DEF SerialAt, SlaTrue, FlagTrue
<1>7. RestTrue(c)'
  BY <1>1 DEF RestTrue, Replying
<1>8. Alone(c)'
  BY <1>1, <1>2 DEF SerialAt, Alone, Flagging
<1>9. QED
  BY <1>5, <1>6, <1>7, <1>8 DEF SerialAt

\* When the one call in progress with a conversation ends, nothing is in progress with it.
LEMMA CallEnds ==
  ASSUME TypeOK, NEW c \in Convs, NEW k \in Calls, SerialAt(c), On(k, c),
         op' = [op EXCEPT ![k] = Idle], todo' = todo
  PROVE  /\ \A j \in Calls : ~On(j, c)' /\ ~Replying(j, c)'
         /\ \A w \in Sweepers : ~Flagging(w, c)'
         /\ Alone(c)' /\ (\A j \in Calls : CallTrue(j, c)') /\ \A w \in Sweepers : FlagTrue(w, c)'
<1>1. \A j \in Calls : On(j, c) => j = k
  BY DEF SerialAt, Alone
<1>2. op'[k] = Idle /\ \A j \in Calls \ {k} : op'[j] = op[j]
  BY DEF TypeOK
<1>3. \A j \in Calls : ~On(j, c)'
  BY <1>1, <1>2 DEF On, Idle
<1>4. \A j \in Calls : ~Replying(j, c)'
  BY <1>3 DEF On, Replying
<1>5. \A w \in Sweepers : ~Flagging(w, c)'
  BY DEF SerialAt, Alone, Flagging
<1>6. Alone(c)' /\ (\A j \in Calls : CallTrue(j, c)') /\ \A w \in Sweepers : FlagTrue(w, c)'
  BY <1>3, <1>5 DEF Alone, CallTrue, FlagTrue, Flagging
<1>7. QED
  BY <1>3, <1>4, <1>5, <1>6

LEMMA ReplyEnds ==
  ASSUME TypeOK, NEW c \in Convs, NEW k \in Calls, SerialAt(c), ReplyStamps(k), op[k].conv = c
  PROVE  SerialAt(c)'
<1>1. /\ op[k].pc = "stamp" /\ op' = [op EXCEPT ![k] = Idle]
      /\ UNCHANGED <<now, todo, earliest>>
  BY DEF ReplyStamps
<1>2. On(k, c)
  BY <1>1 DEF On
<1>3. /\ conv[c].firstReplyAt = Null /\ earliest[c] = op[k].at
      /\ op[k].met <=> Meets(conv[c], op[k].at)
      /\ conv[c].slaState = "BREACHED" => op[k].at > conv[c].responseDue
  BY <1>1, <1>2 DEF SerialAt, CallTrue
<1>4. /\ conv'[c].firstReplyAt = op[k].at
      /\ conv'[c].slaState = IF op[k].met THEN "MET" ELSE conv[c].slaState
      /\ conv'[c].priority = conv[c].priority /\ conv'[c].responseDue = conv[c].responseDue
  BY DEF ReplyStamps, TypeOK, Row
<1>5. RestTrue(c)'
  BY <1>1, <1>3, <1>4 DEF RestTrue
<1>6. SlaTrue(c)'
  <2>1. op[k].at \in Nat /\ op[k].at # Null
    BY <1>1, CallTypes, TimesAreNaturals
  <2>2. /\ conv[c].slaState \in SlaState /\ conv[c].slaState # "MET"
        /\ conv[c].priority = "NONE" => conv[c].responseDue = Null
        /\ conv[c].priority # "NONE" => conv[c].responseDue \in Nat /\ conv[c].responseDue # Null
    BY <1>3, RowTypes, TimesAreNaturals DEF SerialAt, SlaTrue
  <2>3. op[k].met <=> conv[c].priority # "NONE" /\ op[k].at <= conv[c].responseDue
    <3>1. conv[c].slaState = "BREACHED" => conv[c].priority # "NONE"
      BY DEF SerialAt, SlaTrue
    <3>2. QED
      BY <1>3, <2>1, <2>2, <3>1 DEF Meets, SlaState
  <2>4. /\ conv[c].slaState = "BREACHED" => conv[c].priority # "NONE" /\ now > conv[c].responseDue
        /\ conv[c].slaState = "BREACHING" => conv[c].priority # "NONE" /\ now + Warning > conv[c].responseDue
    BY DEF SerialAt, SlaTrue
  <2>5. CASE op[k].met
    BY <1>1, <1>4, <2>1, <2>3, <2>5 DEF SlaTrue
  <2>6. CASE ~op[k].met
    BY <1>1, <1>4, <2>1, <2>2, <2>3, <2>4, <2>6 DEF SlaTrue
  <2>7. QED
    BY <2>5, <2>6
<1>7. QED
  BY <1>1, <1>2, <1>5, <1>6, CallEnds DEF SerialAt

LEMMA PriorityEnds ==
  ASSUME TypeOK, NEW c \in Convs, NEW k \in Calls, SerialAt(c), SetPriorityCommits(k), op[k].conv = c
  PROVE  SerialAt(c)'
<1>1. /\ op[k].pc = "priority" /\ op' = [op EXCEPT ![k] = Idle]
      /\ UNCHANGED <<now, todo, earliest>>
  BY DEF SetPriorityCommits
<1>2. On(k, c)
  BY <1>1 DEF On
<1>3. op[k].reply = conv[c].firstReplyAt /\ op[k].to \in Priority /\ op[k].at \in Times
  BY <1>1, <1>2, CallTypes DEF SerialAt, CallTrue
<1>4. /\ conv'[c].firstReplyAt = conv[c].firstReplyAt
      /\ conv'[c].slaState = SetState(op[k])
      /\ conv'[c].priority = op[k].to
      /\ conv'[c].responseDue = DueTimes(op[k].to, op[k].at).response
  BY DEF SetPriorityCommits, TypeOK, Row
<1>5. RestTrue(c)'
  <2>1. \A j \in Calls : ~Replying(j, c)
    BY <1>1, <1>2 DEF SerialAt, Alone, Replying, On
  <2>2. QED
    BY <1>1, <1>4, <2>1 DEF SerialAt, RestTrue
<1>6. SlaTrue(c)'
  <2>1. SetState(op[k]) = "MET" <=>
          /\ op[k].to # "NONE" /\ conv[c].firstReplyAt # Null
          /\ conv[c].firstReplyAt <= DueTimes(op[k].to, op[k].at).response
    BY <1>3 DEF SetState
  <2>2. SetState(op[k]) \in {"MET", "ON_TRACK"}
    BY DEF SetState
  <2>3. QED
    BY <1>4, <2>1, <2>2 DEF SlaTrue
<1>7. QED
  BY <1>1, <1>2, <1>5, <1>6, CallEnds DEF SerialAt
\* A sweep lists a conversation nobody is busy with, and decides on its row as it is.
LEMMA SweepBegins ==
  ASSUME TypeOK, StampInv, NEW c \in Convs, NEW w \in Sweepers, NEW listed \in SUBSET Open,
         SerialAt(c), ~Busy(c),
         todo' = [todo EXCEPT ![w] = Flags(listed)], UNCHANGED <<now, conv, op, earliest>>
  PROVE  SerialAt(c)'
<1>1. todo'[w] = Flags(listed) /\ \A v \in Sweepers \ {w} : todo'[v] = todo[v]
  BY DEF TypeOK
<1>2. \A k \in Calls : ~On(k, c) /\ ~Replying(k, c)
  BY DEF Busy, On, Replying
<1>3. \A v \in Sweepers : Flagging(v, c)' => v = w
  BY <1>1 DEF Busy, Flagging
<1>4. ASSUME NEW f \in Flags(listed), f.conv = c
      PROVE  /\ conv[c].priority # "NONE" /\ conv[c].slaState \in {"ON_TRACK", "BREACHING"}
             /\ f.next = Lateness(NextDue(conv[c])) /\ f.next \in {"BREACHING", "BREACHED"}
  BY <1>4 DEF Flags, Open
<1>5. \A f, g \in Flags(listed) : f.conv = c /\ g.conv = c => f = g
  <2> SUFFICES ASSUME NEW f \in Flags(listed), NEW g \in Flags(listed), f.conv = c, g.conv = c
               PROVE  f = g
    OBVIOUS
  <2>1. f.next = g.next
    BY <1>4
  <2>2. f \in [conv : listed, next : {"BREACHING", "BREACHED"}]
        /\ g \in [conv : listed, next : {"BREACHING", "BREACHED"}]
    BY DEF Flags
  <2>3. QED
    BY <2>1, <2>2
<1>6. Alone(c)'
  <2>1. \A v \in Sweepers : \A f, g \in todo'[v] : f.conv = c /\ g.conv = c => f = g
    BY <1>1, <1>3, <1>5 DEF Flagging
  <2>2. \A j \in Calls : ~On(j, c)'
    BY <1>2 DEF On
  <2>3. QED
    BY <1>3, <2>1, <2>2 DEF Alone
<1>7. \A v \in Sweepers : FlagTrue(v, c)'
  <2> SUFFICES ASSUME NEW f \in Flags(listed), f.conv = c
               PROVE  /\ conv[c].priority # "NONE" /\ conv[c].slaState \in {"ON_TRACK", "BREACHING"}
                      /\ f.next = "BREACHED" => now > conv[c].responseDue
                      /\ f.next = "BREACHING" => now + Warning > conv[c].responseDue
    BY <1>1, <1>3 DEF FlagTrue, Flagging
  <2>1. now \in Nat /\ Warning \in Nat
    BY TimesAreNaturals, ConstantsAssumption DEF TypeOK
  <2>2. conv[c].priority # "NONE" /\ conv[c].slaState \in {"ON_TRACK", "BREACHING"}
    BY <1>4
  <2>3. conv[c].responseDue \in Nat /\ conv[c].firstReplyAt \in Nat \cup {Null}
    BY <2>2, RowTypes, TimesAreNaturals
  <2>4. CASE conv[c].firstReplyAt = Null
    BY <1>4, <2>1, <2>2, <2>3, <2>4 DEF NextDue, Lateness
  <2>5. CASE conv[c].firstReplyAt # Null
    <3>1. conv[c].firstReplyAt <= now
      BY <2>5 DEF StampInv, RowPast
    <3>2. ~(conv[c].firstReplyAt <= conv[c].responseDue)
      BY <2>2, <2>5 DEF SerialAt, SlaTrue
    <3>3. now > conv[c].responseDue
      BY <2>1, <2>3, <2>5, <3>1, <3>2
    <3>4. QED
      BY <2>1, <2>2, <2>3, <3>3
  <2>6. QED
    BY <2>4, <2>5
<1>8. SlaTrue(c)' /\ RestTrue(c)'
  BY <1>2 DEF SerialAt, SlaTrue, RestTrue
<1>9. \A k \in Calls : CallTrue(k, c)'
  BY <1>2 DEF CallTrue, On
<1>10. QED
  BY <1>6, <1>7, <1>8, <1>9 DEF SerialAt

\* A sweep flags a conversation of its list.
LEMMA SweepEnds ==
  ASSUME TypeOK, NEW c \in Convs, NEW w \in Sweepers, NEW f \in todo[w], SerialAt(c), f.conv = c,
         conv' = [conv EXCEPT ![f.conv].slaState = f.next],
         todo' = [todo EXCEPT ![w] = @ \ {f}], UNCHANGED <<now, op, earliest>>
  PROVE  SerialAt(c)'
<1>1. /\ conv'[c].slaState = f.next
      /\ conv'[c].firstReplyAt = conv[c].firstReplyAt
      /\ conv'[c].priority = conv[c].priority /\ conv'[c].responseDue = conv[c].responseDue
  BY DEF TypeOK, Row
<1>2. Flagging(w, c) /\ f.next \in {"BREACHING", "BREACHED"}
  BY DEF Flagging, TypeOK, Flag
<1>3. \A k \in Calls : ~On(k, c) /\ ~Replying(k, c)
  BY <1>2 DEF SerialAt, Alone, On, Replying
<1>4. \A v \in Sweepers : ~Flagging(v, c)'
  <2>1. todo'[w] = todo[w] \ {f} /\ \A v \in Sweepers \ {w} : todo'[v] = todo[v]
    BY DEF TypeOK
  <2>2. ~Flagging(w, c)'
    BY <2>1 DEF SerialAt, Alone, Flagging
  <2>3. \A v \in Sweepers \ {w} : ~Flagging(v, c)'
    BY <1>2, <2>1 DEF SerialAt, Alone, Flagging
  <2>4. QED
    BY <2>2, <2>3
<1>5. Alone(c)' /\ (\A k \in Calls : CallTrue(k, c)') /\ \A v \in Sweepers : FlagTrue(v, c)'
  BY <1>3, <1>4 DEF Alone, CallTrue, FlagTrue, On, Flagging
<1>6. SlaTrue(c)'
  <2>1. /\ conv[c].priority # "NONE" /\ conv[c].slaState \in {"ON_TRACK", "BREACHING"}
        /\ f.next = "BREACHED" => now > conv[c].responseDue
        /\ f.next = "BREACHING" => now + Warning > conv[c].responseDue
    BY DEF SerialAt, FlagTrue
  <2>2. QED
    BY <1>1, <1>2, <2>1 DEF SerialAt, SlaTrue
<1>7. RestTrue(c)'
  BY <1>1, <1>3 DEF SerialAt, RestTrue
<1>8. QED
  BY <1>5, <1>6, <1>7 DEF SerialAt

LEMMA SerialStep == TypeOK /\ StampInv /\ SerialInv /\ [Next]_vars => SerialInv'
<1> SUFFICES ASSUME TypeOK, StampInv, SerialInv, [Next]_vars, NEW c \in Convs, Serial(c)'
             PROVE  SerialAt(c)'
  BY DEF SerialInv
<1>1. Serial(c)
  BY DEF Serial, Next, vars, Tick, ReplyStored, SetPriorityReads, ReplyReads, ReplyStamps,
         SetPriorityCommits, CallFails, SetStatus, SweepReads, SweepFlags, SweepFails
<1>2. SerialAt(c)
  BY <1>1 DEF SerialInv
<1>3. CASE UNCHANGED <<conv, op, todo, earliest>>
  BY <1>2, <1>3, BystanderStep DEF Bystander, Replying
<1>4. ASSUME NEW k \in Calls, NEW d \in Convs, ReplyStored(k, d) PROVE SerialAt(c)'
  <2>1. CASE d = c
    <3>1. ~Busy(c)
      BY <1>4, <2>1 DEF ReplyStored, Serial
    <3>2. QED
      BY <1>2, <1>4, <2>1, <3>1, ReplyBegins
  <2>2. CASE d # c
    <3>1. op[k] = Idle /\ op' = [op EXCEPT ![k] = [pc |-> "sent", conv |-> d, at |-> now]]
          /\ UNCHANGED <<conv, todo>>
      BY <1>4 DEF ReplyStored
    <3>2. /\ \A j \in Calls : On(j, c)' => op'[j] = op[j]
          /\ \A j \in Calls : Replying(j, c) => Replying(j, c)'
      BY <2>2, <3>1 DEF TypeOK, On, Replying, Idle
    <3>3. earliest'[c] = earliest[c]
      BY <1>4, <2>2 DEF ReplyStored, TypeOK
    <3>4. QED
      BY <1>2, <3>1, <3>2, <3>3, BystanderStep DEF Bystander
  <2>3. QED
    BY <2>1, <2>2
<1>5. ASSUME NEW k \in Calls, NEW d \in Convs, NEW p \in Priority, SetPriorityReads(k, d, p)
      PROVE  SerialAt(c)'
  <2>1. CASE d = c
    <3>1. ~Busy(c)
      BY <1>5, <2>1 DEF SetPriorityReads, Serial
    <3>2. QED
      BY <1>2, <1>5, <2>1, <3>1, PriorityBegins
  <2>2. CASE d # c
    <3>1. op[k] = Idle
          /\ op' = [op EXCEPT ![k] = [pc |-> "priority", conv |-> d, at |-> now, to |-> p,
                                      reply |-> conv[d].firstReplyAt]]
          /\ UNCHANGED <<conv, todo, earliest>>
      BY <1>5 DEF SetPriorityReads
    <3>2. /\ \A j \in Calls : On(j, c)' => op'[j] = op[j]
          /\ \A j \in Calls : Replying(j, c) => Replying(j, c)'
      BY <2>2, <3>1 DEF TypeOK, On, Replying, Idle
    <3>3. QED
      BY <1>2, <3>1, <3>2, BystanderStep DEF Bystander
  <2>3. QED
    BY <2>1, <2>2
<1>6. ASSUME NEW k \in Calls, ReplyReads(k) PROVE SerialAt(c)'
  <2>1. UNCHANGED <<conv, todo, earliest>> /\ \A j \in Calls \ {k} : op'[j] = op[j]
    BY <1>6 DEF ReplyReads, TypeOK
  <2>2. CASE op[k].conv # c
    <3>1. ~On(k, c) /\ ~Replying(k, c)
      BY <2>2 DEF On, Replying
    <3>2. ~On(k, c)'
      BY <1>6, <2>2 DEF ReplyReads, TypeOK, On, Idle
    <3>3. QED
      BY <1>2, <2>1, <3>1, <3>2, BystanderStep DEF Bystander, Replying
  <2>3. CASE op[k].conv = c /\ conv[c].firstReplyAt = Null
    BY <1>2, <1>6, <2>3, ReplyDecides
  <2>4. CASE op[k].conv = c /\ conv[c].firstReplyAt # Null
    <3>1. op'[k] = Idle /\ op[k].pc = "sent"
      BY <1>6, <2>4 DEF ReplyReads, TypeOK
    <3>2. On(k, c) /\ ~On(k, c)'
      BY <2>4, <3>1 DEF On, Idle
    <3>3. conv[c].firstReplyAt = earliest[c]
      BY <1>2, <2>4, <3>1, <3>2 DEF SerialAt, CallTrue
    <3>4. QED
      BY <1>2, <2>1, <3>2, <3>3, BystanderStep DEF Bystander
  <2>5. QED
    BY <2>2, <2>3, <2>4
<1>7. ASSUME NEW k \in Calls, ReplyStamps(k) \/ SetPriorityCommits(k) \/ CallFails(k)
      PROVE  SerialAt(c)'
  <2>1. op' = [op EXCEPT ![k] = Idle] /\ UNCHANGED <<todo, earliest>>
    BY <1>7 DEF ReplyStamps, SetPriorityCommits, CallFails
  <2>2. \A j \in Calls \ {k} : op'[j] = op[j]
    BY <2>1 DEF TypeOK
  <2>3. ~On(k, c)'
    BY <2>1 DEF TypeOK, On, Idle
  <2>4. CASE op[k].conv # c
    <3>1. conv'[c] = conv[c]
      BY <1>7, <2>4 DEF ReplyStamps, SetPriorityCommits, CallFails, TypeOK
    <3>2. ~Replying(k, c)
      BY <2>4 DEF Replying
    <3>3. QED
      BY <1>2, <2>1, <2>2, <2>3, <3>1, <3>2, BystanderStep DEF Bystander, Replying
  <2>5. CASE op[k].conv = c /\ ReplyStamps(k)
    BY <1>2, <2>5, ReplyEnds
  <2>6. CASE op[k].conv = c /\ SetPriorityCommits(k)
    BY <1>2, <2>6, PriorityEnds
  <2>7. CASE op[k].conv = c /\ CallFails(k)
    <3>1. conv' = conv
      BY <2>7 DEF CallFails
    <3>2. ~Replying(k, c)
      BY <2>7 DEF CallFails, Replying, Serial
    <3>3. QED
      BY <1>2, <2>1, <2>2, <2>3, <3>1, <3>2, BystanderStep DEF Bystander, Replying
  <2>8. QED
    BY <1>7, <2>4, <2>5, <2>6, <2>7
<1>8. ASSUME NEW d \in Convs, NEW s \in ConvStatus, SetStatus(d, s) PROVE SerialAt(c)'
  <2>1. /\ conv'[c].priority = conv[c].priority /\ conv'[c].slaState = conv[c].slaState
        /\ conv'[c].firstReplyAt = conv[c].firstReplyAt
        /\ conv'[c].responseDue = conv[c].responseDue
    BY <1>8 DEF SetStatus, TypeOK, Row
  <2>2. UNCHANGED <<op, todo, earliest>>
    BY <1>8 DEF SetStatus
  <2>3. QED
    BY <1>2, <2>1, <2>2, BystanderStep DEF Bystander, Replying
<1>9. ASSUME NEW w \in Sweepers, SweepReads(w) PROVE SerialAt(c)'
  <2>1. PICK listed \in SUBSET Open :
          /\ todo' = [todo EXCEPT ![w] = Flags(listed)]
          /\ disturbed' = disturbed \cup {d \in {f.conv : f \in Flags(listed)} : Busy(d)}
    BY <1>9 DEF SweepReads
  <2>2. UNCHANGED <<now, conv, op, earliest>>
    BY <1>9 DEF SweepReads
  <2>3. CASE \A f \in Flags(listed) : f.conv # c
    <3>1. \A v \in Sweepers : \A f \in todo'[v] : f.conv = c => f \in todo[v]
      BY <2>1, <2>3 DEF TypeOK
    <3>2. QED
      BY <1>2, <2>2, <3>1, BystanderStep DEF Bystander, Replying
  <2>4. CASE \E f \in Flags(listed) : f.conv = c
    <3>1. ~Busy(c)
      BY <2>1, <2>4 DEF Serial
    <3>2. QED
      BY <1>2, <2>1, <2>2, <3>1, SweepBegins
  <2>5. QED
    BY <2>3, <2>4
<1>10. ASSUME NEW w \in Sweepers, SweepFlags(w) PROVE SerialAt(c)'
  <2>1. PICK f \in todo[w] : /\ conv' = [conv EXCEPT ![f.conv].slaState = f.next]
                             /\ todo' = [todo EXCEPT ![w] = @ \ {f}]
                             /\ UNCHANGED <<now, op, earliest>>
    BY <1>10 DEF SweepFlags
  <2>2. CASE f.conv = c
    BY <1>2, <2>1, <2>2, SweepEnds
  <2>3. CASE f.conv # c
    <3>1. conv'[c] = conv[c]
      BY <2>1, <2>3 DEF TypeOK
    <3>2. \A v \in Sweepers : todo'[v] \subseteq todo[v]
      BY <2>1 DEF TypeOK
    <3>3. QED
      BY <1>2, <2>1, <3>1, <3>2, BystanderStep DEF Bystander, Replying
  <2>4. QED
    BY <2>2, <2>3
<1>11. ASSUME NEW w \in Sweepers, SweepFails(w) PROVE SerialAt(c)'
  <2>1. UNCHANGED <<conv, op, earliest>> /\ todo' = [todo EXCEPT ![w] = {}]
    BY <1>11 DEF SweepFails
  <2>2. \A v \in Sweepers : todo'[v] \subseteq todo[v]
    BY <2>1 DEF TypeOK
  <2>3. QED
    BY <1>2, <2>1, <2>2, BystanderStep DEF Bystander, Replying
<1>12. QED
  <2>1. Tick \/ UNCHANGED vars => UNCHANGED <<conv, op, todo, earliest>>
    BY DEF Tick, vars
  <2>2. QED
    BY <1>3, <1>4, <1>5, <1>6, <1>7, <1>8, <1>9, <1>10, <1>11, <2>1 DEF Next

IInv == TypeOK /\ StampInv /\ SerialInv

LEMMA IInvHolds == Spec => []IInv
<1>1. Init => IInv
  BY TypeInit, StampInit, SerialInit DEF IInv
<1>2. IInv /\ [Next]_vars => IInv'
  BY TypeStep, StampStep, SerialStep DEF IInv
<1>3. QED
  BY <1>1, <1>2, PTL DEF Spec

\* The SLA columns of a conversation whose operations came one at a time, and none of
\* whose replies was lost, are truthful, whatever the office hours.
THEOREM SerialIsTruthfulHolds == Spec => []SerialIsTruthful
<1>1. IInv => SerialIsTruthful
  <2> SUFFICES ASSUME IInv, NEW c \in Convs, Serial(c), ~Busy(c) PROVE Truthful(c)
    BY DEF SerialIsTruthful, Serial
  <2>1. SerialAt(c)
    BY DEF IInv, SerialInv
  <2>2. \A k \in Calls : ~Replying(k, c)
    BY DEF Busy, On, Replying
  <2>3. QED
    BY <2>1, <2>2 DEF SerialAt, SlaTrue, RestTrue, Truthful
<1>2. QED
  BY <1>1, IInvHolds, PTL

\* The columns of a conversation say what happened: its reply is stamped, and its SLA state
\* true where nothing overlapped.
THEOREM ColumnsAreTrueHolds == Spec => []ColumnsAreTrue
<1>1. SerialIsTruthful /\ RepliedIsStamped => ColumnsAreTrue
  BY DEF ColumnsAreTrue
<1>2. QED
  BY <1>1, SerialIsTruthfulHolds, RepliedIsStampedHolds, PTL

\* A conversation whose operations come one at a time is never flagged once it has met
\* its SLA.
THEOREM SerialMetNotFlaggedHolds == Spec => SerialMetNotFlagged
<1>1. IInv /\ [Next]_vars =>
        [\A c \in Convs \ (disturbed \cup lost) : conv[c].slaState = "MET" => ~Flagged(c)']_vars
  <2> SUFFICES ASSUME IInv, [Next]_vars, NEW c \in Convs, Serial(c), conv[c].slaState = "MET"
               PROVE  ~Flagged(c)'
    BY DEF Serial
  <2>1. TypeOK /\ SerialAt(c)
    BY DEF IInv, SerialInv
  <2>2. CASE SlaUntouched(c)
    BY <2>2 DEF SlaUntouched, Flagged
  <2>3. ASSUME NEW k \in Calls, StampedBy(k, c) PROVE ~Flagged(c)'
    BY <2>1, <2>3, SlaColumns DEF Flagged
  <2>4. ASSUME NEW k \in Calls, PrioritizedBy(k, c) PROVE ~Flagged(c)'
    BY <2>1, <2>4, SlaColumns DEF Flagged, SetState
  <2>5. ASSUME NEW w \in Sweepers, FlaggedBy(w, c) PROVE FALSE
    BY <2>1, <2>5 DEF FlaggedBy, SerialAt, FlagTrue
  <2>6. QED
    BY <2>1, <2>2, <2>3, <2>4, <2>5, ConvStep
<1>2. QED
  BY <1>1, IInvHolds, PTL DEF Spec, SerialMetNotFlagged
=============================================================================
