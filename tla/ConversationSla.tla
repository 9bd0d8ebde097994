---------------------------- MODULE ConversationSla ----------------------------
(***************************************************************************)
(* The SLA columns of support conversations: agents' replies, which stamp  *)
(* the first reply and may meet the first-response SLA, priority changes,  *)
(* which start it anew, and the repeatable sweep that flags what is late.  *)
(*                                                                         *)
(* Replies, priority changes and the sweep read a row and write it by id   *)
(* later, under READ COMMITTED.  One clock times all of them.  A value     *)
(* read off the clock at the start of a call is read with the row: only a  *)
(* delay of the length of a budget would tell them apart.  Messages of     *)
(* merchants and of the system, and internal notes, touch none of these    *)
(* columns.                                                                *)
(***************************************************************************)
EXTENDS Naturals, FiniteSets

CONSTANTS
  Convs,
  Null,
  SlaPriorities,   \* the priorities that carry an SLA
  ResponseDue,     \* the due-times of a priority set at some time: office hours
  ResolutionDue,   \*   make them any functions that do not point backwards
  Warning,         \* SLA_BREACH_WARNING_MINUTES
  Take,            \* how many rows one sweep reads
  Calls,           \* the agents' calls that can be in progress at once
  Sweepers,        \* the sweeps that can be in progress at once
  Horizon,         \* bound: time stops here
  MaxFaults        \* bound: how many calls and sweeps fail half way

Times == 0 .. Horizon
Priority == SlaPriorities \cup {"NONE"}
ConvStatus == {"OPEN", "SNOOZED", "CLOSED"}
SlaState == {"ON_TRACK", "BREACHING", "BREACHED", "MET"}
Idle == [pc |-> "idle"]

ASSUME ConstantsAssumption ==
  /\ Null \notin Nat /\ "NONE" \notin SlaPriorities
  /\ Horizon \in Nat /\ Warning \in Nat /\ MaxFaults \in Nat /\ Take \in Nat \ {0}
  /\ ResponseDue \in [SlaPriorities -> [Times -> Nat]]
  /\ ResolutionDue \in [SlaPriorities -> [Times -> Nat]]
  /\ \A p \in SlaPriorities, t \in Times : t <= ResponseDue[p][t] /\ t <= ResolutionDue[p][t]

VARIABLES
  now,
  conv,        \* the conversations rows
  op,          \* the agents' calls in progress
  todo,        \* by sweep in progress: what it has decided to flag
  earliest,    \* when the first agent reply of a conversation was stored
  disturbed,   \* observation only: conversations two operations on which overlapped
  lost,        \* observation only: conversations with a reply whose call failed
  faults

vars == <<now, conv, op, todo, earliest, disturbed, lost, faults>>

Init ==
  /\ now = 0
  /\ conv = [c \in Convs |-> [status |-> "OPEN", priority |-> "NONE", slaState |-> "ON_TRACK",
                              firstReplyAt |-> Null, responseDue |-> Null, resolutionDue |-> Null]]
  /\ op = [k \in Calls |-> Idle]
  /\ todo = [w \in Sweepers |-> {}]
  /\ earliest = [c \in Convs |-> Null]
  /\ disturbed = {} /\ lost = {}
  /\ faults = 0

Tick ==
  /\ now < Horizon
  /\ now' = now + 1
  /\ UNCHANGED <<conv, op, todo, earliest, disturbed, lost, faults>>

\* Some operation has begun with a conversation and has still to write it.
On(k, c) == op[k].pc # "idle" /\ op[k].conv = c
Flagging(w, c) == \E f \in todo[w] : f.conv = c
Busy(c) == (\E k \in Calls : On(k, c)) \/ (\E w \in Sweepers : Flagging(w, c))

-----------------------------------------------------------------------------
(* A reply of an agent: the message is stored, then the row read, then     *)
(* written, in three statements of their own.                              *)

ReplyStored(k, c) ==
  /\ op[k] = Idle
  /\ op' = [op EXCEPT ![k] = [pc |-> "sent", conv |-> c, at |-> now]]
  /\ earliest' = [earliest EXCEPT ![c] = IF @ = Null THEN now ELSE @]
  /\ disturbed' = disturbed \cup {d \in {c} : Busy(d)}
  /\ UNCHANGED <<now, conv, todo, lost, faults>>

\* The reply meets the first-response SLA.
Meets(row, at) ==
  /\ row.responseDue # Null
  /\ at <= row.responseDue
  /\ row.slaState \in {"ON_TRACK", "BREACHING"}

\* A later reply leaves the SLA columns alone: its call is over here.
ReplyReads(k) ==
  LET row == conv[op[k].conv] IN
  /\ op[k].pc = "sent"
  /\ op' = [op EXCEPT ![k] =
       IF row.firstReplyAt = Null
       THEN [pc |-> "stamp", conv |-> @.conv, at |-> @.at, met |-> Meets(row, @.at)]
       ELSE Idle]
  /\ UNCHANGED <<now, conv, todo, earliest, disturbed, lost, faults>>

ReplyStamps(k) ==
  /\ op[k].pc = "stamp"
  /\ conv' = [conv EXCEPT ![op[k].conv].firstReplyAt = op[k].at,
                          ![op[k].conv].slaState = IF op[k].met THEN "MET" ELSE @]
  /\ op' = [op EXCEPT ![k] = Idle]
  /\ UNCHANGED <<now, todo, earliest, disturbed, lost, faults>>

-----------------------------------------------------------------------------
(* Priority and status.                                                    *)

\* The transaction of a priority change has read the row.
SetPriorityReads(k, c, p) ==
  /\ op[k] = Idle
  /\ op' = [op EXCEPT ![k] = [pc |-> "priority", conv |-> c, at |-> now, to |-> p,
                              reply |-> conv[c].firstReplyAt]]
  /\ disturbed' = disturbed \cup {d \in {c} : Busy(d)}
  /\ UNCHANGED <<now, conv, todo, earliest, lost, faults>>

\* Mutant: NONE only stops the first-response timer.
ResolutionKept(p, t) ==
  [response |-> IF p = "NONE" THEN Null ELSE ResponseDue[p][t],
   resolution |-> IF p = "NONE" THEN t ELSE ResolutionDue[p][t]]

DueTimes(p, t) ==
  IF p = "NONE" THEN [response |-> Null, resolution |-> Null]
  ELSE [response |-> ResponseDue[p][t], resolution |-> ResolutionDue[p][t]]

\* Mutant: a priority change always starts the timers again.
FreshState(o) == "ON_TRACK"

\* The reply the transaction has read stays MET when it meets the new due-time.
SetState(o) ==
  IF o.to # "NONE" /\ o.reply # Null /\ o.reply <= DueTimes(o.to, o.at).response
  THEN "MET" ELSE "ON_TRACK"

SetPriorityCommits(k) ==
  LET o == op[k]  due == DueTimes(o.to, o.at) IN
  /\ o.pc = "priority"
  /\ conv' = [conv EXCEPT ![o.conv] =
       [@ EXCEPT !.priority = o.to, !.slaState = SetState(o),
                 !.responseDue = due.response, !.resolutionDue = due.resolution]]
  /\ op' = [op EXCEPT ![k] = Idle]
  /\ UNCHANGED <<now, todo, earliest, disturbed, lost, faults>>

\* The status is read first, but the outcome is that of one step at the read or the write.
SetStatus(c, s) ==
  /\ conv[c].status # s
  /\ conv' = [conv EXCEPT ![c].status = s]
  /\ UNCHANGED <<now, op, todo, earliest, disturbed, lost, faults>>

\* A statement or a transaction of the call fails, or the process dies: a reply
\* whose message is stored already stays unstamped.
CallFails(k) ==
  /\ op[k] # Idle
  /\ faults < MaxFaults
  /\ faults' = faults + 1
  /\ op' = [op EXCEPT ![k] = Idle]
  /\ lost' = lost \cup {c \in {op[k].conv} : op[k].pc \in {"sent", "stamp"}}
  /\ UNCHANGED <<now, conv, todo, earliest, disturbed>>

-----------------------------------------------------------------------------
(* The sweep.                                                              *)

\* Mutant: what has been warned about is not looked at again.
OpenOnTrack ==
  {c \in Convs : conv[c].status # "CLOSED" /\ conv[c].priority # "NONE"
                   /\ conv[c].slaState = "ON_TRACK"}

\* What the sweep asks for.
Open ==
  {c \in Convs : conv[c].status # "CLOSED" /\ conv[c].priority # "NONE"
                   /\ conv[c].slaState \in {"ON_TRACK", "BREACHING"}}

\* The next relevant due-time.
NextDue(row) == IF row.firstReplyAt # Null THEN row.resolutionDue ELSE row.responseDue

\* What a due-time makes of a row now; a row that is on track is left alone.
Lateness(due) ==
  IF now > due THEN "BREACHED"
  ELSE IF now + Warning > due THEN "BREACHING" ELSE "ON_TRACK"

Flags(listed) ==
  {f \in [conv : listed, next : {"BREACHING", "BREACHED"}] :
     /\ NextDue(conv[f.conv]) # Null
     /\ f.next = Lateness(NextDue(conv[f.conv]))
     /\ f.next # conv[f.conv].slaState}

\* The rows come in no order: beyond Take, any of them may be left out.
SweepReads(w) ==
  /\ todo[w] = {}
  /\ \E listed \in SUBSET Open :
       /\ Cardinality(listed) <= Take
       /\ listed = Open \/ Cardinality(listed) = Take
       /\ todo' = [todo EXCEPT ![w] = Flags(listed)]
       /\ disturbed' = disturbed \cup {c \in {f.conv : f \in Flags(listed)} : Busy(c)}
  /\ UNCHANGED <<now, conv, op, earliest, lost, faults>>

\* One conversation of the list: its state and the audit row in one transaction.
SweepFlags(w) ==
  \E f \in todo[w] :
    /\ conv' = [conv EXCEPT ![f.conv].slaState = f.next]
    /\ todo' = [todo EXCEPT ![w] = @ \ {f}]
    /\ UNCHANGED <<now, op, earliest, disturbed, lost, faults>>

\* One transaction fails and the rest of the list is given up; the job is retried
\* from a new list.
SweepFails(w) ==
  /\ todo[w] # {}
  /\ faults < MaxFaults
  /\ faults' = faults + 1
  /\ todo' = [todo EXCEPT ![w] = {}]
  /\ UNCHANGED <<now, conv, op, earliest, disturbed, lost>>

Next ==
  \/ Tick
  \/ \E k \in Calls :
       \/ \E c \in Convs :
            \/ ReplyStored(k, c)
            \/ \E p \in Priority : SetPriorityReads(k, c, p)
       \/ ReplyReads(k) \/ ReplyStamps(k) \/ SetPriorityCommits(k) \/ CallFails(k)
  \/ \E c \in Convs, s \in ConvStatus : SetStatus(c, s)
  \/ \E w \in Sweepers : SweepReads(w) \/ SweepFlags(w) \/ SweepFails(w)

Spec == Init /\ [][Next]_vars

\* The sweep is a repeatable job with retries, and its worker runs with the server.
\* Nobody has to reply, and time may stop.
Fairness == \A w \in Sweepers : WF_vars(SweepReads(w)) /\ WF_vars(SweepFlags(w))
FairSpec == Spec /\ Fairness

-----------------------------------------------------------------------------
(* Properties.                                                             *)

MaybeTime == Nat \cup {Null}
Row ==
  [status : ConvStatus, priority : Priority, slaState : SlaState, firstReplyAt : MaybeTime,
   responseDue : MaybeTime, resolutionDue : MaybeTime]
CallInProgress ==
  [pc : {"idle"}]
    \cup [pc : {"sent"}, conv : Convs, at : Times]
    \cup [pc : {"stamp"}, conv : Convs, at : Times, met : BOOLEAN]
    \cup [pc : {"priority"}, conv : Convs, at : Times, to : Priority, reply : Times \cup {Null}]
Flag == [conv : Convs, next : {"BREACHING", "BREACHED"}]

\* Type correctness, with the convention of the due-time columns: both are there
\* exactly when the priority carries an SLA (slaService, setPriority).
TypeOK ==
  /\ now \in Times
  /\ conv \in [Convs -> Row]
  /\ \A c \in Convs :
       /\ conv[c].firstReplyAt \in Times \cup {Null}
       /\ conv[c].responseDue = Null <=> conv[c].priority = "NONE"
       /\ conv[c].resolutionDue = Null <=> conv[c].priority = "NONE"
  /\ op \in [Calls -> CallInProgress]
  /\ todo \in [Sweepers -> SUBSET Flag]
  /\ earliest \in [Convs -> Times \cup {Null}]
  /\ disturbed \subseteq Convs /\ lost \subseteq Convs
  /\ faults \in 0 .. MaxFaults

\* The SLA columns say what happened: the first reply is the earliest one, MET says
\* exactly that it came before the due-time, a flag that the due-time is past or near.
Truthful(c) ==
  LET row == conv[c] IN
  /\ row.firstReplyAt = earliest[c]
  /\ row.slaState = "MET" <=>
       /\ row.priority # "NONE"
       /\ row.firstReplyAt # Null
       /\ row.firstReplyAt <= row.responseDue
  /\ row.slaState = "BREACHED" => row.priority # "NONE" /\ now > row.responseDue
  /\ row.slaState = "BREACHING" => row.priority # "NONE" /\ now + Warning > row.responseDue

\* The columns of a conversation are truthful when its operations came one at a time
\* and no reply was lost: persistMessage, setPriority and sweep agree on what they mean.
SerialIsTruthful == \A c \in Convs \ (disturbed \cup lost) : ~Busy(c) => Truthful(c)

\* However calls and sweeps interleave, a reply whose call did not fail is not
\* forgotten, the stamp is no older than the replies, and MET has a reply behind it
\* (persistMessage).
RepliedIsStamped ==
  \A c \in Convs :
    /\ c \notin lost /\ ~Busy(c) /\ earliest[c] # Null => conv[c].firstReplyAt # Null
    /\ conv[c].firstReplyAt # Null => earliest[c] # Null /\ earliest[c] <= conv[c].firstReplyAt
    /\ conv[c].slaState = "MET" => conv[c].firstReplyAt # Null

\* The columns say what happened: a reply is stamped, and where nothing overlapped the SLA
\* state is the true one (persistMessage, setPriority, sweep).
ColumnsAreTrue == SerialIsTruthful /\ RepliedIsStamped

Flagged(c) == conv[c].slaState \in {"BREACHING", "BREACHED"}

\* A conversation whose operations come one at a time is not flagged once it has met
\* its SLA (sweep leaves MET out of its query).
SerialMetNotFlagged ==
  [][\A c \in Convs \ (disturbed \cup lost) : conv[c].slaState = "MET" => ~Flagged(c)']_vars

\* The same of every conversation, as the specification of the sweep has it.
MetNotFlagged == [][\A c \in Convs : conv[c].slaState = "MET" => ~Flagged(c)']_vars

Overdue(c) ==
  /\ conv[c].status # "CLOSED" /\ conv[c].priority # "NONE"
  /\ conv[c].slaState \in {"ON_TRACK", "BREACHING"}
  /\ now > NextDue(conv[c])

\* What is past its next due-time is flagged, answered in time, closed or given a new
\* due-time: neither a failing sweep nor a stale write leaves it behind for good.
OverdueIsFlagged == \A c \in Convs : Overdue(c) ~> ~Overdue(c)
=============================================================================
