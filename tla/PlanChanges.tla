------------------------------ MODULE PlanChanges ------------------------------
(***************************************************************************)
(* A merchant's plan: the requests to change it, which are recorded and    *)
(* then dispatched to the app (or put into a conversation when the app has *)
(* no admin interface); the subscription that pages show, read at the      *)
(* source and cached for a while; and the handler of the billing webhooks, *)
(* which the pipeline may run again.                                       *)
(***************************************************************************)
EXTENDS Naturals, FiniteSets, Sequences

CONSTANTS
  Readers,      \* pages that ask for the subscription
  TTL,          \* SUBSCRIPTION_CACHE_TTL_SECONDS, in ticks
  Supplies      \* bounds: whether the app has an admin interface; requests, changes of the plan,
                \*   reads, ticks, failures, webhook events and their runs

Stock == [admin : BOOLEAN, requests : Nat, changes : Nat, reads : Nat, ticks : Nat, failures : Nat,
          events : Nat, runs : Nat]
Stocked == TTL \in Nat /\ Supplies \subseteq Stock

VARIABLES
  reqs,         \* PlanChangeRequest: status, conversation, and how far its call is
  taken,        \* requests that the app has accepted
  posted,       \* requests of which a message was written into the conversation
  audited,      \* per request: its audit rows
  faulty,       \* observation only: requests of which an answer or a call was lost
  plan,         \* the subscription at the source, a version
  clock,
  cache,        \* BillingService.cache of the shop
  reads,        \* reads of the source in progress (inflight)
  reader,       \* per page: what it waits for and what it was told
  newest,       \* observation only: the newest version told unmarked
  hooks,        \* approaching_capped_amount events: runs, alerts, audit rows
  supply

vars == <<reqs, taken, posted, audited, faulty, plan, clock, cache, reads, reader, newest, hooks, supply>>
requests == <<reqs, taken, posted, audited, faulty>>
subscription == <<plan, clock, cache, reads, reader, newest>>

NoRow == [there |-> FALSE, v |-> 0, expires |-> 0]
Quiet == [waits |-> FALSE, told |-> "nothing", v |-> 0, since |-> 0]

Init ==
  /\ reqs = <<>> /\ audited = <<>>
  /\ taken = {} /\ posted = {} /\ faulty = {}
  /\ plan = 1 /\ clock = 0
  /\ cache = NoRow /\ reads = {}
  /\ reader = [r \in Readers |-> Quiet]
  /\ newest = 0
  /\ supply \in Supplies
  /\ hooks = [e \in 1..supply.events |-> [runs |-> 0, pc |-> "waiting", alerts |-> 0, audited |-> 0]]

Uses(what) ==
  /\ supply[what] > 0
  /\ supply' = [supply EXCEPT ![what] = @ - 1]

-----------------------------------------------------------------------------
(* PlanChangeService.requestChange.                                        *)

\* The row and its audit row, in one transaction.
Request ==
  /\ Uses("requests")
  /\ reqs' = Append(reqs, [status |-> "REQUESTED", conv |-> FALSE, heard |-> FALSE,
                           pc |-> IF supply.admin THEN "dispatch" ELSE "converse"])
  /\ audited' = Append(audited, <<"REQUESTED">>)
  /\ UNCHANGED <<taken, posted, faulty, subscription, hooks>>

\* The app accepts or refuses; the answer may be lost.
Dispatch(i) ==
  /\ reqs[i].pc = "dispatch"
  /\ \E accepts, lost \in BOOLEAN :
       /\ IF lost THEN Uses("failures") ELSE UNCHANGED supply
       /\ taken' = IF accepts THEN taken \cup {i} ELSE taken
       /\ reqs' = [reqs EXCEPT ![i].pc = "mark", ![i].heard = accepts /\ ~lost]
       /\ faulty' = IF lost THEN faulty \cup {i} ELSE faulty
  /\ UNCHANGED <<posted, audited, subscription, hooks>>

\* Mutant: an answer that was lost is taken for a success.
MarkOptimistic(i) ==
  /\ reqs[i].pc = "mark"
  /\ LET status == IF reqs[i].heard \/ i \in faulty THEN "DISPATCHED" ELSE "FAILED" IN
       /\ reqs' = [reqs EXCEPT ![i].status = status, ![i].pc = "done"]
       /\ audited' = [audited EXCEPT ![i] = Append(@, status)]
  /\ UNCHANGED <<taken, posted, faulty, subscription, hooks, supply>>

\* markDispatched or markFailed, with its audit row.
Mark(i) ==
  /\ reqs[i].pc = "mark"
  /\ LET status == IF reqs[i].heard THEN "DISPATCHED" ELSE "FAILED" IN
       /\ reqs' = [reqs EXCEPT ![i].status = status, ![i].pc = "done"]
       /\ audited' = [audited EXCEPT ![i] = Append(@, status)]
  /\ UNCHANGED <<taken, posted, faulty, subscription, hooks, supply>>

\* The conversation is found or opened; the message is written next, and may fail, which is
\* captured.
FallbackToConversation(i) ==
  /\ reqs[i].pc = "converse"
  /\ \E written \in BOOLEAN :
       /\ IF written THEN posted' = posted \cup {i} /\ UNCHANGED <<faulty, supply>>
                     ELSE posted' = posted /\ faulty' = faulty \cup {i} /\ Uses("failures")
  /\ reqs' = [reqs EXCEPT ![i].pc = "refer", ![i].heard = TRUE]
  /\ UNCHANGED <<taken, audited, subscription, hooks>>

\* No conversation is there when it could not be opened.
ConversationFails(i) ==
  /\ Uses("failures")
  /\ reqs[i].pc = "converse"
  /\ reqs' = [reqs EXCEPT ![i].pc = "refer"]
  /\ UNCHANGED <<taken, posted, audited, faulty, subscription, hooks>>

Refer(i) ==
  /\ reqs[i].pc = "refer"
  /\ reqs' = [reqs EXCEPT ![i].conv = reqs[i].heard, ![i].pc = "done"]
  /\ UNCHANGED <<taken, posted, audited, faulty, subscription, hooks, supply>>

\* The process dies, or a statement fails: nothing takes the request up again.
RequestDies(i) ==
  /\ Uses("failures")
  /\ reqs[i].pc # "done"
  /\ reqs' = [reqs EXCEPT ![i].pc = "done"]
  /\ faulty' = faulty \cup {i}
  /\ UNCHANGED <<taken, posted, audited, subscription, hooks>>

-----------------------------------------------------------------------------
(* BillingService.getSubscription.                                         *)

ChangePlan ==
  /\ Uses("changes")
  /\ plan' = plan + 1
  /\ UNCHANGED <<requests, clock, cache, reads, reader, newest, hooks>>

Tick ==
  /\ Uses("ticks")
  /\ clock' = clock + 1
  /\ UNCHANGED <<requests, plan, cache, reads, reader, newest, hooks>>

Cached == cache.there /\ cache.expires > clock

Told(how, v) == [waits |-> FALSE, told |-> how, v |-> v, since |-> newest]

\* From the cache; or with the read that is in progress; or with a read of its own.
GetSubscription(r) ==
  /\ ~reader[r].waits /\ Uses("reads")
  /\ IF Cached
     THEN reader' = [reader EXCEPT ![r] = Told("fresh", cache.v)] /\ UNCHANGED reads
     ELSE /\ reader' = [reader EXCEPT ![r] = [Quiet EXCEPT !.waits = TRUE, !.since = newest]]
          /\ reads' = IF reads # {} THEN {[q EXCEPT !.for = @ \cup {r}] : q \in reads}
                      ELSE {[for |-> {r}, v |-> 0, prior |-> cache]}
  /\ UNCHANGED <<requests, plan, clock, cache, newest, hooks>>

ReadSource(q) ==
  /\ q.v = 0
  /\ reads' = (reads \ {q}) \cup {[q EXCEPT !.v = plan]}
  /\ UNCHANGED <<requests, plan, clock, cache, reader, newest, hooks, supply>>

Answered(q, how, v) ==
  reader' = [r \in Readers |-> IF r \in q.for THEN [Told(how, v) EXCEPT !.since = reader[r].since] ELSE reader[r]]

ReadSucceeds(q) ==
  /\ q.v # 0
  /\ cache' = [there |-> TRUE, v |-> q.v, expires |-> clock + TTL]
  /\ Answered(q, "fresh", q.v)
  /\ newest' = IF q.v > newest THEN q.v ELSE newest
  /\ reads' = reads \ {q}
  /\ UNCHANGED <<requests, plan, clock, hooks, supply>>

\* The last known subscription, marked as stale, or none.
ReadFails(q) ==
  /\ Uses("failures")
  /\ Answered(q, IF q.prior.there THEN "stale" ELSE "none", q.prior.v)
  /\ reads' = reads \ {q}
  /\ UNCHANGED <<requests, plan, clock, cache, newest, hooks>>

Restart ==
  /\ Uses("failures")
  /\ supply.reads > 0
  /\ cache' = NoRow /\ reads' = {}
  /\ reader' = [r \in Readers |-> IF reader[r].waits THEN Quiet ELSE reader[r]]
  /\ UNCHANGED <<requests, plan, clock, newest, hooks>>

-----------------------------------------------------------------------------
(* BillingMonitor.onCapApproaching, run by the webhook pipeline.           *)

Run(e) ==
  /\ Uses("runs")
  /\ hooks[e].pc = "waiting"
  /\ hooks' = [hooks EXCEPT ![e].pc = "running", ![e].runs = @ + 1]
  /\ UNCHANGED <<requests, subscription>>

\* The alert and its audit row, in one transaction.
OnCapApproaching(e) ==
  /\ hooks[e].pc = "running"
  /\ hooks' = [hooks EXCEPT ![e].pc = "raised", ![e].alerts = @ + 1, ![e].audited = @ + 1]
  /\ UNCHANGED <<requests, subscription, supply>>

MarkProcessed(e) ==
  /\ hooks[e].pc = "raised"
  /\ hooks' = [hooks EXCEPT ![e].pc = "processed"]
  /\ UNCHANGED <<requests, subscription, supply>>

\* The event waits to be run again, also when its alert has been raised.
RunFails(e) ==
  /\ hooks[e].pc \in {"running", "raised"}
  /\ hooks' = [hooks EXCEPT ![e].pc = "waiting"]
  /\ UNCHANGED <<requests, subscription, supply>>

Next ==
  \/ Request \/ ChangePlan \/ Tick \/ Restart
  \/ \E i \in DOMAIN reqs :
       \/ Dispatch(i) \/ Mark(i) \/ FallbackToConversation(i) \/ ConversationFails(i)
       \/ Refer(i) \/ RequestDies(i)
  \/ \E r \in Readers : GetSubscription(r)
  \/ \E q \in reads : ReadSource(q) \/ ReadSucceeds(q) \/ ReadFails(q)
  \/ \E e \in DOMAIN hooks : Run(e) \/ OnCapApproaching(e) \/ MarkProcessed(e) \/ RunFails(e)

Spec == Init /\ [][Next]_vars
-----------------------------------------------------------------------------
Statuses == {"REQUESTED", "DISPATCHED", "FAILED"}
PlanRequest == [status : Statuses, conv : BOOLEAN, heard : BOOLEAN,
                pc : {"dispatch", "mark", "converse", "refer", "done"}]
Row == [there : BOOLEAN, v : Nat, expires : Nat]
SourceRead == [for : SUBSET Readers, v : Nat, prior : Row]
Reader == [waits : BOOLEAN, told : {"nothing", "fresh", "stale", "none"}, v : Nat, since : Nat]
CapEvent == [runs : Nat, pc : {"waiting", "running", "raised", "processed"}, alerts : Nat, audited : Nat]

TypeOK ==
  /\ reqs \in Seq(PlanRequest)
  /\ audited \in Seq(Seq(Statuses)) /\ Len(audited) = Len(reqs)
  /\ taken \cup posted \cup faulty \subseteq DOMAIN reqs
  /\ plan \in Nat /\ clock \in Nat /\ newest \in 0..plan
  /\ cache \in Row /\ cache.v <= plan
  /\ reads \subseteq SourceRead /\ \A q \in reads : q.v <= plan /\ q.prior.v <= plan
  /\ reader \in [Readers -> Reader] /\ \A r \in Readers : reader[r].v <= plan
  /\ hooks \in [DOMAIN hooks -> CapEvent]
  /\ supply \in Stock

\* A request that says DISPATCHED was accepted by the app; unless its answer or its call was
\* lost, one that has ended says what became of it, and the conversation it names has the
\* message; its last audit row is its status.  A subscription shown as current is no older
\* than any that was shown so before it was asked for.  Each processed cap event has raised an alert, audited, and no
\* more of them than it had runs (PlanChangeService, BillingService.getSubscription,
\* BillingMonitor.onCapApproaching).
PlansAreKnown ==
  /\ \A i \in DOMAIN reqs :
       /\ reqs[i].status = "DISPATCHED" => i \in taken
       /\ audited[i][Len(audited[i])] = reqs[i].status
       /\ reqs[i].pc = "done" /\ i \notin faulty =>
            /\ supply.admin => (i \in taken <=> reqs[i].status = "DISPATCHED") /\ reqs[i].status # "REQUESTED"
            /\ reqs[i].conv <=> i \in posted
  /\ \A r \in Readers : reader[r].told = "fresh" => reader[r].v >= reader[r].since
  /\ \A e \in DOMAIN hooks :
       /\ hooks[e].pc \in {"raised", "processed"} => hooks[e].alerts > 0
       /\ hooks[e].alerts <= hooks[e].runs /\ hooks[e].audited = hooks[e].alerts

\* One alert is raised for one event (BillingMonitor: "raise exactly one control-plane-owned
\* `BillingAlert`").
ExactlyOneAlert == \A e \in DOMAIN hooks : hooks[e].alerts <= 1
=============================================================================
