------------------------------ MODULE Compliance ------------------------------
(***************************************************************************)
(* Data-subject requests: the runs of the webhook handler, which record a  *)
(* request and dispatch it to the app, the operators, who complete it, the *)
(* purge of a redacted shop after that, and the sweep for the deadlines.   *)
(*                                                                         *)
(* A run belongs to a job that is retried, and that runs twice at once     *)
(* when its lock has expired (WebhookPipeline): a webhook event has any    *)
(* number of runs, in any order.  A run records one request at most, so a  *)
(* request is named by its run.  The updates are by id and no guard looks  *)
(* at the status.  Every transaction appends its audit row, left out here. *)
(***************************************************************************)
EXTENDS Naturals, FiniteSets

CONSTANTS
  Runs,         \* the runs of the handler
  Events,       \* the compliance webhooks
  EventOf,      \* whose run it is
  Redacts,      \* the webhooks with topic shop/redact
  DueAt,        \* receivedAt + SLA_DAYS of each webhook
  Configured,   \* isAppAdminApiConfigured()
  Threshold,    \* DEFAULT_BREACH_THRESHOLD_DAYS
  Take,         \* how many requests listBreaching reads
  Calls,        \* the operators' calls that can be in progress at once
  None,
  Horizon       \* bound: time stops here

Times == 0 .. Horizon

ASSUME ConstantsAssumption ==
  /\ EventOf \in [Runs -> Events] /\ IsFiniteSet(Runs)
  /\ Redacts \subseteq Events /\ None \notin Events
  /\ DueAt \in [Events -> Nat]
  /\ Configured \in BOOLEAN
  /\ Threshold \in Nat /\ Take \in Nat \ {0} /\ Horizon \in Nat

VARIABLES
  now,
  status,       \* of the compliance_requests rows; dispatchedAt and completedAt only inform
  run,          \* where each handler run is
  accepted,     \* the requests the app has taken on
  call,         \* the operators' calls: the shop's webhook a completion has still to purge for
  purged,       \* the webhooks whose shop's records were purged
  unpurged,     \* observation only: those a purge failed for
  surfaced,     \* what the sweep has last alerted on
  sweepDue      \* a job of the sweep is in the queue

vars == <<now, status, run, accepted, call, purged, unpurged, surfaced, sweepDue>>

ComplianceStatus == {"RECEIVED", "IN_PROGRESS", "COMPLETED", "FAILED"}
Exists(r) == status[r] # "absent"

Init ==
  /\ now = 0
  /\ status = [r \in Runs |-> "absent"]
  /\ run = [r \in Runs |-> "ready"]
  /\ accepted = {}
  /\ call = [k \in Calls |-> None]
  /\ purged = {} /\ unpurged = {}
  /\ surfaced = {} /\ sweepDue = FALSE

Tick ==
  /\ now < Horizon
  /\ now' = now + 1
  /\ UNCHANGED <<status, run, accepted, call, purged, unpurged, surfaced, sweepDue>>

-----------------------------------------------------------------------------
(* The handler.                                                            *)

Goto(r, pc) == run' = [run EXCEPT ![r] = pc]

Record(r) ==
  /\ run[r] = "ready"
  /\ status' = [status EXCEPT ![r] = "RECEIVED"]
  /\ Goto(r, IF Configured THEN "recorded" ELSE "handled")
  /\ UNCHANGED <<now, accepted, call, purged, unpurged, surfaced, sweepDue>>

\* Mutant: an answer is an acceptance.
AnyAnswer(r) ==
  /\ run[r] = "recorded"
  /\ accepted' \in {accepted, accepted \cup {r}}
  /\ Goto(r, "accepted")
  /\ UNCHANGED <<now, status, call, purged, unpurged, surfaced, sweepDue>>

\* The POST and its answer: the app has taken the request on; or it has refused, or the
\* connection failed, before or after the app took it on.
Dispatch(r) ==
  /\ run[r] = "recorded"
  /\ \/ accepted' = accepted \cup {r} /\ Goto(r, "accepted")
     \/ accepted' \in {accepted, accepted \cup {r}} /\ Goto(r, "refused")
  /\ UNCHANGED <<now, status, call, purged, unpurged, surfaced, sweepDue>>

MarkDispatched(r) ==
  /\ run[r] = "accepted"
  /\ status' = [status EXCEPT ![r] = "IN_PROGRESS"]
  /\ Goto(r, "handled")
  /\ UNCHANGED <<now, accepted, call, purged, unpurged, surfaced, sweepDue>>

MarkFailed(r) ==
  /\ run[r] = "refused"
  /\ status' = [status EXCEPT ![r] = "FAILED"]
  /\ Goto(r, "handled")
  /\ UNCHANGED <<now, accepted, call, purged, unpurged, surfaced, sweepDue>>

\* A transaction fails or the process dies, with the POST on its way perhaps.  The job may
\* be retried: another run.  (A run that fails before it has recorded anything is none.)
RunFails(r) ==
  /\ run[r] \in {"recorded", "accepted", "refused"}
  /\ accepted' \in {accepted, accepted \cup {q \in {r} : run[q] = "recorded"}}
  /\ Goto(r, "failed")
  /\ UNCHANGED <<now, status, call, purged, unpurged, surfaced, sweepDue>>

-----------------------------------------------------------------------------
(* Operators.                                                              *)

\* Mutant: only a request the app has taken on is purged for.
ToPurgeDispatched(r) ==
  IF EventOf[r] \in Redacts /\ status[r] = "IN_PROGRESS" THEN EventOf[r] ELSE None

\* Mutant: every completed request purges its shop.
ToPurgeAny(r) == EventOf[r]

\* What a completed request leaves to purge.
ToPurge(r) == IF EventOf[r] \in Redacts THEN EventOf[r] ELSE None

\* Any request there is, whatever its status: the confirmation is the shop's name.
MarkCompleted(k, r) ==
  /\ call[k] = None
  /\ Exists(r)
  /\ status' = [status EXCEPT ![r] = "COMPLETED"]
  /\ call' = [call EXCEPT ![k] = ToPurge(r)]
  /\ UNCHANGED <<now, run, accepted, purged, unpurged, surfaced, sweepDue>>

\* purgeForRedactedShop, when CHURN_RETENTION_PURGE_ENABLED: one transaction.
Purge(k) ==
  /\ call[k] # None
  /\ purged' = purged \cup {call[k]}
  /\ call' = [call EXCEPT ![k] = None]
  /\ UNCHANGED <<now, status, run, accepted, unpurged, surfaced, sweepDue>>

\* The purge fails, which is logged and forgotten, or the process dies before it.
PurgeFails(k) ==
  /\ call[k] # None
  /\ unpurged' = unpurged \cup {call[k]}
  /\ call' = [call EXCEPT ![k] = None]
  /\ UNCHANGED <<now, status, run, accepted, purged, surfaced, sweepDue>>

-----------------------------------------------------------------------------
(* The sweep.                                                              *)

Due(r) == DueAt[EventOf[r]]
Open(r) == status[r] \in {"RECEIVED", "IN_PROGRESS"}
Breaching == {r \in Runs : Open(r) /\ Due(r) <= now + Threshold}

\* Mutant: the rows in any order.
ListAny ==
  {list \in SUBSET Breaching :
     /\ Cardinality(list) <= Take
     /\ list = Breaching \/ Cardinality(list) = Take}

\* What listBreaching may return: the requests that are due first.
ListBreaching ==
  {list \in SUBSET Breaching :
     /\ Cardinality(list) <= Take
     /\ list = Breaching \/ Cardinality(list) = Take
     /\ \A r \in list, q \in Breaching \ list : Due(r) <= Due(q)}

\* The repeatable job comes round.
SweepComesRound ==
  /\ ~sweepDue
  /\ sweepDue' = TRUE
  /\ UNCHANGED <<now, status, run, accepted, call, purged, unpurged, surfaced>>

\* A sweep that fails is still due: the job is retried, or comes round again.
Sweep ==
  /\ sweepDue
  /\ sweepDue' = FALSE
  /\ surfaced' \in ListBreaching
  /\ UNCHANGED <<now, status, run, accepted, call, purged, unpurged>>

Next ==
  \/ Tick
  \/ \E r \in Runs :
       \/ Record(r) \/ Dispatch(r)
       \/ MarkDispatched(r) \/ MarkFailed(r) \/ RunFails(r)
       \/ \E k \in Calls : MarkCompleted(k, r)
  \/ \E k \in Calls : Purge(k) \/ PurgeFails(k)
  \/ SweepComesRound \/ Sweep

Spec == Init /\ [][Next]_vars

\* The sweep is a repeatable job with retries.  Nothing else is owed.
FairSpec == Spec /\ WF_vars(SweepComesRound) /\ WF_vars(Sweep)

-----------------------------------------------------------------------------
(* Properties.                                                             *)

Stages == {"ready", "recorded", "accepted", "refused", "handled", "failed"}

\* Type correctness; the runs that are past record have their row, and a purge is under
\* way only for a shop/redact (record, markCompleted).
TypeOK ==
  /\ now \in Times
  /\ status \in [Runs -> ComplianceStatus \cup {"absent"}]
  /\ run \in [Runs -> Stages]
  /\ \A r \in Runs : Exists(r) <=> run[r] # "ready"
  /\ accepted \subseteq Runs
  /\ call \in [Calls -> Redacts \cup {None}]
  /\ purged \subseteq Redacts /\ unpurged \subseteq Redacts
  /\ surfaced \subseteq Runs /\ sweepDue \in BOOLEAN

\* The run that recorded the request has still to mark it.
InFlight(r) == run[r] \in {"recorded", "accepted", "refused"}

\* What a request says of its dispatch is so, whoever else writes to it: in progress, the
\* app has taken it on; failed, its run has had an answer; and RECEIVED, with automatic
\* dispatch, only while its run is at it or after a failure of that run (autoDispatch).
StatusIsTrue ==
  \A r \in Runs :
    /\ status[r] = "IN_PROGRESS" => r \in accepted
    /\ status[r] \in {"IN_PROGRESS", "FAILED"} => run[r] = "handled"
    /\ status[r] = "RECEIVED" /\ Configured => InFlight(r) \/ run[r] = "failed"

\* A webhook that counts as handled has a request to show for it and, with automatic
\* dispatch, one that was completed or dispatched, or whose dispatch failed (handleWebhook
\* throws on everything else).
HandledIsTracked ==
  \A r \in Runs : run[r] = "handled" =>
    \E q \in Runs :
      /\ EventOf[q] = EventOf[r] /\ Exists(q)
      /\ Configured => status[q] # "RECEIVED"

\* What the requests say is so, of their own dispatch and of the webhooks that were handled
\* (autoDispatch, handleWebhook).
RequestsAreTrue == StatusIsTrue /\ HandledIsTracked

\* A completed request whose own run is over stays completed, whatever retries, other
\* runs, other operators and the sweep do (markDispatched and markFailed update by id).
CompletedIsFinal ==
  [][\A r \in Runs :
       status[r] = "COMPLETED" /\ ~InFlight(r) => status'[r] = "COMPLETED"]_vars

\* A shop/redact that is completed has been purged for, is being purged for, or its
\* purge has failed: no second operator and no other run lets it slip (markCompleted).
CompletedIsPurged ==
  \A r \in Runs :
    status[r] = "COMPLETED" /\ EventOf[r] \in Redacts
      => EventOf[r] \in purged \cup unpurged \cup {call[k] : k \in Calls}

\* Due soon, and among the Take that are due first.
Urgent(r) ==
  /\ r \in Breaching
  /\ Cardinality({q \in Breaching \ {r} : Due(q) <= Due(r)}) < Take

\* The sweep alerts on what is most urgent, however many requests are open; a FAILED
\* request is not among them (listBreaching).
UrgentIsSurfaced == \A r \in Runs : Urgent(r) ~> r \in surfaced \/ ~Urgent(r)
=============================================================================
