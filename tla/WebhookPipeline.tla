--------------------------- MODULE WebhookPipeline ---------------------------
(***************************************************************************)
(* The webhook pipeline: the HTTP route that takes a Shopify delivery, the *)
(* WebhookEvent table, the BullMQ queue "webhook-process", its workers,    *)
(* the worker's "failed" listener and the operator's replay.               *)
(*                                                                         *)
(* One step is one database statement (or one transaction whose reads are  *)
(* of immutable columns), one call of the queue, or one answer; whatever   *)
(* the code does between two awaits belongs to the step before.  Requests, *)
(* worker runs, pending listener writes and replays interleave freely.     *)
(*                                                                         *)
(* shopifyWebhookId is UNIQUE and rows are never deleted, so a row is      *)
(* named by its webhook id; jobId = row id, so a job is too.  BodyOf       *)
(* stands for what the content-hash lookup compares: appKey, topic, hash.  *)
(***************************************************************************)
EXTENDS Naturals, FiniteSets

CONSTANTS
  WebhookIds,   \* the X-Shopify-Webhook-Id values Shopify uses
  Bodies,       \* the (appKey, topic, contentHash) triples
  BodyOf,       \* the body Shopify sends under each id
  Requests,     \* the HTTP deliveries that reach the route, redeliveries included
  Workers,      \* the runs the worker processes can have in progress at once
  Replays,      \* the replays operators start
  MaxAttempts,  \* WEBHOOK_MAX_ATTEMPTS
  MaxStalled,   \* BullMQ's maxStalledCount
  FaultKinds,   \* which infrastructure faults may happen
  MaxFaults     \* how many of them

NoId == "no id"

ASSUME ConstantsAssumption ==
  /\ NoId \notin WebhookIds
  /\ BodyOf \in [WebhookIds -> Bodies]
  /\ IsFiniteSet(Requests) /\ IsFiniteSet(Replays) /\ Requests \cap Replays = {}
  /\ MaxAttempts \in Nat \ {0}
  /\ MaxStalled \in Nat
  /\ FaultKinds \subseteq {"ingest", "run", "late", "replay"}
  /\ MaxFaults \in Nat

VARIABLES
  \* the webhook_events table
  status, hmacValid, attempts,
  \* the queue
  job, attemptsMade, stalledCount,
  \* code in progress: the route, the worker, the operator
  req, run, rep,
  \* writes the "failed" listener started and nobody awaits
  lateFailed, lateDead, deadChecked,
  \* rows of the audit log, by action
  replayAudits, deadAudits,
  \* observation only: the deliveries and replays whose add() the queue accepted,
  \* how often the present job was taken, handler completions, faults so far
  submitted, taken, handled, faults

rowVars   == <<status, hmacValid, attempts>>
jobVars   == <<job, attemptsMade, stalledCount>>
lateVars  == <<lateFailed, lateDead, deadChecked>>
auditVars == <<replayAudits, deadAudits>>
obsVars   == <<submitted, taken, handled>>
vars == <<rowVars, jobVars, req, run, rep, lateVars, auditVars, obsVars, faults>>

Statuses  == {"absent", "RECEIVED", "PROCESSED", "FAILED", "DEAD_LETTER"}
JobStates == {"none", "waiting", "delayed", "active", "completed", "failed"}
Live      == {"waiting", "delayed", "active"}

Init ==
  /\ status = [w \in WebhookIds |-> "absent"]
  /\ hmacValid = [w \in WebhookIds |-> FALSE]
  /\ attempts = [w \in WebhookIds |-> 0]
  /\ job = [w \in WebhookIds |-> "none"]
  /\ attemptsMade = [w \in WebhookIds |-> 0]
  /\ stalledCount = [w \in WebhookIds |-> 0]
  /\ req = [r \in Requests |-> [pc |-> "idle", wid |-> NoId]]
  /\ run = [k \in Workers |-> [pc |-> "idle", wid |-> NoId, lock |-> "none"]]
  /\ rep = [p \in Replays |-> [pc |-> "idle", wid |-> NoId]]
  /\ lateFailed = [w \in WebhookIds |-> 0]
  /\ lateDead = [w \in WebhookIds |-> 0]
  /\ deadChecked = [w \in WebhookIds |-> 0]
  /\ replayAudits = [w \in WebhookIds |-> {}]
  /\ deadAudits = [w \in WebhookIds |-> 0]
  /\ submitted = [w \in WebhookIds |-> {}]
  /\ taken = [w \in WebhookIds |-> 0]
  /\ handled = [w \in WebhookIds |-> 0]
  /\ faults = 0

Fault(kind) ==
  /\ kind \in FaultKinds
  /\ faults < MaxFaults
  /\ faults' = faults + 1

-----------------------------------------------------------------------------
(* The queue.  add() is a no-op when a job with that id is still known,    *)
(* finished ones included: removeOnComplete and removeOnFail keep the last *)
(* few thousand.                                                           *)

Enqueue(by, w) ==
  IF job[w] = "none"
  THEN /\ job' = [job EXCEPT ![w] = "waiting"]
       /\ attemptsMade' = [attemptsMade EXCEPT ![w] = 0]
       /\ stalledCount' = [stalledCount EXCEPT ![w] = 0]
       /\ submitted' = [submitted EXCEPT ![w] = @ \cup {by}]
       /\ taken' = [taken EXCEPT ![w] = 0]
  ELSE UNCHANGED <<jobVars, submitted, taken>>

\* A finished job falls off the end of the kept ones.
Evict(w) ==
  /\ job[w] \in {"completed", "failed"}
  /\ job' = [job EXCEPT ![w] = "none"]
  /\ UNCHANGED <<rowVars, attemptsMade, stalledCount, req, run, rep, lateVars,
                 auditVars, obsVars, faults>>

\* Mutant: without the ceiling, the delay after a failure is out of reach.
BackoffUncapped(w) ==
  /\ job[w] = "delayed" /\ attemptsMade[w] = 0
  /\ job' = [job EXCEPT ![w] = "waiting"]
  /\ UNCHANGED <<rowVars, attemptsMade, stalledCount, req, run, rep, lateVars,
                 auditVars, obsVars, faults>>

\* The backoff delay of a failed attempt is over.
BackoffEnds(w) ==
  /\ job[w] = "delayed"
  /\ job' = [job EXCEPT ![w] = "waiting"]
  /\ UNCHANGED <<rowVars, attemptsMade, stalledCount, req, run, rep, lateVars,
                 auditVars, obsVars, faults>>

Held(w) == \E k \in Workers : run[k].wid = w /\ run[k].lock = "held"

\* A job that is active and not locked, because its worker died or could not
\* renew the lock, is found by the stalled check: back to waiting, or, past
\* maxStalledCount, failed - and then the "failed" listener runs, with an
\* attemptsMade that the stall did not raise.
Stalled(w) ==
  /\ job[w] = "active"
  /\ ~Held(w)
  /\ stalledCount' = [stalledCount EXCEPT ![w] = @ + 1]
  /\ IF stalledCount[w] < MaxStalled
     THEN /\ job' = [job EXCEPT ![w] = "waiting"]
          /\ UNCHANGED lateFailed
     ELSE /\ job' = [job EXCEPT ![w] = "failed"]
          /\ lateFailed' = [lateFailed EXCEPT ![w] = @ + 1]
  /\ UNCHANGED <<rowVars, attemptsMade, req, run, rep, lateDead, deadChecked,
                 auditVars, obsVars, faults>>

-----------------------------------------------------------------------------
(* The route.                                                              *)

Delivery(r, w, pc) ==
  /\ req[r].pc = "idle"
  /\ req' = [req EXCEPT ![r] = [pc |-> pc, wid |-> w]]

Answer(r, pc) == req' = [req EXCEPT ![r].pc = pc]

\* No webhook secret is bound to the app: 401, nothing recorded.
RejectUnknownApp(r, w) ==
  /\ Delivery(r, w, "refused")
  /\ UNCHANGED <<rowVars, jobVars, run, rep, lateVars, auditVars, obsVars, faults>>

\* The signature does not match the bound secret (a secret being rotated,
\* a wrong binding): 401 and a forensic row, unless the id already has one.
RecordInvalid(r, w) ==
  /\ Delivery(r, w, "refused")
  /\ IF status[w] = "absent"
     THEN /\ status' = [status EXCEPT ![w] = "FAILED"]
          /\ hmacValid' = [hmacValid EXCEPT ![w] = FALSE]
     ELSE UNCHANGED <<status, hmacValid>>
  /\ UNCHANGED <<attempts, jobVars, run, rep, lateVars, auditVars, obsVars, faults>>

\* The content-hash lookup.  It looks at every row, forensic ones included.
Duplicate(w) == \E v \in WebhookIds : status[v] # "absent" /\ BodyOf[v] = BodyOf[w]

IngestCheck(r, w) ==
  /\ Delivery(r, w, IF Duplicate(w) THEN "acked" ELSE "checked")
  /\ UNCHANGED <<rowVars, jobVars, run, rep, lateVars, auditVars, obsVars, faults>>

\* Mutant: an upsert instead of an insert, so the slower delivery goes on to enqueue.
IngestUpsert(r) ==
  LET w == req[r].wid IN
  /\ req[r].pc = "checked"
  /\ status' = [status EXCEPT ![w] = "RECEIVED"]
  /\ hmacValid' = [hmacValid EXCEPT ![w] = TRUE]
  /\ Answer(r, "created")
  /\ UNCHANGED <<attempts, jobVars, run, rep, lateVars, auditVars, obsVars, faults>>

\* Insert the row; a row with this id (P2002) means another delivery was
\* faster, and the answer is 200.
IngestCreate(r) ==
  LET w == req[r].wid IN
  /\ req[r].pc = "checked"
  /\ IF status[w] = "absent"
     THEN /\ status' = [status EXCEPT ![w] = "RECEIVED"]
          /\ hmacValid' = [hmacValid EXCEPT ![w] = TRUE]
          /\ Answer(r, "created")
     ELSE /\ Answer(r, "acked")
          /\ UNCHANGED <<status, hmacValid>>
  /\ UNCHANGED <<attempts, jobVars, run, rep, lateVars, auditVars, obsVars, faults>>

\* Mutant: the answer is sent and the enqueue is forgotten.
IngestForgetEnqueue(r) ==
  /\ req[r].pc = "created"
  /\ Answer(r, "acked")
  /\ UNCHANGED <<rowVars, jobVars, run, rep, lateVars, auditVars, obsVars, faults>>

IngestEnqueue(r) ==
  /\ req[r].pc = "created"
  /\ Enqueue(r, req[r].wid)
  /\ Answer(r, "acked")
  /\ UNCHANGED <<rowVars, run, rep, lateVars, auditVars, handled, faults>>

\* The insert or the enqueue throws, or the process dies: no 200.
IngestFault(r) ==
  /\ req[r].pc \in {"checked", "created"}
  /\ Fault("ingest")
  /\ Answer(r, "refused")
  /\ UNCHANGED <<rowVars, jobVars, run, rep, lateVars, auditVars, obsVars>>

-----------------------------------------------------------------------------
(* The worker.                                                             *)

Step(k, pc) == run' = [run EXCEPT ![k].pc = pc]
Idle(k)     == run' = [run EXCEPT ![k] = [pc |-> "idle", wid |-> NoId, lock |-> "none"]]

Take(k, w) ==
  /\ run[k].pc = "idle"
  /\ job[w] = "waiting"
  /\ job' = [job EXCEPT ![w] = "active"]
  /\ run' = [run EXCEPT ![k] = [pc |-> "taken", wid |-> w, lock |-> "held"]]
  /\ taken' = [taken EXCEPT ![w] = @ + 1]
  /\ UNCHANGED <<rowVars, attemptsMade, stalledCount, req, rep, lateVars, auditVars,
                 submitted, handled, faults>>

\* Load the event and count the attempt.  Neither status nor hmacValid is
\* looked at, so a row that is already PROCESSED is run again.
CountAttempt(k) ==
  /\ run[k].pc = "taken"
  /\ attempts' = [attempts EXCEPT ![run[k].wid] = @ + 1]
  /\ Step(k, "counted")
  /\ UNCHANGED <<status, hmacValid, jobVars, req, rep, lateVars, auditVars,
                 obsVars, faults>>

\* The topic handler commits its effect.
Handle(k) ==
  /\ run[k].pc = "counted"
  /\ handled' = [handled EXCEPT ![run[k].wid] = @ + 1]
  /\ Step(k, "handled")
  /\ UNCHANGED <<rowVars, jobVars, req, rep, lateVars, auditVars, submitted, taken, faults>>

\* Mutant: PROCESSED is written before the handler has run.
MarkProcessedEarly(k) ==
  /\ run[k].pc \in {"counted", "handled"}
  /\ status' = [status EXCEPT ![run[k].wid] = "PROCESSED"]
  /\ Step(k, "done")
  /\ UNCHANGED <<hmacValid, attempts, jobVars, req, rep, lateVars, auditVars,
                 obsVars, faults>>

MarkProcessed(k) ==
  /\ run[k].pc = "handled"
  /\ status' = [status EXCEPT ![run[k].wid] = "PROCESSED"]
  /\ Step(k, "done")
  /\ UNCHANGED <<hmacValid, attempts, jobVars, req, rep, lateVars, auditVars,
                 obsVars, faults>>

\* A run that lost its lock cannot finish the job any more.
Complete(k) ==
  /\ run[k].pc = "done"
  /\ job' = IF run[k].lock = "held" THEN [job EXCEPT ![run[k].wid] = "completed"] ELSE job
  /\ Idle(k)
  /\ UNCHANGED <<rowVars, attemptsMade, stalledCount, req, rep, lateVars, auditVars,
                 obsVars, faults>>

\* Mutant: off by one.
ExhaustedLate(w) == attemptsMade[w] >= MaxAttempts

\* attemptsMade, raised by this failure, has reached the attempts of the job.
Exhausted(w) == attemptsMade[w] + 1 >= MaxAttempts

\* The run throws: before its effect, after it (the handler's later steps),
\* or in one of its two row updates.  The queue decides on a retry, then the
\* listener starts a write that nobody awaits.  The failure of a run that lost
\* its lock is not recorded and reaches no listener.
RunFails(k) ==
  LET w == run[k].wid IN
  /\ run[k].pc \in {"taken", "counted", "handled"}
  /\ \/ /\ run[k].lock # "held"
        /\ UNCHANGED <<job, attemptsMade, lateFailed, lateDead>>
     \/ /\ run[k].lock = "held" /\ ~Exhausted(w)
        /\ attemptsMade' = [attemptsMade EXCEPT ![w] = @ + 1]
        /\ job' = [job EXCEPT ![w] = "delayed"]
        /\ lateFailed' = [lateFailed EXCEPT ![w] = @ + 1]
        /\ UNCHANGED lateDead
     \/ /\ run[k].lock = "held" /\ Exhausted(w)
        /\ attemptsMade' = [attemptsMade EXCEPT ![w] = @ + 1]
        /\ job' = [job EXCEPT ![w] = "failed"]
        /\ lateDead' = [lateDead EXCEPT ![w] = @ + 1]
        /\ UNCHANGED lateFailed
  /\ Idle(k)
  /\ UNCHANGED <<rowVars, stalledCount, req, rep, deadChecked, auditVars,
                 obsVars, faults>>

\* The worker is blocked or cut off from Redis for too long: the lock of its job
\* expires, and the run goes on without it.
LoseLock(k) ==
  /\ run[k].lock = "held"
  /\ Fault("run")
  /\ run' = [run EXCEPT ![k].lock = "lost"]
  /\ UNCHANGED <<rowVars, jobVars, req, rep, lateVars, auditVars, obsVars>>

\* The process running the job dies; the job stays active until its lock expires.
RunCrash(k) ==
  /\ run[k].pc # "idle"
  /\ Fault("run")
  /\ Idle(k)
  /\ UNCHANGED <<rowVars, jobVars, req, rep, lateVars, auditVars, obsVars>>

-----------------------------------------------------------------------------
(* The listener's writes, in whatever order they reach the database.       *)

\* Mutant: the transient mark also undoes the attempt count of the row.
MarkFailedUncounts(w) ==
  /\ lateFailed[w] > 0
  /\ lateFailed' = [lateFailed EXCEPT ![w] = @ - 1]
  /\ status' = [status EXCEPT ![w] = "FAILED"]
  /\ attempts' = [attempts EXCEPT ![w] = @ - 1]
  /\ UNCHANGED <<hmacValid, jobVars, req, run, rep, lateDead, deadChecked,
                 auditVars, obsVars, faults>>

MarkFailedTransient(w) ==
  /\ lateFailed[w] > 0
  /\ lateFailed' = [lateFailed EXCEPT ![w] = @ - 1]
  /\ status' = [status EXCEPT ![w] = "FAILED"]
  /\ UNCHANGED <<hmacValid, attempts, jobVars, req, run, rep, lateDead, deadChecked,
                 auditVars, obsVars, faults>>

\* deadLetter's transaction: read and return early on DEAD_LETTER ...
DeadLetterRead(w) ==
  /\ lateDead[w] > 0
  /\ lateDead' = [lateDead EXCEPT ![w] = @ - 1]
  /\ deadChecked' = [deadChecked EXCEPT ![w] = IF status[w] = "DEAD_LETTER" THEN @ ELSE @ + 1]
  /\ UNCHANGED <<rowVars, jobVars, req, run, rep, lateFailed, auditVars,
                 obsVars, faults>>

\* ... then update by id and append the audit row (READ COMMITTED: whatever
\* was committed since the read is overwritten).
DeadLetterCommit(w) ==
  /\ deadChecked[w] > 0
  /\ deadChecked' = [deadChecked EXCEPT ![w] = @ - 1]
  /\ status' = [status EXCEPT ![w] = "DEAD_LETTER"]
  /\ deadAudits' = [deadAudits EXCEPT ![w] = @ + 1]
  /\ UNCHANGED <<hmacValid, attempts, jobVars, req, run, rep, lateFailed, lateDead,
                 replayAudits, obsVars, faults>>

\* A pending write fails (it is only reported) or dies with its process.
LateWriteLost(w) ==
  /\ Fault("late")
  /\ \/ /\ lateFailed[w] > 0
        /\ lateFailed' = [lateFailed EXCEPT ![w] = @ - 1]
        /\ UNCHANGED <<lateDead, deadChecked>>
     \/ /\ lateDead[w] > 0
        /\ lateDead' = [lateDead EXCEPT ![w] = @ - 1]
        /\ UNCHANGED <<lateFailed, deadChecked>>
     \/ /\ deadChecked[w] > 0
        /\ deadChecked' = [deadChecked EXCEPT ![w] = @ - 1]
        /\ UNCHANGED <<lateFailed, lateDead>>
  /\ UNCHANGED <<rowVars, jobVars, req, run, rep, auditVars, obsVars>>

-----------------------------------------------------------------------------
(* The operator's replay.                                                  *)

RepStep(p, pc) == rep' = [rep EXCEPT ![p].pc = pc]

\* The failed-delivery list shows the row; the operator may act on it later.
ListFailed(p, w) ==
  /\ rep[p].pc = "idle"
  /\ status[w] \in {"FAILED", "DEAD_LETTER"}
  /\ rep' = [rep EXCEPT ![p] = [pc |-> "listed", wid |-> w]]
  /\ UNCHANGED <<rowVars, jobVars, req, run, lateVars, auditVars, obsVars, faults>>

\* One transaction, whatever the status has become: RECEIVED and its audit row.
ReplayCommit(p) ==
  LET w == rep[p].wid IN
  /\ rep[p].pc = "listed"
  /\ status' = [status EXCEPT ![w] = "RECEIVED"]
  /\ replayAudits' = [replayAudits EXCEPT ![w] = @ \cup {p}]
  /\ RepStep(p, "committed")
  /\ UNCHANGED <<hmacValid, attempts, jobVars, req, run, lateVars, deadAudits,
                 obsVars, faults>>

\* Remove the lingering job.  A job some worker has locked cannot be removed:
\* the call throws and the replay ends there.  The lock of a dead worker's job
\* may or may not have expired.
ReplayRemove(p) ==
  LET w == rep[p].wid IN
  /\ rep[p].pc = "committed"
  /\ \/ /\ job[w] = "active"
        /\ RepStep(p, "failed")
        /\ UNCHANGED job
     \/ /\ ~Held(w)
        /\ job' = [job EXCEPT ![w] = "none"]
        /\ RepStep(p, "removed")
  /\ UNCHANGED <<rowVars, attemptsMade, stalledCount, req, run, lateVars, auditVars,
                 obsVars, faults>>

ReplayEnqueue(p) ==
  /\ rep[p].pc = "removed"
  /\ Enqueue(p, rep[p].wid)
  /\ RepStep(p, "done")
  /\ UNCHANGED <<rowVars, req, run, lateVars, auditVars, handled, faults>>

\* Redis fails or the process dies after the transaction committed.
ReplayFault(p) ==
  /\ rep[p].pc \in {"committed", "removed"}
  /\ Fault("replay")
  /\ RepStep(p, "failed")
  /\ UNCHANGED <<rowVars, jobVars, req, run, lateVars, auditVars, obsVars>>

-----------------------------------------------------------------------------
RouteNext ==
  \E r \in Requests :
    \/ \E w \in WebhookIds : RejectUnknownApp(r, w) \/ RecordInvalid(r, w) \/ IngestCheck(r, w)
    \/ IngestCreate(r) \/ IngestEnqueue(r) \/ IngestFault(r)

WorkerNext ==
  \E k \in Workers :
    \/ \E w \in WebhookIds : Take(k, w)
    \/ CountAttempt(k) \/ Handle(k) \/ MarkProcessed(k) \/ Complete(k)
    \/ RunFails(k) \/ RunCrash(k) \/ LoseLock(k)

QueueNext == \E w \in WebhookIds : Evict(w) \/ BackoffEnds(w) \/ Stalled(w)

LateNext ==
  \E w \in WebhookIds :
    MarkFailedTransient(w) \/ DeadLetterRead(w) \/ DeadLetterCommit(w) \/ LateWriteLost(w)

ReplayNext ==
  \E p \in Replays :
    \/ \E w \in WebhookIds : ListFailed(p, w)
    \/ ReplayCommit(p) \/ ReplayRemove(p) \/ ReplayEnqueue(p) \/ ReplayFault(p)

Next == RouteNext \/ WorkerNext \/ QueueNext \/ LateNext \/ ReplayNext

Spec == Init /\ [][Next]_vars

\* What the runtime keeps doing by itself: a handler that started goes on, the
\* queue hands out waiting jobs, expires backoffs and locks, promises settle.
\* Deliveries, replays, evictions and faults are never owed.
Fairness ==
  /\ \A r \in Requests : WF_vars(IngestCreate(r)) /\ WF_vars(IngestEnqueue(r))
  /\ \A w \in WebhookIds :
       /\ WF_vars(\E k \in Workers : Take(k, w))
       /\ WF_vars(BackoffEnds(w)) /\ WF_vars(Stalled(w))
       /\ WF_vars(MarkFailedTransient(w))
       /\ WF_vars(DeadLetterRead(w)) /\ WF_vars(DeadLetterCommit(w))
  /\ \A k \in Workers :
       WF_vars(CountAttempt(k) \/ Handle(k) \/ MarkProcessed(k) \/ Complete(k) \/ RunFails(k))

FairSpec == Spec /\ Fairness
-----------------------------------------------------------------------------
(* Properties.                                                             *)

TypeOK ==
  /\ status \in [WebhookIds -> Statuses]
  /\ hmacValid \in [WebhookIds -> BOOLEAN]
  /\ attempts \in [WebhookIds -> Nat]
  /\ job \in [WebhookIds -> JobStates]
  /\ attemptsMade \in [WebhookIds -> Nat]
  /\ stalledCount \in [WebhookIds -> Nat]
  /\ req \in [Requests -> [pc : {"idle", "checked", "created", "acked", "refused"},
                           wid : WebhookIds \cup {NoId}]]
  /\ run \in [Workers -> [pc : {"idle", "taken", "counted", "handled", "done"},
                          wid : WebhookIds \cup {NoId}, lock : {"none", "held", "lost"}]]
  /\ rep \in [Replays -> [pc : {"idle", "listed", "committed", "removed", "done", "failed"},
                          wid : WebhookIds \cup {NoId}]]
  /\ lateFailed \in [WebhookIds -> Nat]
  /\ lateDead \in [WebhookIds -> Nat]
  /\ deadChecked \in [WebhookIds -> Nat]
  /\ replayAudits \in [WebhookIds -> SUBSET Replays]
  /\ deadAudits \in [WebhookIds -> Nat]
  /\ submitted \in [WebhookIds -> SUBSET (Requests \cup Replays)]
  /\ taken \in [WebhookIds -> Nat]
  /\ handled \in [WebhookIds -> Nat]
  /\ faults \in Nat

\* Whatever deliveries of it race, an event is enqueued by at most one of them, and
\* only if its signature was verified; every other job for it comes from a replay
\* whose audit row is committed (ingest's P2002 and content-hash guards, replay's
\* transaction before reenqueue).
EnqueuedOnce ==
  \A w \in WebhookIds :
    /\ \A r1, r2 \in submitted[w] \cap Requests : r1 = r2
    /\ submitted[w] \cap Requests # {} => hmacValid[w]
    /\ submitted[w] \cap Replays \subseteq replayAudits[w]

\* The ceiling on retries: one submission is run at most MaxAttempts times, plus one
\* run for each stall the queue forgives, however crashes, failures and replays interleave.
AttemptCeiling == \A w \in WebhookIds : taken[w] <= MaxAttempts + MaxStalled

\* A submission is dead-lettered at most once and never while its job can still run:
\* dead-letter audit rows, those on their way, and a live job never outnumber the
\* submissions, so without a replay a dead-lettered event has no job left to run.
DeadLetteredOncePerSubmission ==
  \A w \in WebhookIds :
    deadAudits[w] + lateDead[w] + deadChecked[w] + (IF job[w] \in Live THEN 1 ELSE 0)
      <= Cardinality(submitted[w])

\* Once in, once out: a verified event is enqueued by one delivery, and each submission of it
\* is dead-lettered at most once (ingest, replay, deadLetter).
SubmittedOnce == EnqueuedOnce /\ DeadLetteredOncePerSubmission

\* The worker writes PROCESSED only for an event whose handler has committed, also
\* when the row was reset or overwritten in between.
ProcessedWasHandled ==
  \A w \in WebhookIds : status[w] = "PROCESSED" => handled[w] > 0

Promise ==
  INSTANCE WebhookPromise
    WITH Events <- WebhookIds, Deliveries <- Requests, Ceiling <- MaxAttempts + MaxStalled,
         shown <- status, verified <- hmacValid, asked <- replayAudits,
         takenOn <- submitted, buried <- deadAudits

\* Whatever requests, runs, crashes, late writes and replays interleave: an event is recorded
\* once, taken on by one verified delivery or by a replay on the record, handled no more than
\* MaxAttempts + MaxStalled times for each, also by runs that lost their lock, dead-lettered
\* once at most for each, shown as PROCESSED only when it was handled and as FAILED only
\* when it was refused or taken on (ingest, processEvent, the "failed" listener, replay).
KeepsPromise == Promise!Spec

Acked(w) == \E r \in Requests : req[r].pc = "acked" /\ req[r].wid = w

\* A taken-on event has come to an end: its handler has committed, it is dead-lettered, or the
\* queue has given its job up for stalling too often - which dead-letters nothing, since no
\* attempt was counted - and the failed-delivery list shows it.
Ended(v) ==
  \/ handled[v] > 0
  \/ deadAudits[v] > 0
  \/ stalledCount[v] > MaxStalled /\ status[v] = "FAILED"

\* Of the rows the content-hash lookup takes for w a verified one has ended; or there is none,
\* and w is shadowed by the row of a delivery that was refused.
Settled(w) ==
  LET rows == {v \in WebhookIds : BodyOf[v] = BodyOf[w] /\ status[v] # "absent"} IN
  \/ \E v \in rows : hmacValid[v] /\ Ended(v)
  \/ rows # {} /\ \A v \in rows : ~hmacValid[v]

\* An event answered with 200 is eventually handled, dead-lettered or, when its runs crash or
\* lose their locks more often than the queue forgives, shown as failed, unless a refused
\* delivery shadows it (ingest, the worker, its "failed" listener).  This is without faults of
\* the route, whose lost add() nothing repairs, and of the listener's writes.
AckedIsSettled == \A w \in WebhookIds : Acked(w) ~> Settled(w)

\* No job stays waiting, delayed or active for ever: attempts and forgiven stalls run
\* out, and the lock of a dead worker's job expires.
JobsFinish == \A w \in WebhookIds : job[w] \in Live ~> job[w] \notin Live

\* "enqueues exactly one job" (ingest): a verified delivery answered with 200 has a job,
\* or one of the deliveries it was taken for is about to enqueue it.
AckedIsEnqueued ==
  \A w \in WebhookIds :
    Acked(w) => \E v \in WebhookIds :
      /\ BodyOf[v] = BodyOf[w]
      /\ \/ submitted[v] # {}
         \/ ~hmacValid[v] /\ status[v] # "absent"
         \/ \E r \in Requests : req[r] = [pc |-> "created", wid |-> v]

\* "Transient failure marking (still retriable)": the status FAILED of a verified event
\* means that its job is going to be run again, or that the listener or a replay
\* is about to change the status.
FailedIsRetriable ==
  \A w \in WebhookIds :
    status[w] = "FAILED" /\ hmacValid[w] =>
      \/ job[w] \in Live
      \/ lateDead[w] + deadChecked[w] > 0
      \/ \E p \in Replays : rep[p].wid = w /\ rep[p].pc \in {"committed", "removed"}

=============================================================================
