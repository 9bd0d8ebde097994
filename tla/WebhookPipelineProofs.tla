------------------------ MODULE WebhookPipelineProofs ------------------------
(***************************************************************************)
(* The safety invariants of WebhookPipeline hold for any number of events, *)
(* deliveries, workers, replays and faults, and it implements              *)
(* WebhookPromise.                                                         *)
(***************************************************************************)
EXTENDS WebhookPipeline, FiniteSetTheorems, TLAPS

USE DEF Statuses, JobStates

-----------------------------------------------------------------------------
(* Types, and that whoever is past its first step names an event.          *)

Named ==
  /\ \A r \in Requests : req[r].pc # "idle" => req[r].wid \in WebhookIds
  /\ \A k \in Workers : run[k].pc # "idle" => run[k].wid \in WebhookIds
  /\ \A p \in Replays : rep[p].pc # "idle" => rep[p].wid \in WebhookIds

\* What add() leaves of the queue is well formed.
LEMMA EnqueueTypes ==
  ASSUME TypeOK, NEW by \in Requests \cup Replays, NEW w \in WebhookIds, Enqueue(by, w)
  PROVE  /\ job' \in [WebhookIds -> JobStates]
         /\ attemptsMade' \in [WebhookIds -> Nat]
         /\ stalledCount' \in [WebhookIds -> Nat]
         /\ submitted' \in [WebhookIds -> SUBSET (Requests \cup Replays)]
         /\ taken' \in [WebhookIds -> Nat]
<1>1. CASE job[w] = "none"
  <2>1. /\ job' = [job EXCEPT ![w] = "waiting"]
        /\ attemptsMade' = [attemptsMade EXCEPT ![w] = 0]
        /\ stalledCount' = [stalledCount EXCEPT ![w] = 0]
        /\ submitted' = [submitted EXCEPT ![w] = @ \cup {by}]
        /\ taken' = [taken EXCEPT ![w] = 0]
    BY <1>1 DEF Enqueue
  <2>2. submitted' \in [WebhookIds -> SUBSET (Requests \cup Replays)]
    BY <2>1 DEF TypeOK
  <2>3. QED BY <2>1, <2>2 DEF TypeOK
<1>2. CASE job[w] # "none"
  BY <1>2 DEF Enqueue, TypeOK, jobVars
<1>3. QED BY <1>1, <1>2

\* An answer keeps the requests well formed.
LEMMA AnswerTypes ==
  ASSUME TypeOK, Named, NEW r \in Requests, req[r].pc # "idle",
         NEW pc \in {"created", "acked", "refused"}, Answer(r, pc)
  PROVE  /\ req' \in [Requests -> [pc : {"idle", "checked", "created", "acked", "refused"},
                                  wid : WebhookIds \cup {NoId}]]
         /\ \A q \in Requests : req'[q].pc # "idle" => req'[q].wid \in WebhookIds
<1>1. req' = [req EXCEPT ![r].pc = pc]
  BY DEF Answer
<1>2. req \in [Requests -> [pc : {"idle", "checked", "created", "acked", "refused"},
                           wid : WebhookIds \cup {NoId}]]
  BY DEF TypeOK
<1>3. QED BY <1>1, <1>2 DEF Named

\* The states of the route's requests are well formed and name an event.
LEMMA RouteTypes ==
  ASSUME TypeOK, Named, RouteNext
  PROVE  TypeOK' /\ Named'
<1> USE DEF rowVars, jobVars, lateVars, auditVars, obsVars
<1>0. PICK r \in Requests :
        \/ \E w \in WebhookIds : RejectUnknownApp(r, w) \/ RecordInvalid(r, w) \/ IngestCheck(r, w)
        \/ IngestCreate(r) \/ IngestEnqueue(r) \/ IngestFault(r)
  BY DEF RouteNext
<1>1. ASSUME NEW w \in WebhookIds, RejectUnknownApp(r, w)  PROVE TypeOK' /\ Named'
  BY <1>1 DEF RejectUnknownApp, Delivery, TypeOK, Named
<1>2. ASSUME NEW w \in WebhookIds, RecordInvalid(r, w)  PROVE TypeOK' /\ Named'
  <2>1. TypeOK'
    BY <1>2 DEF RecordInvalid, Delivery, TypeOK
  <2>2. Named'
    BY <1>2 DEF RecordInvalid, Delivery, TypeOK, Named
  <2>3. QED BY <2>1, <2>2
<1>3. ASSUME NEW w \in WebhookIds, IngestCheck(r, w)  PROVE TypeOK' /\ Named'
  BY <1>3 DEF IngestCheck, Delivery, TypeOK, Named
<1>4. ASSUME IngestCreate(r)  PROVE TypeOK' /\ Named'
  <2>1. req[r].pc # "idle" /\ \E pc \in {"created", "acked"} : Answer(r, pc)
    BY <1>4 DEF IngestCreate
  <2>2. status' \in [WebhookIds -> Statuses] /\ hmacValid' \in [WebhookIds -> BOOLEAN]
    BY <1>4 DEF IngestCreate, TypeOK
  <2>3. UNCHANGED <<attempts, jobVars, run, rep, lateVars, auditVars, obsVars, faults>>
    BY <1>4 DEF IngestCreate
  <2>4. QED BY <2>1, <2>2, <2>3, AnswerTypes DEF TypeOK, Named
<1>5. ASSUME IngestEnqueue(r)  PROVE TypeOK' /\ Named'
  <2>1. req[r].pc # "idle" /\ Answer(r, "acked") /\ Enqueue(r, req[r].wid)
    BY <1>5 DEF IngestEnqueue
  <2>2. req[r].wid \in WebhookIds
    BY <2>1 DEF Named
  <2>3. UNCHANGED <<rowVars, run, rep, lateVars, auditVars, handled, faults>>
    BY <1>5 DEF IngestEnqueue
  <2>4. QED BY <2>1, <2>2, <2>3, AnswerTypes, EnqueueTypes DEF TypeOK, Named
<1>6. ASSUME IngestFault(r)  PROVE TypeOK' /\ Named'
  <2>1. req[r].pc # "idle" /\ Answer(r, "refused") /\ faults' \in Nat
    BY <1>6 DEF IngestFault, Fault, TypeOK
  <2>2. UNCHANGED <<rowVars, jobVars, run, rep, lateVars, auditVars, obsVars>>
    BY <1>6 DEF IngestFault
  <2>3. QED BY <2>1, <2>2, AnswerTypes DEF TypeOK, Named
<1>7. QED BY <1>0, <1>1, <1>2, <1>3, <1>4, <1>5, <1>6

\* A step of a run keeps the runs well formed.
LEMMA StepTypes ==
  ASSUME TypeOK, Named, NEW k \in Workers, run[k].pc # "idle",
         NEW pc \in {"counted", "handled", "done"}, Step(k, pc)
  PROVE  /\ run' \in [Workers -> [pc : {"idle", "taken", "counted", "handled", "done"},
                                 wid : WebhookIds \cup {NoId}, lock : {"none", "held", "lost"}]]
         /\ \A j \in Workers : run'[j].pc # "idle" => run'[j].wid \in WebhookIds
<1>1. run' = [run EXCEPT ![k].pc = pc]
  BY DEF Step
<1>2. run \in [Workers -> [pc : {"idle", "taken", "counted", "handled", "done"},
                         wid : WebhookIds \cup {NoId}, lock : {"none", "held", "lost"}]]
  BY DEF TypeOK
<1>3. QED BY <1>1, <1>2 DEF Named

\* So are the worker runs.
LEMMA WorkerTypes ==
  ASSUME TypeOK, Named, WorkerNext
  PROVE  TypeOK' /\ Named'
<1> USE DEF rowVars, jobVars, lateVars, auditVars, obsVars
<1>0. PICK k \in Workers :
        \/ \E w \in WebhookIds : Take(k, w)
        \/ CountAttempt(k) \/ Handle(k) \/ MarkProcessed(k) \/ Complete(k)
        \/ RunFails(k) \/ RunCrash(k) \/ LoseLock(k)
  BY DEF WorkerNext
<1>1. ASSUME NEW w \in WebhookIds, Take(k, w)  PROVE TypeOK' /\ Named'
  BY <1>1 DEF Take, TypeOK, Named
<1>2. ASSUME CountAttempt(k)  PROVE TypeOK' /\ Named'
  <2>1. run[k].pc # "idle" /\ \E pc \in {"counted", "handled", "done"} : Step(k, pc)
    BY <1>2 DEF CountAttempt
  <2>2. QED BY <1>2, <2>1, StepTypes DEF CountAttempt, TypeOK, Named
<1>3. ASSUME Handle(k)  PROVE TypeOK' /\ Named'
  <2>1. run[k].pc # "idle" /\ \E pc \in {"counted", "handled", "done"} : Step(k, pc)
    BY <1>3 DEF Handle
  <2>2. QED BY <1>3, <2>1, StepTypes DEF Handle, TypeOK, Named
<1>4. ASSUME MarkProcessed(k)  PROVE TypeOK' /\ Named'
  <2>1. run[k].pc # "idle" /\ \E pc \in {"counted", "handled", "done"} : Step(k, pc)
    BY <1>4 DEF MarkProcessed
  <2>2. QED BY <1>4, <2>1, StepTypes DEF MarkProcessed, TypeOK, Named
<1>5. ASSUME Complete(k)  PROVE TypeOK' /\ Named'
  BY <1>5 DEF Complete, Idle, TypeOK, Named
<1>6. ASSUME RunFails(k)  PROVE TypeOK' /\ Named'
  <2>1. /\ job' \in [WebhookIds -> JobStates]
        /\ attemptsMade' \in [WebhookIds -> Nat]
        /\ lateFailed' \in [WebhookIds -> Nat]
        /\ lateDead' \in [WebhookIds -> Nat]
    <3>0. /\ job \in [WebhookIds -> JobStates]
          /\ attemptsMade \in [WebhookIds -> Nat]
          /\ lateFailed \in [WebhookIds -> Nat]
          /\ lateDead \in [WebhookIds -> Nat]
      BY DEF TypeOK
    <3>1. CASE run[k].lock # "held"
      BY <1>6, <3>0, <3>1 DEF RunFails
    <3>2. CASE run[k].lock = "held" /\ ~Exhausted(run[k].wid)
      BY <1>6, <3>0, <3>2 DEF RunFails
    <3>3. CASE run[k].lock = "held" /\ Exhausted(run[k].wid)
      BY <1>6, <3>0, <3>3 DEF RunFails
    <3>4. QED BY <3>1, <3>2, <3>3
  <2>2. Idle(k) /\ UNCHANGED <<rowVars, stalledCount, req, rep, deadChecked, auditVars,
                              obsVars, faults>>
    BY <1>6 DEF RunFails
  <2>3. QED BY <2>1, <2>2 DEF Idle, TypeOK, Named
<1>7. ASSUME RunCrash(k)  PROVE TypeOK' /\ Named'
  BY <1>7 DEF RunCrash, Fault, Idle, TypeOK, Named
<1>8. ASSUME LoseLock(k)  PROVE TypeOK' /\ Named'
  <2>0. run \in [Workers -> [pc : {"idle", "taken", "counted", "handled", "done"},
                            wid : WebhookIds \cup {NoId}, lock : {"none", "held", "lost"}]]
    BY DEF TypeOK
  <2>1. run' = [run EXCEPT ![k].lock = "lost"]
    BY <1>8 DEF LoseLock
  <2>2. run' \in [Workers -> [pc : {"idle", "taken", "counted", "handled", "done"},
                             wid : WebhookIds \cup {NoId}, lock : {"none", "held", "lost"}]]
    BY <2>0, <2>1
  <2>3. \A j \in Workers : run'[j].pc = run[j].pc /\ run'[j].wid = run[j].wid
    BY <2>0, <2>1
  <2>4. UNCHANGED <<rowVars, jobVars, req, rep, lateVars, auditVars, obsVars>> /\ faults' \in Nat
    BY <1>8 DEF LoseLock, Fault, TypeOK
  <2>5. QED BY <2>2, <2>3, <2>4 DEF TypeOK, Named
<1>9. QED BY <1>0, <1>1, <1>2, <1>3, <1>4, <1>5, <1>6, <1>7, <1>8

\* The queue's own steps and the listener's writes keep the types.
LEMMA QueueTypes ==
  ASSUME TypeOK, Named, QueueNext \/ LateNext
  PROVE  TypeOK' /\ Named'
<1> USE DEF rowVars, jobVars, lateVars, auditVars, obsVars
<1>0. PICK w \in WebhookIds :
        \/ Evict(w) \/ BackoffEnds(w) \/ Stalled(w)
        \/ MarkFailedTransient(w) \/ DeadLetterRead(w) \/ DeadLetterCommit(w) \/ LateWriteLost(w)
  BY DEF QueueNext, LateNext
<1>1. ASSUME Evict(w) \/ BackoffEnds(w)  PROVE TypeOK' /\ Named'
  <2>1. job \in [WebhookIds -> JobStates]
    BY DEF TypeOK
  <2>2. job' \in [WebhookIds -> JobStates]
    BY <1>1, <2>1 DEF Evict, BackoffEnds, JobStates
  <2>3. UNCHANGED <<rowVars, attemptsMade, stalledCount, req, run, rep, lateVars,
                    auditVars, obsVars, faults>>
    BY <1>1 DEF Evict, BackoffEnds
  <2>4. QED BY <2>2, <2>3 DEF TypeOK, Named
<1>2. ASSUME Stalled(w)  PROVE TypeOK' /\ Named'
  <2>0. /\ job \in [WebhookIds -> JobStates]
        /\ stalledCount \in [WebhookIds -> Nat]
        /\ lateFailed \in [WebhookIds -> Nat]
    BY DEF TypeOK
  <2>1. /\ job' \in [WebhookIds -> JobStates]
        /\ stalledCount' \in [WebhookIds -> Nat]
        /\ lateFailed' \in [WebhookIds -> Nat]
    <3>1. CASE stalledCount[w] < MaxStalled
      BY <1>2, <2>0, <3>1 DEF Stalled
    <3>2. CASE ~(stalledCount[w] < MaxStalled)
      BY <1>2, <2>0, <3>2 DEF Stalled
    <3>3. QED BY <3>1, <3>2
  <2>2. UNCHANGED <<rowVars, attemptsMade, req, run, rep, lateDead, deadChecked,
                    auditVars, obsVars, faults>>
    BY <1>2 DEF Stalled
  <2>3. QED BY <2>1, <2>2 DEF TypeOK, Named
<1>3. ASSUME MarkFailedTransient(w)  PROVE TypeOK' /\ Named'
  BY <1>3 DEF MarkFailedTransient, TypeOK, Named
<1>4. ASSUME DeadLetterRead(w)  PROVE TypeOK' /\ Named'
  BY <1>4 DEF DeadLetterRead, TypeOK, Named
<1>5. ASSUME DeadLetterCommit(w)  PROVE TypeOK' /\ Named'
  BY <1>5 DEF DeadLetterCommit, TypeOK, Named
<1>6. ASSUME LateWriteLost(w)  PROVE TypeOK' /\ Named'
  <2>1. /\ lateFailed' \in [WebhookIds -> Nat]
        /\ lateDead' \in [WebhookIds -> Nat]
        /\ deadChecked' \in [WebhookIds -> Nat]
        /\ faults' \in Nat
    <3>1. CASE lateFailed[w] > 0 /\ lateFailed' = [lateFailed EXCEPT ![w] = @ - 1]
                                /\ UNCHANGED <<lateDead, deadChecked>>
      BY <1>6, <3>1 DEF LateWriteLost, Fault, TypeOK
    <3>2. CASE lateDead[w] > 0 /\ lateDead' = [lateDead EXCEPT ![w] = @ - 1]
                              /\ UNCHANGED <<lateFailed, deadChecked>>
      BY <1>6, <3>2 DEF LateWriteLost, Fault, TypeOK
    <3>3. CASE deadChecked[w] > 0 /\ deadChecked' = [deadChecked EXCEPT ![w] = @ - 1]
                                 /\ UNCHANGED <<lateFailed, lateDead>>
      BY <1>6, <3>3 DEF LateWriteLost, Fault, TypeOK
    <3>4. QED BY <1>6, <3>1, <3>2, <3>3 DEF LateWriteLost
  <2>2. UNCHANGED <<rowVars, jobVars, req, run, rep, auditVars, obsVars>>
    BY <1>6 DEF LateWriteLost
  <2>3. QED BY <2>1, <2>2 DEF TypeOK, Named
<1>7. QED BY <1>0, <1>1, <1>2, <1>3, <1>4, <1>5, <1>6

\* A step of a replay keeps the replays well formed.
LEMMA RepStepTypes ==
  ASSUME TypeOK, Named, NEW p \in Replays, rep[p].pc # "idle",
         NEW pc \in {"committed", "removed", "done", "failed"}, RepStep(p, pc)
  PROVE  /\ rep' \in [Replays -> [pc : {"idle", "listed", "committed", "removed", "done", "failed"},
                                  wid : WebhookIds \cup {NoId}]]
         /\ \A q \in Replays : rep'[q].pc # "idle" => rep'[q].wid \in WebhookIds
<1>1. rep' = [rep EXCEPT ![p].pc = pc]
  BY DEF RepStep
<1>2. rep \in [Replays -> [pc : {"idle", "listed", "committed", "removed", "done", "failed"},
                          wid : WebhookIds \cup {NoId}]]
  BY DEF TypeOK
<1>3. QED BY <1>1, <1>2 DEF Named

\* So do the replays.
LEMMA ReplayTypes ==
  ASSUME TypeOK, Named, ReplayNext
  PROVE  TypeOK' /\ Named'
<1> USE DEF rowVars, jobVars, lateVars, auditVars, obsVars
<1>0. PICK p \in Replays :
        \/ \E w \in WebhookIds : ListFailed(p, w)
        \/ ReplayCommit(p) \/ ReplayRemove(p) \/ ReplayEnqueue(p) \/ ReplayFault(p)
  BY DEF ReplayNext
<1>1. ASSUME NEW w \in WebhookIds, ListFailed(p, w)  PROVE TypeOK' /\ Named'
  BY <1>1 DEF ListFailed, TypeOK, Named
<1>2. ASSUME ReplayCommit(p)  PROVE TypeOK' /\ Named'
  BY <1>2 DEF ReplayCommit, RepStep, TypeOK, Named
<1>3. ASSUME ReplayRemove(p)  PROVE TypeOK' /\ Named'
  <2>1. rep[p].pc # "idle" /\ \E pc \in {"failed", "removed"} : RepStep(p, pc)
    BY <1>3 DEF ReplayRemove
  <2>2. job \in [WebhookIds -> JobStates]
    BY DEF TypeOK
  <2>3. job' \in [WebhookIds -> JobStates]
    BY <1>3, <2>2 DEF ReplayRemove, JobStates
  <2>4. UNCHANGED <<rowVars, attemptsMade, stalledCount, req, run, lateVars, auditVars,
                    obsVars, faults>>
    BY <1>3 DEF ReplayRemove
  <2>5. QED BY <2>1, <2>3, <2>4, RepStepTypes DEF TypeOK, Named
<1>4. ASSUME ReplayEnqueue(p)  PROVE TypeOK' /\ Named'
  <2>1. /\ rep[p].pc # "idle" /\ RepStep(p, "done") /\ Enqueue(p, rep[p].wid)
        /\ UNCHANGED <<rowVars, req, run, lateVars, auditVars, handled, faults>>
    BY <1>4 DEF ReplayEnqueue
  <2>2. rep[p].wid \in WebhookIds
    BY <2>1 DEF Named
  <2>3. TypeOK'
    BY <2>1, <2>2, RepStepTypes, EnqueueTypes DEF TypeOK
  <2>4. Named'
    BY <2>1, RepStepTypes DEF Named
  <2>5. QED BY <2>3, <2>4
<1>5. ASSUME ReplayFault(p)  PROVE TypeOK' /\ Named'
  BY <1>5 DEF ReplayFault, Fault, RepStep, TypeOK, Named
<1>6. QED BY <1>0, <1>1, <1>2, <1>3, <1>4, <1>5

\* Every reachable state is well formed, whatever the constants: in particular no
\* counter of pending writes goes below zero.
THEOREM TypeCorrect == Spec => [](TypeOK /\ Named)
<1>1. Init => TypeOK /\ Named
  BY ConstantsAssumption DEF Init, TypeOK, Named
<1>2. TypeOK /\ Named /\ [Next]_vars => TypeOK' /\ Named'
  <2>1. ASSUME TypeOK, Named, UNCHANGED vars  PROVE TypeOK' /\ Named'
    BY <2>1 DEF vars, rowVars, jobVars, lateVars, auditVars, obsVars, TypeOK, Named
  <2>2. QED BY <2>1, RouteTypes, WorkerTypes, QueueTypes, ReplayTypes DEF Next
<1>3. QED BY <1>1, <1>2, PTL DEF Spec

-----------------------------------------------------------------------------
(* EnqueuedOnce.  Between its insert and its enqueue a request is the only *)
(* creator of its row, nobody has enqueued the row yet, and the row stays. *)

OneCreator ==
  /\ \A r \in Requests : req[r].pc = "created" =>
       /\ status[req[r].wid] # "absent" /\ hmacValid[req[r].wid]
       /\ submitted[req[r].wid] \cap Requests = {}
  /\ \A r1, r2 \in Requests :
       req[r1].pc = "created" /\ req[r2].pc = "created" /\ req[r1].wid = req[r2].wid => r1 = r2
  /\ \A w \in WebhookIds :
       /\ \A r1, r2 \in submitted[w] \cap Requests : r1 = r2
       /\ submitted[w] \cap Requests # {} => status[w] # "absent" /\ hmacValid[w]

\* A replay enqueues once, after its audit row.
ReplayAudited ==
  /\ \A p \in Replays :
       /\ rep[p].pc \in {"committed", "removed", "done"} => p \in replayAudits[rep[p].wid]
       /\ rep[p].pc # "done" => \A w \in WebhookIds : p \notin submitted[w]
  /\ \A w \in WebhookIds : submitted[w] \cap Replays \subseteq replayAudits[w]

\* What add() does to the deliveries and replays it has accepted.
LEMMA EnqueueSubmits ==
  ASSUME TypeOK, NEW by \in Requests \cup Replays, NEW w \in WebhookIds, Enqueue(by, w)
  PROVE  \A v \in WebhookIds : submitted'[v] = submitted[v] \/ (v = w /\ submitted'[v] = submitted[v] \cup {by})
<1>1. submitted \in [WebhookIds -> SUBSET (Requests \cup Replays)]
  BY DEF TypeOK
<1>2. submitted' = [submitted EXCEPT ![w] = @ \cup {by}] \/ submitted' = submitted
  BY DEF Enqueue
<1>3. QED BY <1>1, <1>2

\* Only the route inserts rows and enqueues for requests; nothing undoes an insert,
\* and the verdict on the signature is written with the insert.
LEMMA OthersKeepRows ==
  ASSUME TypeOK, Named, WorkerNext \/ QueueNext \/ LateNext \/ ReplayNext
  PROVE  /\ UNCHANGED <<req, hmacValid>>
         /\ \A w \in WebhookIds : status[w] # "absent" => status'[w] # "absent"
<1> USE DEF rowVars, jobVars, lateVars, auditVars, obsVars
<1>0. status \in [WebhookIds -> Statuses]
  BY DEF TypeOK
<1>1. ASSUME WorkerNext
      PROVE  /\ UNCHANGED <<req, hmacValid>>
             /\ \/ UNCHANGED status
                \/ \E w \in WebhookIds : status' = [status EXCEPT ![w] = "PROCESSED"]
  <2>0. PICK k \in Workers :
          \/ \E w \in WebhookIds : Take(k, w)
          \/ CountAttempt(k) \/ Handle(k) \/ MarkProcessed(k) \/ Complete(k)
          \/ RunFails(k) \/ RunCrash(k) \/ LoseLock(k)
    BY <1>1 DEF WorkerNext
  <2>1. CASE MarkProcessed(k)
    BY <2>1 DEF MarkProcessed, Named
  <2>2. CASE ~MarkProcessed(k)
    BY <2>0, <2>2 DEF Take, CountAttempt, Handle, Complete, RunFails, RunCrash, LoseLock
  <2>3. QED BY <2>1, <2>2
<1>2. ASSUME QueueNext \/ LateNext
      PROVE  /\ UNCHANGED <<req, hmacValid>>
             /\ \/ UNCHANGED status
                \/ \E w \in WebhookIds : \/ status' = [status EXCEPT ![w] = "FAILED"]
                                        \/ status' = [status EXCEPT ![w] = "DEAD_LETTER"]
  BY <1>2 DEF QueueNext, LateNext, Evict, BackoffEnds, Stalled, MarkFailedTransient,
              DeadLetterRead, DeadLetterCommit, LateWriteLost
<1>3. ASSUME ReplayNext
      PROVE  /\ UNCHANGED <<req, hmacValid>>
             /\ \/ UNCHANGED status
                \/ \E w \in WebhookIds : status' = [status EXCEPT ![w] = "RECEIVED"]
  <2>0. PICK p \in Replays :
          \/ \E w \in WebhookIds : ListFailed(p, w)
          \/ ReplayCommit(p) \/ ReplayRemove(p) \/ ReplayEnqueue(p) \/ ReplayFault(p)
    BY <1>3 DEF ReplayNext
  <2>1. CASE ReplayCommit(p)
    BY <2>1 DEF ReplayCommit, Named
  <2>2. CASE ~ReplayCommit(p)
    BY <2>0, <2>2 DEF ListFailed, ReplayRemove, ReplayEnqueue, ReplayFault
  <2>3. QED BY <2>1, <2>2
<1>4. QED BY <1>0, <1>1, <1>2, <1>3

\* Steps outside the route and the replays enqueue nothing and touch no replay.
LEMMA OthersEnqueueNothing ==
  ASSUME WorkerNext \/ QueueNext \/ LateNext
  PROVE  UNCHANGED <<submitted, rep, replayAudits>>
<1> USE DEF rowVars, jobVars, lateVars, auditVars, obsVars
<1>1. CASE WorkerNext
  BY <1>1 DEF WorkerNext, Take, CountAttempt, Handle, MarkProcessed, Complete, RunFails,
              RunCrash, LoseLock
<1>2. CASE QueueNext
  BY <1>2 DEF QueueNext, Evict, BackoffEnds, Stalled
<1>3. CASE LateNext
  BY <1>3 DEF LateNext, MarkFailedTransient, DeadLetterRead, DeadLetterCommit, LateWriteLost
<1>4. QED BY <1>1, <1>2, <1>3

\* The race of deliveries leaves one creator per row.
LEMMA RouteKeepsOneCreator ==
  ASSUME TypeOK, Named, ReplayAudited, OneCreator, RouteNext
  PROVE  OneCreator'
<1> USE DEF rowVars, jobVars, lateVars, auditVars, obsVars
<1>t. /\ req \in [Requests -> [pc : {"idle", "checked", "created", "acked", "refused"},
                              wid : WebhookIds \cup {NoId}]]
      /\ status \in [WebhookIds -> Statuses] /\ hmacValid \in [WebhookIds -> BOOLEAN]
      /\ submitted \in [WebhookIds -> SUBSET (Requests \cup Replays)]
  BY DEF TypeOK
<1>0. PICK r \in Requests :
        \/ \E w \in WebhookIds : RejectUnknownApp(r, w) \/ RecordInvalid(r, w) \/ IngestCheck(r, w)
        \/ IngestCreate(r) \/ IngestEnqueue(r) \/ IngestFault(r)
  BY DEF RouteNext
<1>1. ASSUME NEW w \in WebhookIds, RejectUnknownApp(r, w) \/ IngestCheck(r, w)  PROVE OneCreator'
  <2>1. /\ UNCHANGED <<status, hmacValid, submitted>>
        /\ \E pc \in {"acked", "checked", "refused"} : req' = [req EXCEPT ![r] = [pc |-> pc, wid |-> w]]
    BY <1>1 DEF RejectUnknownApp, IngestCheck, Delivery
  <2>2. QED BY <1>t, <2>1 DEF OneCreator
<1>2. ASSUME NEW w \in WebhookIds, RecordInvalid(r, w)  PROVE OneCreator'
  <2>1. /\ UNCHANGED submitted
        /\ req' = [req EXCEPT ![r] = [pc |-> "refused", wid |-> w]]
        /\ \A v \in WebhookIds : status[v] # "absent" =>
             status'[v] = status[v] /\ hmacValid'[v] = hmacValid[v]
    BY <1>2, <1>t DEF RecordInvalid, Delivery
  <2>2. QED BY <1>t, <2>1 DEF OneCreator, Named
<1>3. ASSUME IngestCreate(r)  PROVE OneCreator'
  <2> DEFINE w == req[r].wid
  <2>0. req[r].pc = "checked" /\ w \in WebhookIds /\ UNCHANGED submitted
    BY <1>3 DEF IngestCreate, Named
  <2>1. CASE status[w] = "absent"
    <3>1. /\ status' = [status EXCEPT ![w] = "RECEIVED"]
          /\ hmacValid' = [hmacValid EXCEPT ![w] = TRUE]
          /\ req' = [req EXCEPT ![r].pc = "created"]
      BY <1>3, <2>1 DEF IngestCreate, Answer
    <3>2. submitted[w] \cap Requests = {}
      BY <2>0, <2>1 DEF OneCreator
    <3>3. \A q \in Requests : req[q].pc = "created" => req[q].wid # w
      BY <2>0, <2>1 DEF OneCreator
    <3>4. QED BY <1>t, <2>0, <3>1, <3>2, <3>3 DEF OneCreator, Named
  <2>2. CASE status[w] # "absent"
    <3>1. /\ UNCHANGED <<status, hmacValid>>
          /\ req' = [req EXCEPT ![r].pc = "acked"]
      BY <1>3, <2>2 DEF IngestCreate, Answer
    <3>2. QED BY <1>t, <2>0, <3>1 DEF OneCreator
  <2>3. QED BY <2>1, <2>2
<1>4. ASSUME IngestEnqueue(r)  PROVE OneCreator'
  <2> DEFINE w == req[r].wid
  <2>0. /\ req[r].pc = "created" /\ w \in WebhookIds
        /\ UNCHANGED <<status, hmacValid>>
        /\ req' = [req EXCEPT ![r].pc = "acked"]
    BY <1>4 DEF IngestEnqueue, Answer, Named
  <2>1. \A v \in WebhookIds :
          submitted'[v] = submitted[v] \/ (v = w /\ submitted'[v] = submitted[v] \cup {r})
    BY <1>4, <2>0, EnqueueSubmits DEF IngestEnqueue
  <2>2. /\ submitted[w] \cap Requests = {} /\ status[w] # "absent" /\ hmacValid[w]
        /\ \A q \in Requests : req[q].pc = "created" /\ q # r => req[q].wid # w
    BY <2>0 DEF OneCreator
  <2>3. QED BY <1>t, <2>0, <2>1, <2>2 DEF OneCreator, Named
<1>5. ASSUME IngestFault(r)  PROVE OneCreator'
  <2>1. UNCHANGED <<status, hmacValid, submitted>> /\ req' = [req EXCEPT ![r].pc = "refused"]
    BY <1>5 DEF IngestFault, Answer
  <2>2. QED BY <1>t, <2>1 DEF OneCreator
<1>6. QED BY <1>0, <1>1, <1>2, <1>3, <1>4, <1>5

\* A replay enqueues under its own name only, and after its transaction.
LEMMA ReplayKeepsAudited ==
  ASSUME TypeOK, Named, ReplayAudited, ReplayNext
  PROVE  ReplayAudited' /\ \A w \in WebhookIds : submitted'[w] \cap Requests = submitted[w] \cap Requests
<1> USE DEF rowVars, jobVars, lateVars, auditVars, obsVars
<1>t. /\ rep \in [Replays -> [pc : {"idle", "listed", "committed", "removed", "done", "failed"},
                             wid : WebhookIds \cup {NoId}]]
      /\ submitted \in [WebhookIds -> SUBSET (Requests \cup Replays)]
      /\ replayAudits \in [WebhookIds -> SUBSET Replays]
      /\ Requests \cap Replays = {}
  BY ConstantsAssumption DEF TypeOK
<1>0. PICK p \in Replays :
        \/ \E w \in WebhookIds : ListFailed(p, w)
        \/ ReplayCommit(p) \/ ReplayRemove(p) \/ ReplayEnqueue(p) \/ ReplayFault(p)
  BY DEF ReplayNext
<1> DEFINE w == rep[p].wid
           Goal == ReplayAudited' /\ \A v \in WebhookIds : submitted'[v] \cap Requests = submitted[v] \cap Requests
<1>1. ASSUME NEW v \in WebhookIds, ListFailed(p, v)  PROVE Goal
  BY <1>1, <1>t DEF ListFailed, ReplayAudited
<1>2. CASE ReplayCommit(p)
  BY <1>2, <1>t DEF ReplayCommit, RepStep, ReplayAudited, Named
<1>3. CASE ReplayRemove(p)
  <2>1. /\ UNCHANGED <<submitted, replayAudits>> /\ rep[p].pc = "committed"
        /\ \E pc \in {"failed", "removed"} : rep' = [rep EXCEPT ![p].pc = pc]
    BY <1>3 DEF ReplayRemove, RepStep
  <2>2. QED BY <1>t, <2>1 DEF ReplayAudited
<1>4. CASE ReplayEnqueue(p)
  <2>0. /\ rep[p].pc = "removed" /\ w \in WebhookIds /\ UNCHANGED replayAudits
        /\ rep' = [rep EXCEPT ![p].pc = "done"]
    BY <1>4 DEF ReplayEnqueue, RepStep, Named
  <2>1. \A v \in WebhookIds :
          submitted'[v] = submitted[v] \/ (v = w /\ submitted'[v] = submitted[v] \cup {p})
    BY <1>4, <2>0, EnqueueSubmits DEF ReplayEnqueue
  <2>2. p \in replayAudits[w]
    BY <2>0 DEF ReplayAudited
  <2>3. QED BY <1>t, <2>0, <2>1, <2>2 DEF ReplayAudited
<1>5. CASE ReplayFault(p)
  <2>1. /\ UNCHANGED <<submitted, replayAudits>>
        /\ rep' = [rep EXCEPT ![p].pc = "failed"]
        /\ rep[p].pc # "done"
    BY <1>5 DEF ReplayFault, RepStep
  <2>2. QED BY <1>t, <2>1 DEF ReplayAudited
<1>6. QED BY <1>0, <1>1, <1>2, <1>3, <1>4, <1>5

\* The route enqueues under the names of requests only.
LEMMA RouteKeepsAudited ==
  ASSUME TypeOK, Named, ReplayAudited, RouteNext
  PROVE  ReplayAudited'
<1>t. /\ submitted \in [WebhookIds -> SUBSET (Requests \cup Replays)]
      /\ Requests \cap Replays = {}
  BY ConstantsAssumption DEF TypeOK
<1>0. PICK r \in Requests :
        \/ \E w \in WebhookIds : RejectUnknownApp(r, w) \/ RecordInvalid(r, w) \/ IngestCheck(r, w)
        \/ IngestCreate(r) \/ IngestEnqueue(r) \/ IngestFault(r)
  BY DEF RouteNext
<1>1. UNCHANGED <<rep, replayAudits>>
  BY <1>0 DEF RejectUnknownApp, RecordInvalid, IngestCheck, IngestCreate, IngestEnqueue,
              IngestFault, auditVars
<1>2. CASE IngestEnqueue(r)
  <2>1. req[r].wid \in WebhookIds
    BY <1>2 DEF IngestEnqueue, Named
  <2>2. \A v \in WebhookIds : submitted'[v] = submitted[v] \/ submitted'[v] = submitted[v] \cup {r}
    BY <1>2, <2>1, EnqueueSubmits DEF IngestEnqueue
  <2>3. QED BY <1>t, <1>1, <2>2 DEF ReplayAudited
<1>3. CASE ~IngestEnqueue(r)
  <2>1. UNCHANGED submitted
    BY <1>0, <1>3 DEF RejectUnknownApp, RecordInvalid, IngestCheck, IngestCreate, IngestFault, obsVars
  <2>2. QED BY <1>1, <2>1 DEF ReplayAudited
<1>4. QED BY <1>2, <1>3

\* What holds of deliveries and replays at every moment.
THEOREM DeliveryInvariant == Spec => [](TypeOK /\ Named /\ OneCreator /\ ReplayAudited)
<1> DEFINE Inv == TypeOK /\ Named /\ OneCreator /\ ReplayAudited
<1>1. Init => Inv
  BY ConstantsAssumption DEF Init, TypeOK, Named, OneCreator, ReplayAudited
<1>2. Inv /\ [Next]_vars => Inv'
  <2> SUFFICES ASSUME Inv, [Next]_vars  PROVE Inv'
    OBVIOUS
  <2>1. CASE UNCHANGED vars
    BY <2>1 DEF vars, rowVars, jobVars, lateVars, auditVars, obsVars,
                TypeOK, Named, OneCreator, ReplayAudited
  <2>2. CASE RouteNext
    BY <2>2, RouteTypes, RouteKeepsOneCreator, RouteKeepsAudited
  <2>3. CASE WorkerNext \/ QueueNext \/ LateNext
    <3>1. TypeOK' /\ Named'
      BY <2>3, WorkerTypes, QueueTypes
    <3>2. UNCHANGED <<req, hmacValid, submitted, rep, replayAudits>>
      BY <2>3, OthersKeepRows, OthersEnqueueNothing
    <3>3. \A w \in WebhookIds : status[w] # "absent" => status'[w] # "absent"
      BY <2>3, OthersKeepRows
    <3>4. OneCreator'
      BY <3>2, <3>3 DEF OneCreator, Named
    <3>5. QED BY <3>1, <3>2, <3>4 DEF ReplayAudited
  <2>4. CASE ReplayNext
    <3>1. TypeOK' /\ Named' /\ ReplayAudited'
      BY <2>4, ReplayTypes, ReplayKeepsAudited
    <3>2. /\ UNCHANGED <<req, hmacValid>>
          /\ \A w \in WebhookIds : status[w] # "absent" => status'[w] # "absent"
      BY <2>4, OthersKeepRows
    <3>3. \A w \in WebhookIds : submitted'[w] \cap Requests = submitted[w] \cap Requests
      BY <2>4, ReplayKeepsAudited
    <3>4. OneCreator'
      BY <3>2, <3>3 DEF OneCreator, Named
    <3>5. QED BY <3>1, <3>4
  <2>5. QED BY <2>1, <2>2, <2>3, <2>4 DEF Next
<1>3. QED BY <1>1, <1>2, PTL DEF Spec

\* However many deliveries race, at most one enqueues the event, its signature was
\* verified, and every other submission is a replay with its audit row.
THEOREM EnqueuedOnceHolds == Spec => []EnqueuedOnce
<1>1. TypeOK /\ OneCreator /\ ReplayAudited => EnqueuedOnce
  BY DEF OneCreator, ReplayAudited, EnqueuedOnce
<1>2. QED BY <1>1, DeliveryInvariant, PTL

-----------------------------------------------------------------------------
(* AttemptCeiling.  While a job is live, the runs of it are paid for by    *)
(* counted failures, forgiven stalls and the run in progress; a lock is    *)
(* held by one run at a time, and only on an active job.                   *)

OneHolder ==
  /\ \A k \in Workers : run[k].lock = "held" =>
       run[k].pc # "idle" /\ run[k].wid \in WebhookIds /\ job[run[k].wid] = "active"
  /\ \A j, k \in Workers :
       run[j].lock = "held" /\ run[k].lock = "held" /\ run[j].wid = run[k].wid => j = k

Budget ==
  /\ AttemptCeiling
  /\ \A w \in WebhookIds : job[w] \in Live =>
       /\ attemptsMade[w] < MaxAttempts
       /\ stalledCount[w] <= MaxStalled
       /\ taken[w] <= attemptsMade[w] + stalledCount[w] + (IF job[w] = "active" THEN 1 ELSE 0)

\* What add() does to one job.
LEMMA EnqueueJob ==
  ASSUME TypeOK, NEW by, NEW w \in WebhookIds, Enqueue(by, w)
  PROVE  \A v \in WebhookIds :
           \/ /\ job'[v] = job[v] /\ attemptsMade'[v] = attemptsMade[v]
              /\ stalledCount'[v] = stalledCount[v] /\ taken'[v] = taken[v]
           \/ /\ job[v] = "none" /\ job'[v] = "waiting" /\ attemptsMade'[v] = 0
              /\ stalledCount'[v] = 0 /\ taken'[v] = 0
<1>1. CASE job[w] = "none"
  <2>1. /\ job' = [job EXCEPT ![w] = "waiting"]
        /\ attemptsMade' = [attemptsMade EXCEPT ![w] = 0]
        /\ stalledCount' = [stalledCount EXCEPT ![w] = 0]
        /\ taken' = [taken EXCEPT ![w] = 0]
    BY <1>1 DEF Enqueue
  <2>2. QED BY <1>1, <2>1 DEF TypeOK
<1>2. CASE job[w] # "none"
  BY <1>2 DEF Enqueue, jobVars
<1>3. QED BY <1>1, <1>2

\* The queue step by step keeps the budget.
LEMMA KeepsBudget ==
  ASSUME TypeOK, Named, OneHolder, Budget, Next
  PROVE  OneHolder' /\ Budget'
<1> USE DEF rowVars, jobVars, lateVars, auditVars, obsVars
<1>t. /\ job \in [WebhookIds -> JobStates] /\ attemptsMade \in [WebhookIds -> Nat]
      /\ stalledCount \in [WebhookIds -> Nat] /\ taken \in [WebhookIds -> Nat]
      /\ run \in [Workers -> [pc : {"idle", "taken", "counted", "handled", "done"},
                             wid : WebhookIds \cup {NoId}, lock : {"none", "held", "lost"}]]
      /\ MaxAttempts \in Nat /\ MaxAttempts > 0 /\ MaxStalled \in Nat
  BY ConstantsAssumption DEF TypeOK
<1> DEFINE Goal == OneHolder' /\ Budget'
<1>1. ASSUME NEW r \in Requests, IngestEnqueue(r)  PROVE Goal
  <2>1. req[r].wid \in WebhookIds /\ UNCHANGED run
    BY <1>1 DEF IngestEnqueue, Named
  <2>2. QED BY <1>1, <1>t, <2>1, EnqueueJob DEF IngestEnqueue, OneHolder, Budget, AttemptCeiling, Live
<1>2. ASSUME NEW p \in Replays, ReplayEnqueue(p)  PROVE Goal
  <2>1. rep[p].wid \in WebhookIds /\ UNCHANGED run
    BY <1>2 DEF ReplayEnqueue, Named
  <2>2. QED BY <1>2, <1>t, <2>1, EnqueueJob DEF ReplayEnqueue, OneHolder, Budget, AttemptCeiling, Live
<1>3. ASSUME NEW p \in Replays, ReplayRemove(p)  PROVE Goal
  <2>1. rep[p].wid \in WebhookIds /\ UNCHANGED <<run, attemptsMade, stalledCount, taken>>
    BY <1>3 DEF ReplayRemove, Named
  <2>2. CASE UNCHANGED job
    BY <2>1, <2>2 DEF OneHolder, Budget, AttemptCeiling
  <2>3. CASE ~Held(rep[p].wid) /\ job' = [job EXCEPT ![rep[p].wid] = "none"]
    BY <1>t, <2>1, <2>3 DEF Held, OneHolder, Budget, AttemptCeiling, Live
  <2>4. QED BY <1>3, <2>2, <2>3 DEF ReplayRemove
<1>4. ASSUME NEW k \in Workers, NEW w \in WebhookIds, Take(k, w)  PROVE Goal
  <2>1. /\ job[w] = "waiting" /\ job' = [job EXCEPT ![w] = "active"]
        /\ run' = [run EXCEPT ![k] = [pc |-> "taken", wid |-> w, lock |-> "held"]]
        /\ taken' = [taken EXCEPT ![w] = @ + 1]
        /\ UNCHANGED <<attemptsMade, stalledCount>>
    BY <1>4 DEF Take
  <2>2. OneHolder'
    BY <1>t, <2>1 DEF OneHolder
  <2>3. Budget'
    BY <1>t, <2>1 DEF Budget, AttemptCeiling, Live
  <2>4. QED BY <2>2, <2>3
<1>5. ASSUME NEW k \in Workers, Complete(k)  PROVE Goal
  <2>1. /\ run' = [run EXCEPT ![k] = [pc |-> "idle", wid |-> NoId, lock |-> "none"]]
        /\ UNCHANGED <<attemptsMade, stalledCount, taken>>
    BY <1>5 DEF Complete, Idle
  <2>2. CASE run[k].lock = "held"
    <3>1. job' = [job EXCEPT ![run[k].wid] = "completed"]
      BY <1>5, <2>2 DEF Complete
    <3>2. QED BY <1>t, <2>1, <2>2, <3>1 DEF OneHolder, Budget, AttemptCeiling, Live
  <2>3. CASE run[k].lock # "held"
    <3>1. UNCHANGED job
      BY <1>5, <2>3 DEF Complete
    <3>2. QED BY <1>t, <2>1, <2>3, <3>1 DEF OneHolder, Budget, AttemptCeiling
  <2>4. QED BY <2>2, <2>3
<1>6. ASSUME NEW k \in Workers, RunFails(k)  PROVE Goal
  <2> DEFINE w == run[k].wid
  <2>1. /\ run' = [run EXCEPT ![k] = [pc |-> "idle", wid |-> NoId, lock |-> "none"]]
        /\ UNCHANGED <<stalledCount, taken>> /\ w \in WebhookIds
    BY <1>6 DEF RunFails, Idle, Named
  <2>2. CASE run[k].lock # "held" /\ UNCHANGED <<job, attemptsMade>>
    BY <1>t, <2>1, <2>2 DEF OneHolder, Budget, AttemptCeiling
  <2>3. CASE /\ run[k].lock = "held"
             /\ attemptsMade' = [attemptsMade EXCEPT ![w] = @ + 1]
             /\ \/ ~Exhausted(w) /\ job' = [job EXCEPT ![w] = "delayed"]
                \/ job' = [job EXCEPT ![w] = "failed"]
    <3>1. job[w] = "active"
      BY <2>3 DEF OneHolder
    <3>2. OneHolder'
      BY <1>t, <2>1, <2>3, <3>1 DEF OneHolder
    <3>3. Budget'
      BY <1>t, <2>1, <2>3, <3>1 DEF Budget, AttemptCeiling, Live, Exhausted
    <3>4. QED BY <3>2, <3>3
  <2>4. QED BY <1>6, <2>2, <2>3 DEF RunFails
<1>7. ASSUME NEW k \in Workers, RunCrash(k) \/ LoseLock(k)  PROVE Goal
  <2>1. /\ UNCHANGED <<job, attemptsMade, stalledCount, taken>>
        /\ \/ run' = [run EXCEPT ![k] = [pc |-> "idle", wid |-> NoId, lock |-> "none"]]
           \/ run' = [run EXCEPT ![k].lock = "lost"]
    BY <1>7 DEF RunCrash, LoseLock, Idle
  <2>2. QED BY <1>t, <2>1 DEF OneHolder, Budget, AttemptCeiling
<1>8. ASSUME NEW k \in Workers, CountAttempt(k) \/ Handle(k) \/ MarkProcessed(k)  PROVE Goal
  <2>1. /\ UNCHANGED <<job, attemptsMade, stalledCount, taken>> /\ run[k].pc # "idle"
        /\ \E pc \in {"counted", "handled", "done"} : run' = [run EXCEPT ![k].pc = pc]
    BY <1>8 DEF CountAttempt, Handle, MarkProcessed, Step
  <2>2. QED BY <1>t, <2>1 DEF OneHolder, Budget, AttemptCeiling
<1>9. ASSUME QueueNext  PROVE Goal
  <2>0. PICK v \in WebhookIds : Evict(v) \/ BackoffEnds(v) \/ Stalled(v)
    BY <1>9 DEF QueueNext
  <2>1. CASE Evict(v) \/ BackoffEnds(v)
    BY <1>t, <2>1 DEF Evict, BackoffEnds, OneHolder, Budget, AttemptCeiling, Live
  <2>2. CASE Stalled(v)
    <3>1. /\ job[v] = "active" /\ ~Held(v) /\ UNCHANGED <<attemptsMade, run, taken>>
          /\ stalledCount' = [stalledCount EXCEPT ![v] = @ + 1]
          /\ \/ stalledCount[v] < MaxStalled /\ job' = [job EXCEPT ![v] = "waiting"]
             \/ job' = [job EXCEPT ![v] = "failed"]
      BY <2>2 DEF Stalled
    <3>2. OneHolder'
      BY <1>t, <3>1 DEF OneHolder, Held
    <3>3. Budget'
      BY <1>t, <3>1 DEF Budget, AttemptCeiling, Live
    <3>4. QED BY <3>2, <3>3
  <2>3. QED BY <2>0, <2>1, <2>2
<1>10. ASSUME UNCHANGED <<run, job, attemptsMade, stalledCount, taken>>  PROVE Goal
  BY <1>10 DEF OneHolder, Budget, AttemptCeiling
<1>11. RouteNext => Goal
  BY <1>1, <1>10 DEF RouteNext, RejectUnknownApp, RecordInvalid, IngestCheck, IngestCreate, IngestFault
<1>12. ReplayNext => Goal
  BY <1>2, <1>3, <1>10 DEF ReplayNext, ListFailed, ReplayCommit, ReplayFault
<1>13. WorkerNext => Goal
  BY <1>4, <1>5, <1>6, <1>7, <1>8 DEF WorkerNext
<1>14. LateNext => Goal
  BY <1>10 DEF LateNext, MarkFailedTransient, DeadLetterRead, DeadLetterCommit, LateWriteLost
<1>15. QED BY <1>9, <1>11, <1>12, <1>13, <1>14 DEF Next, QueueNext

\* What holds of jobs, locks and attempts at every moment.
THEOREM QueueInvariant == Spec => [](TypeOK /\ Named /\ OneHolder /\ Budget)
<1> DEFINE Inv == TypeOK /\ Named /\ OneHolder /\ Budget
<1>1. Init => Inv
  BY ConstantsAssumption DEF Init, TypeOK, Named, OneHolder, Budget, AttemptCeiling, Live
<1>2. Inv /\ [Next]_vars => Inv'
  <2> SUFFICES ASSUME Inv, [Next]_vars  PROVE Inv'
    OBVIOUS
  <2>1. CASE UNCHANGED vars
    BY <2>1 DEF vars, rowVars, jobVars, lateVars, auditVars, obsVars,
                TypeOK, Named, OneHolder, Budget, AttemptCeiling
  <2>2. CASE Next
    BY <2>2, KeepsBudget, RouteTypes, WorkerTypes, QueueTypes, ReplayTypes DEF Next
  <2>3. QED BY <2>1, <2>2
<1>3. QED BY <1>1, <1>2, PTL DEF Spec

\* One submission is run at most MaxAttempts + MaxStalled times, whatever the number
\* of workers, crashes, lost locks and replays.
THEOREM AttemptCeilingHolds == Spec => []AttemptCeiling
<1>1. Budget => AttemptCeiling
  BY DEF Budget
<1>2. QED BY <1>1, QueueInvariant, PTL

-----------------------------------------------------------------------------
(* ProcessedWasHandled.                                                    *)

HandledFirst ==
  \A k \in Workers : run[k].pc \in {"handled", "done"} => handled[run[k].wid] > 0

\* PROCESSED is written by runs whose handler has committed, and nothing else writes it.
LEMMA KeepsHandledFirst ==
  ASSUME TypeOK, Named, HandledFirst, ProcessedWasHandled, Next
  PROVE  HandledFirst' /\ ProcessedWasHandled'
<1> USE DEF rowVars, jobVars, lateVars, auditVars, obsVars
<1>t. /\ status \in [WebhookIds -> Statuses] /\ handled \in [WebhookIds -> Nat]
      /\ run \in [Workers -> [pc : {"idle", "taken", "counted", "handled", "done"},
                             wid : WebhookIds \cup {NoId}, lock : {"none", "held", "lost"}]]
  BY DEF TypeOK
<1> DEFINE Goal == HandledFirst' /\ ProcessedWasHandled'
\* No other status needs a handler.
<1>0. ASSUME UNCHANGED <<run, handled>>,
             \/ UNCHANGED status
             \/ \E w \in WebhookIds, st \in Statuses \ {"PROCESSED"} : status' = [status EXCEPT ![w] = st]
      PROVE  Goal
  BY <1>0, <1>t DEF HandledFirst, ProcessedWasHandled
<1>1. ASSUME RouteNext  PROVE Goal
  <2>0. PICK r \in Requests :
          \/ \E w \in WebhookIds : RejectUnknownApp(r, w) \/ RecordInvalid(r, w) \/ IngestCheck(r, w)
          \/ IngestCreate(r) \/ IngestEnqueue(r) \/ IngestFault(r)
    BY <1>1 DEF RouteNext
  <2>1. UNCHANGED <<run, handled>>
    BY <2>0 DEF RejectUnknownApp, RecordInvalid, IngestCheck, IngestCreate, IngestEnqueue, IngestFault
  <2>2. \/ UNCHANGED status
        \/ \E w \in WebhookIds : status' = [status EXCEPT ![w] = "FAILED"]
        \/ \E w \in WebhookIds : status' = [status EXCEPT ![w] = "RECEIVED"]
    BY <2>0 DEF RejectUnknownApp, RecordInvalid, IngestCheck, IngestCreate, IngestEnqueue, IngestFault, Named
  <2>3. QED BY <1>0, <2>1, <2>2
<1>2. ASSUME QueueNext \/ LateNext  PROVE Goal
  <2>1. UNCHANGED <<run, handled>>
    BY <1>2 DEF QueueNext, LateNext, Evict, BackoffEnds, Stalled, MarkFailedTransient,
                DeadLetterRead, DeadLetterCommit, LateWriteLost
  <2>2. \/ UNCHANGED status
        \/ \E w \in WebhookIds : status' = [status EXCEPT ![w] = "FAILED"]
        \/ \E w \in WebhookIds : status' = [status EXCEPT ![w] = "DEAD_LETTER"]
    BY <1>2 DEF QueueNext, LateNext, Evict, BackoffEnds, Stalled, MarkFailedTransient,
                DeadLetterRead, DeadLetterCommit, LateWriteLost
  <2>3. QED BY <1>0, <2>1, <2>2
<1>3. ASSUME ReplayNext  PROVE Goal
  <2>0. PICK p \in Replays :
          \/ \E w \in WebhookIds : ListFailed(p, w)
          \/ ReplayCommit(p) \/ ReplayRemove(p) \/ ReplayEnqueue(p) \/ ReplayFault(p)
    BY <1>3 DEF ReplayNext
  <2>1. UNCHANGED <<run, handled>>
    BY <2>0 DEF ListFailed, ReplayCommit, ReplayRemove, ReplayEnqueue, ReplayFault
  <2>2. \/ UNCHANGED status
        \/ \E w \in WebhookIds : status' = [status EXCEPT ![w] = "RECEIVED"]
    BY <2>0 DEF ListFailed, ReplayCommit, ReplayRemove, ReplayEnqueue, ReplayFault, Named
  <2>3. QED BY <1>0, <2>1, <2>2
<1>4. ASSUME WorkerNext  PROVE Goal
  <2>0. PICK k \in Workers :
          \/ \E w \in WebhookIds : Take(k, w)
          \/ CountAttempt(k) \/ Handle(k) \/ MarkProcessed(k) \/ Complete(k)
          \/ RunFails(k) \/ RunCrash(k) \/ LoseLock(k)
    BY <1>4 DEF WorkerNext
  <2>1. CASE Handle(k)
    <3>1. /\ run[k].pc = "counted" /\ run[k].wid \in WebhookIds
          /\ handled' = [handled EXCEPT ![run[k].wid] = @ + 1]
          /\ run' = [run EXCEPT ![k].pc = "handled"]
          /\ UNCHANGED status
      BY <2>1 DEF Handle, Step, Named
    <3>2. \A w \in WebhookIds : handled[w] > 0 => handled'[w] > 0
      BY <1>t, <3>1
    <3>3. handled'[run[k].wid] > 0
      BY <1>t, <3>1
    <3>4. ProcessedWasHandled'
      BY <3>1, <3>2 DEF ProcessedWasHandled
    <3>5. HandledFirst'
      BY <1>t, <3>1, <3>2, <3>3 DEF HandledFirst, Named
    <3>6. QED BY <3>4, <3>5
  <2>2. CASE MarkProcessed(k)
    <3>1. /\ run[k].pc = "handled" /\ UNCHANGED handled
          /\ status' = [status EXCEPT ![run[k].wid] = "PROCESSED"]
          /\ run' = [run EXCEPT ![k].pc = "done"]
      BY <2>2 DEF MarkProcessed, Step
    <3>2. QED BY <1>t, <3>1 DEF HandledFirst, ProcessedWasHandled
  <2>3. CASE ~Handle(k) /\ ~MarkProcessed(k)
    <3>1. UNCHANGED <<status, handled>>
      BY <2>0, <2>3 DEF Take, CountAttempt, Complete, RunFails, RunCrash, LoseLock
    <3>2. \/ \E w \in WebhookIds : run' = [run EXCEPT ![k] = [pc |-> "taken", wid |-> w, lock |-> "held"]]
          \/ run' = [run EXCEPT ![k].pc = "counted"]
          \/ run' = [run EXCEPT ![k] = [pc |-> "idle", wid |-> NoId, lock |-> "none"]]
          \/ run' = [run EXCEPT ![k].lock = "lost"]
      BY <2>0, <2>3 DEF Take, CountAttempt, Complete, RunFails, RunCrash, LoseLock, Step, Idle
    <3>3. QED BY <1>t, <3>1, <3>2 DEF HandledFirst, ProcessedWasHandled
  <2>4. QED BY <2>1, <2>2, <2>3
<1>5. QED BY <1>1, <1>2, <1>3, <1>4 DEF Next

\* What holds of handlers and statuses at every moment.
THEOREM ProcessedInvariant == Spec => [](HandledFirst /\ ProcessedWasHandled)
<1> DEFINE Inv == TypeOK /\ Named /\ HandledFirst /\ ProcessedWasHandled
<1>1. Init => Inv
  BY ConstantsAssumption DEF Init, TypeOK, Named, HandledFirst, ProcessedWasHandled
<1>2. Inv /\ [Next]_vars => Inv'
  <2> SUFFICES ASSUME Inv, [Next]_vars  PROVE Inv'
    OBVIOUS
  <2>1. CASE UNCHANGED vars
    BY <2>1 DEF vars, rowVars, jobVars, lateVars, auditVars, obsVars,
                TypeOK, Named, HandledFirst, ProcessedWasHandled
  <2>2. CASE Next
    BY <2>2, KeepsHandledFirst, RouteTypes, WorkerTypes, QueueTypes, ReplayTypes DEF Next
  <2>3. QED BY <2>1, <2>2
<1>3. QED BY <1>1, <1>2, PTL DEF Spec

\* A row that says PROCESSED was processed, whoever wrote the row before and since.
THEOREM ProcessedWasHandledHolds == Spec => []ProcessedWasHandled
BY ProcessedInvariant, PTL

-----------------------------------------------------------------------------
(* DeadLetteredOncePerSubmission.  Every dead letter, written or on its    *)
(* way, and every live job is owed to a submission of its own.             *)

\* An event has finitely many submissions.
LEMMA SubmissionsFinite ==
  ASSUME TypeOK, NEW w \in WebhookIds
  PROVE  IsFiniteSet(submitted[w]) /\ Cardinality(submitted[w]) \in Nat
<1>1. IsFiniteSet(Requests \cup Replays)
  BY ConstantsAssumption, FS_Union
<1>2. submitted[w] \in SUBSET (Requests \cup Replays)
  BY DEF TypeOK
<1>3. QED BY <1>1, <1>2, FS_Subset, FS_CardinalityType

\* An accepted add() is a new submission, because nobody submits twice.
LEMMA EnqueueOwes ==
  ASSUME TypeOK, DeadLetteredOncePerSubmission,
         NEW by \in Requests \cup Replays, NEW w \in WebhookIds, by \notin submitted[w],
         Enqueue(by, w), UNCHANGED <<deadAudits, lateDead, deadChecked>>
  PROVE  DeadLetteredOncePerSubmission'
<1>t. /\ job \in [WebhookIds -> JobStates] /\ submitted \in [WebhookIds -> SUBSET (Requests \cup Replays)]
      /\ deadAudits \in [WebhookIds -> Nat] /\ lateDead \in [WebhookIds -> Nat]
      /\ deadChecked \in [WebhookIds -> Nat]
  BY DEF TypeOK
<1>1. CASE job[w] = "none"
  <2>1. /\ job' = [job EXCEPT ![w] = "waiting"]
        /\ submitted' = [submitted EXCEPT ![w] = @ \cup {by}]
    BY <1>1 DEF Enqueue
  <2>3. IsFiniteSet(submitted[w])
    BY SubmissionsFinite
  <2>4. Cardinality(submitted[w] \cup {by}) = Cardinality(submitted[w]) + 1 /\ Cardinality(submitted[w]) \in Nat
    BY <2>3, FS_AddElement, FS_CardinalityType
  <2>5. ASSUME NEW v \in WebhookIds
        PROVE  deadAudits'[v] + lateDead'[v] + deadChecked'[v] + (IF job'[v] \in Live THEN 1 ELSE 0)
                 <= Cardinality(submitted'[v])
    <3>1. CASE v = w
      <4>1. deadAudits[w] + lateDead[w] + deadChecked[w] + 0 <= Cardinality(submitted[w])
        BY <1>1 DEF DeadLetteredOncePerSubmission, Live
      <4>2. job'[w] = "waiting" /\ submitted'[w] = submitted[w] \cup {by}
        BY <1>t, <2>1
      <4>3. QED BY <1>t, <2>4, <3>1, <4>1, <4>2 DEF Live
    <3>2. CASE v # w
      BY <1>t, <2>1, <3>2 DEF DeadLetteredOncePerSubmission
    <3>3. QED BY <3>1, <3>2
  <2>6. QED BY <2>5 DEF DeadLetteredOncePerSubmission
<1>2. CASE job[w] # "none"
  BY <1>2 DEF Enqueue, jobVars, DeadLetteredOncePerSubmission
<1>3. QED BY <1>1, <1>2

\* Every other step moves what is owed along, or drops it.
LEMMA KeepsOwed ==
  ASSUME TypeOK, Named, OneCreator, ReplayAudited, OneHolder, DeadLetteredOncePerSubmission, Next
  PROVE  DeadLetteredOncePerSubmission'
<1> USE DEF rowVars, jobVars, lateVars, auditVars, obsVars
<1>t. /\ job \in [WebhookIds -> JobStates]
      /\ deadAudits \in [WebhookIds -> Nat] /\ lateDead \in [WebhookIds -> Nat]
      /\ deadChecked \in [WebhookIds -> Nat]
  BY DEF TypeOK
<1>c. \A w \in WebhookIds : Cardinality(submitted[w]) \in Nat
  BY SubmissionsFinite
<1> DEFINE Goal == DeadLetteredOncePerSubmission'
\* Steps that start nothing: no job comes alive, no dead letter is begun.
<1>0. ASSUME UNCHANGED <<submitted, deadAudits, lateDead, deadChecked>>,
             \A w \in WebhookIds : job'[w] \in Live => job[w] \in Live
      PROVE  Goal
  <2>1. ASSUME NEW w \in WebhookIds
        PROVE  (IF job'[w] \in Live THEN 1 ELSE 0) <= (IF job[w] \in Live THEN 1 ELSE 0)
    BY <1>0
  <2>2. QED BY <1>0, <1>t, <1>c, <2>1 DEF DeadLetteredOncePerSubmission
<1>1. ASSUME RouteNext  PROVE Goal
  <2>0. PICK r \in Requests :
          \/ \E w \in WebhookIds : RejectUnknownApp(r, w) \/ RecordInvalid(r, w) \/ IngestCheck(r, w)
          \/ IngestCreate(r) \/ IngestEnqueue(r) \/ IngestFault(r)
    BY <1>1 DEF RouteNext
  <2>1. CASE IngestEnqueue(r)
    <3>1. /\ req[r].pc = "created" /\ req[r].wid \in WebhookIds /\ Enqueue(r, req[r].wid)
          /\ UNCHANGED <<deadAudits, lateDead, deadChecked>>
      BY <2>1 DEF IngestEnqueue, Named
    <3>2. r \notin submitted[req[r].wid]
      BY <3>1 DEF OneCreator
    <3>3. QED BY <3>1, <3>2, EnqueueOwes
  <2>2. CASE ~IngestEnqueue(r)
    <3>1. UNCHANGED <<submitted, deadAudits, lateDead, deadChecked, job>>
      BY <2>0, <2>2 DEF RejectUnknownApp, RecordInvalid, IngestCheck, IngestCreate, IngestFault
    <3>2. QED BY <1>0, <3>1
  <2>3. QED BY <2>1, <2>2
<1>2. ASSUME ReplayNext  PROVE Goal
  <2>0. PICK p \in Replays :
          \/ \E w \in WebhookIds : ListFailed(p, w)
          \/ ReplayCommit(p) \/ ReplayRemove(p) \/ ReplayEnqueue(p) \/ ReplayFault(p)
    BY <1>2 DEF ReplayNext
  <2>1. CASE ReplayEnqueue(p)
    <3>1. /\ rep[p].pc = "removed" /\ rep[p].wid \in WebhookIds /\ Enqueue(p, rep[p].wid)
          /\ UNCHANGED <<deadAudits, lateDead, deadChecked>>
      BY <2>1 DEF ReplayEnqueue, Named
    <3>2. p \notin submitted[rep[p].wid]
      BY <3>1 DEF ReplayAudited
    <3>3. QED BY <3>1, <3>2, EnqueueOwes
  <2>2. CASE ~ReplayEnqueue(p)
    <3>1. UNCHANGED <<submitted, deadAudits, lateDead, deadChecked>>
      BY <2>0, <2>2 DEF ListFailed, ReplayCommit, ReplayRemove, ReplayFault
    <3>2. UNCHANGED job \/ job' = [job EXCEPT ![rep[p].wid] = "none"]
      BY <2>0, <2>2 DEF ListFailed, ReplayCommit, ReplayRemove, ReplayFault
    <3>3. QED BY <1>0, <1>t, <3>1, <3>2 DEF Live
  <2>3. QED BY <2>1, <2>2
<1>3. ASSUME WorkerNext  PROVE Goal
  <2>0. PICK k \in Workers :
          \/ \E w \in WebhookIds : Take(k, w)
          \/ CountAttempt(k) \/ Handle(k) \/ MarkProcessed(k) \/ Complete(k)
          \/ RunFails(k) \/ RunCrash(k) \/ LoseLock(k)
    BY <1>3 DEF WorkerNext
  <2>1. CASE RunFails(k)
    <3> DEFINE w == run[k].wid
    <3>0. w \in WebhookIds /\ UNCHANGED <<submitted, deadAudits, deadChecked>>
      BY <2>1 DEF RunFails, Named
    <3>1. CASE UNCHANGED <<job, lateDead>>
      BY <1>0, <3>0, <3>1
    <3>2. CASE run[k].lock = "held" /\ job' = [job EXCEPT ![w] = "delayed"] /\ UNCHANGED lateDead
      <4>1. job[w] = "active"
        BY <3>2 DEF OneHolder
      <4>2. QED BY <1>0, <1>t, <3>0, <3>2, <4>1 DEF Live
    <3>3. CASE /\ run[k].lock = "held" /\ job' = [job EXCEPT ![w] = "failed"]
               /\ lateDead' = [lateDead EXCEPT ![w] = @ + 1]
      <4>1. job[w] = "active"
        BY <3>3 DEF OneHolder
      <4>2. QED BY <1>t, <3>0, <3>3, <4>1 DEF DeadLetteredOncePerSubmission, Live
    <3>4. QED BY <2>1, <3>1, <3>2, <3>3 DEF RunFails
  <2>2. CASE ~RunFails(k)
    <3>1. UNCHANGED <<submitted, deadAudits, lateDead, deadChecked>>
      BY <2>0, <2>2 DEF Take, CountAttempt, Handle, MarkProcessed, Complete, RunCrash, LoseLock
    <3>2. \/ UNCHANGED job
          \/ \E w \in WebhookIds : job[w] = "waiting" /\ job' = [job EXCEPT ![w] = "active"]
          \/ job' = [job EXCEPT ![run[k].wid] = "completed"]
      BY <2>0, <2>2 DEF Take, CountAttempt, Handle, MarkProcessed, Complete, RunCrash, LoseLock
    <3>3. QED BY <1>0, <1>t, <3>1, <3>2 DEF Live
  <2>3. QED BY <2>1, <2>2
<1>4. ASSUME QueueNext  PROVE Goal
  <2>0. PICK w \in WebhookIds : Evict(w) \/ BackoffEnds(w) \/ Stalled(w)
    BY <1>4 DEF QueueNext
  <2>1. UNCHANGED <<submitted, deadAudits, lateDead, deadChecked>>
    BY <2>0 DEF Evict, BackoffEnds, Stalled
  <2>2. \/ job' = [job EXCEPT ![w] = "none"]
        \/ job' = [job EXCEPT ![w] = "failed"]
        \/ job[w] \in Live /\ job' = [job EXCEPT ![w] = "waiting"]
    BY <2>0 DEF Evict, BackoffEnds, Stalled, Live
  <2>3. QED BY <1>0, <1>t, <2>1, <2>2 DEF Live
<1>5. ASSUME LateNext  PROVE Goal
  <2>0. PICK w \in WebhookIds :
          MarkFailedTransient(w) \/ DeadLetterRead(w) \/ DeadLetterCommit(w) \/ LateWriteLost(w)
    BY <1>5 DEF LateNext
  <2>1. UNCHANGED <<submitted, job>>
    BY <2>0 DEF MarkFailedTransient, DeadLetterRead, DeadLetterCommit, LateWriteLost
  <2>7. ASSUME \A v \in WebhookIds : deadAudits'[v] + lateDead'[v] + deadChecked'[v]
                                      <= deadAudits[v] + lateDead[v] + deadChecked[v]
        PROVE  Goal
    <3>1. /\ deadAudits' \in [WebhookIds -> Nat] /\ lateDead' \in [WebhookIds -> Nat]
          /\ deadChecked' \in [WebhookIds -> Nat]
      BY <1>5, QueueTypes DEF TypeOK
    <3>2. QED BY <1>t, <1>c, <2>1, <2>7, <3>1 DEF DeadLetteredOncePerSubmission
  <2>2. CASE MarkFailedTransient(w)
    BY <1>0, <2>1, <2>2 DEF MarkFailedTransient
  <2>3. CASE DeadLetterRead(w)
    <3>1. ASSUME NEW v \in WebhookIds
          PROVE  deadAudits'[v] + lateDead'[v] + deadChecked'[v] <= deadAudits[v] + lateDead[v] + deadChecked[v]
      BY <1>t, <2>3 DEF DeadLetterRead
    <3>2. QED BY <2>1, <2>7, <3>1
  <2>4. CASE DeadLetterCommit(w)
    BY <1>t, <2>1, <2>4 DEF DeadLetterCommit, DeadLetteredOncePerSubmission
  <2>5. CASE LateWriteLost(w)
    <3>1. ASSUME NEW v \in WebhookIds
          PROVE  deadAudits'[v] + lateDead'[v] + deadChecked'[v] <= deadAudits[v] + lateDead[v] + deadChecked[v]
      BY <1>t, <2>5 DEF LateWriteLost
    <3>2. QED BY <2>1, <2>7, <3>1
  <2>6. QED BY <2>0, <2>2, <2>3, <2>4, <2>5
<1>6. QED BY <1>1, <1>2, <1>3, <1>4, <1>5 DEF Next

\* However stalls, failures, lost writes, racing dead-letter transactions and replays
\* interleave, an event is never dead-lettered twice for one submission, nor while
\* the job of that submission can still run.
THEOREM DeadLetteredOnceHolds == Spec => []DeadLetteredOncePerSubmission
<1> DEFINE Inv == DeadLetteredOncePerSubmission
           Aux == TypeOK /\ Named /\ OneCreator /\ ReplayAudited /\ OneHolder /\ Budget
<1>1. Init => Inv
  <2> SUFFICES ASSUME Init, NEW w \in WebhookIds
               PROVE  deadAudits[w] + lateDead[w] + deadChecked[w] + (IF job[w] \in Live THEN 1 ELSE 0)
                        <= Cardinality(submitted[w])
    BY DEF DeadLetteredOncePerSubmission
  <2>1. submitted[w] = {} /\ job[w] = "none" /\ deadAudits[w] = 0 /\ lateDead[w] = 0 /\ deadChecked[w] = 0
    BY DEF Init
  <2>2. QED BY <2>1, FS_EmptySet DEF Live
<1>2. Aux /\ Inv /\ [Next]_vars => Inv'
  <2> SUFFICES ASSUME Aux, Inv, [Next]_vars  PROVE Inv'
    OBVIOUS
  <2>1. CASE UNCHANGED vars
    BY <2>1 DEF vars, jobVars, lateVars, auditVars, obsVars, DeadLetteredOncePerSubmission
  <2>2. CASE Next
    BY <2>2, KeepsOwed
  <2>3. QED BY <2>1, <2>2
<1>3. Spec => []Aux
  BY DeliveryInvariant, QueueInvariant, PTL
<1>4. QED BY <1>1, <1>2, <1>3, PTL DEF Spec

\* A verified event is enqueued by one delivery and each submission dead-lettered at most
\* once, however deliveries, runs, late writes and replays interleave.
THEOREM SubmittedOnceHolds == Spec => []SubmittedOnce
<1>1. EnqueuedOnce /\ DeadLetteredOncePerSubmission => SubmittedOnce
  BY DEF SubmittedOnce
<1>2. QED BY <1>1, EnqueuedOnceHolds, DeadLetteredOnceHolds, PTL

-----------------------------------------------------------------------------
(* KeepsPromise.  A delivery or replay has taken on nothing before it      *)
(* calls add(), a replay is on the record from its transaction on, and     *)
(* there is no job and no late mark of an event nobody has taken on.       *)

OnRecord ==
  /\ \A r \in Requests : req[r].pc \in {"idle", "checked", "created"} =>
       \A w \in WebhookIds : r \notin submitted[w]
  /\ \A p \in Replays :
       /\ rep[p].pc \in {"idle", "listed"} => \A w \in WebhookIds : p \notin replayAudits[w]
       /\ rep[p].pc # "idle" => status[rep[p].wid] # "absent"
  /\ \A w \in WebhookIds : submitted[w] = {} => job[w] = "none" /\ lateFailed[w] = 0

LEMMA KeepsOnRecord ==
  ASSUME TypeOK, Named, OneCreator, OneHolder, OnRecord, Next
  PROVE  OnRecord'
<1> USE DEF rowVars, jobVars, lateVars, auditVars, obsVars
<1>t. /\ req \in [Requests -> [pc : {"idle", "checked", "created", "acked", "refused"},
                              wid : WebhookIds \cup {NoId}]]
      /\ rep \in [Replays -> [pc : {"idle", "listed", "committed", "removed", "done", "failed"},
                              wid : WebhookIds \cup {NoId}]]
      /\ status \in [WebhookIds -> Statuses] /\ job \in [WebhookIds -> JobStates]
      /\ submitted \in [WebhookIds -> SUBSET (Requests \cup Replays)]
      /\ replayAudits \in [WebhookIds -> SUBSET Replays]
      /\ lateFailed \in [WebhookIds -> Nat]
  BY DEF TypeOK
<1>d. Requests \cap Replays = {}
  BY ConstantsAssumption
<1> DEFINE Fresh == \A r \in Requests : req[r].pc \in {"idle", "checked", "created"} =>
                      \A w \in WebhookIds : r \notin submitted[w]
           Listed == \A p \in Replays :
                       /\ rep[p].pc \in {"idle", "listed"} => \A w \in WebhookIds : p \notin replayAudits[w]
                       /\ rep[p].pc # "idle" => status[rep[p].wid] # "absent"
           Idle0 == \A w \in WebhookIds : submitted[w] = {} => job[w] = "none" /\ lateFailed[w] = 0
<1>a. OnRecord <=> Fresh /\ Listed /\ Idle0
  BY DEF OnRecord
<1>b. OnRecord' <=> Fresh' /\ Listed' /\ Idle0'
  BY DEF OnRecord
<1>c. Fresh /\ Listed /\ Idle0
  BY <1>a
\* An accepted add() leaves a submission behind.
<1>e. ASSUME NEW by \in Requests \cup Replays, NEW w \in WebhookIds, Enqueue(by, w), UNCHANGED lateFailed
      PROVE  Idle0'
  <2>1. CASE job[w] = "none"
    <3>1. /\ job' = [job EXCEPT ![w] = "waiting"]
          /\ submitted' = [submitted EXCEPT ![w] = @ \cup {by}]
      BY <1>e, <2>1 DEF Enqueue
    <3>2. submitted'[w] = submitted[w] \cup {by}
      BY <1>t, <3>1
    <3>3. \A v \in WebhookIds : v # w => submitted'[v] = submitted[v] /\ job'[v] = job[v]
      BY <1>t, <3>1
    <3>4. QED BY <1>c, <1>e, <3>2, <3>3
  <2>2. CASE job[w] # "none"
    BY <1>c, <1>e, <2>2 DEF Enqueue
  <2>3. QED BY <2>1, <2>2
<1>1. ASSUME RouteNext  PROVE OnRecord'
  <2>0. PICK r \in Requests :
          \/ \E w \in WebhookIds : RejectUnknownApp(r, w) \/ RecordInvalid(r, w) \/ IngestCheck(r, w)
          \/ IngestCreate(r) \/ IngestEnqueue(r) \/ IngestFault(r)
    BY <1>1 DEF RouteNext
  <2>1. UNCHANGED <<rep, replayAudits, lateFailed>>
    BY <2>0 DEF RejectUnknownApp, RecordInvalid, IngestCheck, IngestCreate, IngestEnqueue, IngestFault
  <2>2. \A w \in WebhookIds : status[w] # "absent" => status'[w] # "absent"
    <3>1. \/ UNCHANGED status
          \/ \E w \in WebhookIds : status' = [status EXCEPT ![w] = "FAILED"]
          \/ \E w \in WebhookIds : status' = [status EXCEPT ![w] = "RECEIVED"]
      BY <2>0 DEF RejectUnknownApp, RecordInvalid, IngestCheck, IngestCreate, IngestEnqueue, IngestFault, Named
    <3>2. QED BY <1>t, <3>1
  <2>3. Listed'
    BY <1>c, <2>1, <2>2 DEF Named
  <2>4. CASE IngestEnqueue(r)
    <3>1. /\ req[r].pc = "created" /\ req[r].wid \in WebhookIds /\ Enqueue(r, req[r].wid)
          /\ req' = [req EXCEPT ![r].pc = "acked"]
      BY <2>4 DEF IngestEnqueue, Answer, Named
    <3>2. Fresh'
      <4>1. \A v \in WebhookIds : submitted'[v] = submitted[v] \/ submitted'[v] = submitted[v] \cup {r}
        BY <3>1, EnqueueSubmits
      <4>2. \A q \in Requests : q # r => req'[q] = req[q]
        BY <1>t, <3>1
      <4>3. req'[r].pc = "acked"
        BY <1>t, <3>1
      <4>4. QED BY <1>c, <4>1, <4>2, <4>3
    <3>3. Idle0'
      BY <1>e, <2>1, <3>1
    <3>4. QED BY <1>b, <2>3, <3>2, <3>3
  <2>5. CASE ~IngestEnqueue(r)
    <3>1. UNCHANGED <<submitted, job>>
      BY <2>0, <2>5 DEF RejectUnknownApp, RecordInvalid, IngestCheck, IngestCreate, IngestFault
    <3>2. \A q \in Requests : q # r => req'[q] = req[q]
      BY <1>t, <2>0, <2>5 DEF RejectUnknownApp, RecordInvalid, IngestCheck, IngestCreate, IngestFault,
                              Delivery, Answer
    <3>3. req[r].pc \in {"idle", "checked", "created"}
      BY <2>0, <2>5 DEF RejectUnknownApp, RecordInvalid, IngestCheck, IngestCreate, IngestFault, Delivery
    <3>4. Fresh'
      BY <1>c, <3>1, <3>2, <3>3
    <3>5. QED BY <1>b, <1>c, <2>1, <2>3, <3>1, <3>4
  <2>6. QED BY <2>4, <2>5
<1>2. ASSUME ReplayNext  PROVE OnRecord'
  <2>0. PICK p \in Replays :
          \/ \E w \in WebhookIds : ListFailed(p, w)
          \/ ReplayCommit(p) \/ ReplayRemove(p) \/ ReplayEnqueue(p) \/ ReplayFault(p)
    BY <1>2 DEF ReplayNext
  <2>1. UNCHANGED <<req, lateFailed>>
    BY <2>0 DEF ListFailed, ReplayCommit, ReplayRemove, ReplayEnqueue, ReplayFault
  <2>2. \A w \in WebhookIds : status[w] # "absent" => status'[w] # "absent"
    BY <1>2, OthersKeepRows
  <2>3. Listed'
    <3>1. \A q \in Replays : q # p => rep'[q] = rep[q]
      BY <1>t, <2>0 DEF ListFailed, ReplayCommit, ReplayRemove, ReplayEnqueue, ReplayFault, RepStep
    <3>2. \A w \in WebhookIds : replayAudits'[w] = replayAudits[w] \/ replayAudits'[w] = replayAudits[w] \cup {p}
      BY <1>t, <2>0 DEF ListFailed, ReplayCommit, ReplayRemove, ReplayEnqueue, ReplayFault
    <3>3. ASSUME NEW q \in Replays, q # p
          PROVE  /\ rep'[q].pc \in {"idle", "listed"} => \A w \in WebhookIds : q \notin replayAudits'[w]
                 /\ rep'[q].pc # "idle" => status'[rep'[q].wid] # "absent"
      BY <1>c, <2>2, <3>1, <3>2, <3>3 DEF Named
    <3>4. /\ rep'[p].pc \in {"idle", "listed"} => \A w \in WebhookIds : p \notin replayAudits'[w]
          /\ rep'[p].pc # "idle" => status'[rep'[p].wid] # "absent"
      <4>1. CASE \E w \in WebhookIds : ListFailed(p, w)
        <5>1. PICK w \in WebhookIds : ListFailed(p, w)
          BY <4>1
        <5>2. /\ rep[p].pc = "idle" /\ status[w] # "absent" /\ UNCHANGED <<status, replayAudits>>
              /\ rep'[p] = [pc |-> "listed", wid |-> w]
          BY <1>t, <5>1 DEF ListFailed
        <5>3. QED BY <1>c, <5>2
      <4>2. CASE ~\E w \in WebhookIds : ListFailed(p, w)
        <5>1. rep[p].pc # "idle"
          BY <2>0, <4>2 DEF ReplayCommit, ReplayRemove, ReplayEnqueue, ReplayFault
        <5>2. rep'[p].wid = rep[p].wid /\ rep'[p].pc \in {"committed", "removed", "done", "failed"}
          BY <1>t, <2>0, <4>2 DEF ReplayCommit, ReplayRemove, ReplayEnqueue, ReplayFault, RepStep
        <5>3. QED BY <1>c, <2>2, <5>1, <5>2 DEF Named
      <4>3. QED BY <4>1, <4>2
    <3>5. QED BY <3>3, <3>4
  <2>4. Fresh'
    <3>1. \A w \in WebhookIds : submitted'[w] = submitted[w] \/ submitted'[w] = submitted[w] \cup {p}
      <4>1. CASE ReplayEnqueue(p)
        <5>1. rep[p].wid \in WebhookIds /\ Enqueue(p, rep[p].wid)
          BY <4>1 DEF ReplayEnqueue, Named
        <5>2. QED BY <5>1, EnqueueSubmits
      <4>2. CASE ~ReplayEnqueue(p)
        BY <2>0, <4>2 DEF ListFailed, ReplayCommit, ReplayRemove, ReplayFault
      <4>3. QED BY <4>1, <4>2
    <3>2. QED BY <1>c, <1>d, <2>1, <3>1
  <2>5. Idle0'
    <3>1. CASE ReplayEnqueue(p)
      <4>1. rep[p].wid \in WebhookIds /\ Enqueue(p, rep[p].wid)
        BY <3>1 DEF ReplayEnqueue, Named
      <4>2. QED BY <1>e, <2>1, <4>1
    <3>2. CASE ~ReplayEnqueue(p)
      <4>1. UNCHANGED submitted
        BY <2>0, <3>2 DEF ListFailed, ReplayCommit, ReplayRemove, ReplayFault
      <4>2. UNCHANGED job \/ job' = [job EXCEPT ![rep[p].wid] = "none"]
        BY <2>0, <3>2 DEF ListFailed, ReplayCommit, ReplayRemove, ReplayFault
      <4>3. \A w \in WebhookIds : job[w] = "none" => job'[w] = "none"
        BY <1>t, <4>2
      <4>4. QED BY <1>c, <2>1, <4>1, <4>3
    <3>3. QED BY <3>1, <3>2
  <2>6. QED BY <1>b, <2>3, <2>4, <2>5
<1>3. ASSUME WorkerNext \/ QueueNext \/ LateNext  PROVE OnRecord'
  <2>1. UNCHANGED <<submitted, rep, replayAudits>>
    BY <1>3, OthersEnqueueNothing
  <2>2. UNCHANGED req /\ \A w \in WebhookIds : status[w] # "absent" => status'[w] # "absent"
    BY <1>3, OthersKeepRows
  <2>3. Fresh'
    BY <1>c, <2>1, <2>2
  <2>4. Listed'
    BY <1>c, <2>1, <2>2 DEF Named
  <2>5. \A w \in WebhookIds : job[w] = "none" => job'[w] = "none" /\ lateFailed'[w] <= lateFailed[w]
    <3>1. CASE WorkerNext
      <4>0. PICK k \in Workers :
              \/ \E w \in WebhookIds : Take(k, w)
              \/ CountAttempt(k) \/ Handle(k) \/ MarkProcessed(k) \/ Complete(k)
              \/ RunFails(k) \/ RunCrash(k) \/ LoseLock(k)
        BY <3>1 DEF WorkerNext
      <4>1. \/ UNCHANGED <<job, lateFailed>>
            \/ \E w \in WebhookIds :
                 /\ job[w] # "none" /\ \E s \in JobStates : job' = [job EXCEPT ![w] = s]
                 /\ UNCHANGED lateFailed \/ lateFailed' = [lateFailed EXCEPT ![w] = @ + 1]
        <5>1. CASE RunFails(k) \/ Complete(k)
          <6>1. CASE run[k].lock = "held"
            <7>1. run[k].wid \in WebhookIds /\ job[run[k].wid] = "active"
              BY <6>1 DEF OneHolder
            <7>2. \E s \in JobStates : job' = [job EXCEPT ![run[k].wid] = s]
              <8>1. \/ job' = [job EXCEPT ![run[k].wid] = "delayed"]
                    \/ job' = [job EXCEPT ![run[k].wid] = "failed"]
                    \/ job' = [job EXCEPT ![run[k].wid] = "completed"]
                BY <5>1, <6>1 DEF RunFails, Complete
              <8>2. QED BY <8>1
            <7>3. UNCHANGED lateFailed \/ lateFailed' = [lateFailed EXCEPT ![run[k].wid] = @ + 1]
              BY <5>1, <6>1 DEF RunFails, Complete
            <7>4. QED BY <7>1, <7>2, <7>3
          <6>2. CASE run[k].lock # "held"
            BY <5>1, <6>2 DEF RunFails, Complete
          <6>3. QED BY <6>1, <6>2
        <5>2. CASE \E w \in WebhookIds : Take(k, w)
          <6>1. PICK w \in WebhookIds : Take(k, w)
            BY <5>2
          <6>2. /\ job[w] = "waiting" /\ job' = [job EXCEPT ![w] = "active"] /\ "active" \in JobStates
                /\ UNCHANGED lateFailed
            BY <6>1 DEF Take
          <6>3. QED BY <6>2
        <5>3. CASE CountAttempt(k) \/ Handle(k) \/ MarkProcessed(k) \/ RunCrash(k) \/ LoseLock(k)
          BY <5>3 DEF CountAttempt, Handle, MarkProcessed, RunCrash, LoseLock
        <5>4. QED BY <4>0, <5>1, <5>2, <5>3
      <4>2. QED BY <1>t, <4>1
    <3>2. CASE QueueNext
      BY <1>t, <3>2 DEF QueueNext, Evict, BackoffEnds, Stalled
    <3>3. CASE LateNext
      BY <1>t, <3>3 DEF LateNext, MarkFailedTransient, DeadLetterRead, DeadLetterCommit, LateWriteLost
    <3>4. QED BY <1>3, <3>1, <3>2, <3>3
  <2>6. lateFailed' \in [WebhookIds -> Nat]
    BY <1>3, WorkerTypes, QueueTypes DEF TypeOK
  <2>7. Idle0'
    BY <1>c, <1>t, <2>1, <2>5, <2>6
  <2>8. QED BY <1>b, <2>3, <2>4, <2>7
<1>4. QED BY <1>1, <1>2, <1>3 DEF Next

\* The runs that are going to handle an event.
Pending(w) == {k \in Workers : run[k].wid = w /\ run[k].pc \in {"taken", "counted"}}

Ceiling == MaxAttempts + MaxStalled

\* The runs that the present job of an event may still get.
Left(w) == IF job[w] \in Live THEN Ceiling - taken[w] ELSE 0

\* What an event was handled, is going to be and may still be, its submissions pay for.
HandlingsPaid ==
  \A w \in WebhookIds :
    /\ IsFiniteSet(Pending(w))
    /\ handled[w] + Cardinality(Pending(w)) + Left(w) <= Ceiling * Cardinality(submitted[w])

\* A step that takes no job, handles nothing and submits nothing.
LEMMA PaidStays ==
  ASSUME TypeOK, Budget, HandlingsPaid, UNCHANGED <<submitted, taken, handled>>,
         \A w \in WebhookIds : job'[w] \in Live => job[w] \in Live,
         \A w \in WebhookIds : Pending(w)' \subseteq Pending(w)
  PROVE  HandlingsPaid'
<1> SUFFICES ASSUME NEW w \in WebhookIds
             PROVE  /\ IsFiniteSet(Pending(w)')
                    /\ handled[w] + Cardinality(Pending(w)') + Left(w)' <= Ceiling * Cardinality(submitted[w])
  BY DEF HandlingsPaid, Ceiling
<1>1. IsFiniteSet(Pending(w)) /\ handled[w] + Cardinality(Pending(w)) + Left(w) <= Ceiling * Cardinality(submitted[w])
  BY DEF HandlingsPaid
<1>2. IsFiniteSet(Pending(w)') /\ Cardinality(Pending(w)') <= Cardinality(Pending(w))
  <2>1. Pending(w)' \in SUBSET Pending(w)
    OBVIOUS
  <2>2. QED BY <1>1, <2>1, FS_Subset
<1>3. Cardinality(Pending(w)') \in Nat /\ Cardinality(Pending(w)) \in Nat
  BY <1>1, <1>2, FS_CardinalityType
<1>4. Left(w)' <= Left(w) /\ Left(w)' \in Nat /\ Left(w) \in Nat
  <2>1. taken[w] \in Nat /\ Ceiling \in Nat /\ taken[w] <= Ceiling
    BY ConstantsAssumption DEF TypeOK, Budget, AttemptCeiling, Ceiling
  <2>2. QED BY <2>1 DEF Left, Ceiling
<1>5. Ceiling * Cardinality(submitted[w]) \in Nat /\ handled[w] \in Nat
  <2>1. Ceiling \in Nat /\ Cardinality(submitted[w]) \in Nat
    BY SubmissionsFinite, ConstantsAssumption DEF Ceiling
  <2>2. \A m, n \in Nat : m * n \in Nat
    OBVIOUS
  <2>3. QED BY <2>1, <2>2 DEF TypeOK
<1> DEFINE bound == Ceiling * Cardinality(submitted[w])
           before == Cardinality(Pending(w))
           after == Cardinality(Pending(w)')
           left == Left(w)
           leftAfter == Left(w)'
<1>6. /\ bound \in Nat /\ before \in Nat /\ after \in Nat /\ left \in Nat /\ leftAfter \in Nat
      /\ handled[w] \in Nat /\ handled[w] + before + left <= bound /\ after <= before /\ leftAfter <= left
  BY <1>1, <1>2, <1>3, <1>4, <1>5
<1> HIDE DEF bound, before, after, left, leftAfter
<1>7. handled[w] + after + leftAfter <= bound
  BY <1>6
<1>8. QED BY <1>2, <1>7 DEF bound, after, leftAfter

\* An accepted add() pays for the runs of its job.
LEMMA PaidByEnqueue ==
  ASSUME TypeOK, HandlingsPaid, NEW by \in Requests \cup Replays, NEW w \in WebhookIds,
         by \notin submitted[w], Enqueue(by, w), UNCHANGED <<run, handled>>
  PROVE  HandlingsPaid'
<1>p. \A v \in WebhookIds : Pending(v)' = Pending(v)
  BY DEF Pending
<1>1. CASE job[w] = "none"
  <2>1. /\ job' = [job EXCEPT ![w] = "waiting"] /\ taken' = [taken EXCEPT ![w] = 0]
        /\ submitted' = [submitted EXCEPT ![w] = @ \cup {by}]
    BY <1>1 DEF Enqueue
  <2>2. /\ job'[w] = "waiting" /\ taken'[w] = 0 /\ submitted'[w] = submitted[w] \cup {by}
        /\ \A v \in WebhookIds : v # w =>
             job'[v] = job[v] /\ taken'[v] = taken[v] /\ submitted'[v] = submitted[v]
    BY <2>1 DEF TypeOK
  <2>3. Cardinality(submitted'[w]) = Cardinality(submitted[w]) + 1 /\ Cardinality(submitted[w]) \in Nat
    BY <2>2, SubmissionsFinite, FS_AddElement
  <2>4. Left(w) = 0 /\ Left(w)' = Ceiling /\ Ceiling \in Nat
    BY <1>1, <2>2, ConstantsAssumption DEF Left, Live, Ceiling
  <2>5. IsFiniteSet(Pending(w)) /\ handled[w] + Cardinality(Pending(w)) + 0 <= Ceiling * Cardinality(submitted[w])
    BY <2>4 DEF HandlingsPaid
  <2>6. handled[w] \in Nat /\ Cardinality(Pending(w)) \in Nat
    BY <2>5, FS_CardinalityType DEF TypeOK
  <2>7. handled[w] + Cardinality(Pending(w)) + Ceiling <= Ceiling * Cardinality(submitted'[w])
    <3>1. \A c, n, h, p \in Nat : h + p + 0 <= c * n => h + p + c <= c * (n + 1)
      OBVIOUS
    <3>2. QED BY <2>3, <2>4, <2>5, <2>6, <3>1
  <2>8. ASSUME NEW v \in WebhookIds
        PROVE  /\ IsFiniteSet(Pending(v)')
               /\ handled'[v] + Cardinality(Pending(v)') + Left(v)' <= Ceiling * Cardinality(submitted'[v])
    <3>1. CASE v = w
      BY <1>p, <2>4, <2>5, <2>7, <3>1
    <3>2. CASE v # w
      <4>1. Left(v)' = Left(v)
        BY <2>2, <3>2 DEF Left, Ceiling
      <4>2. IsFiniteSet(Pending(v)) /\ handled[v] + Cardinality(Pending(v)) + Left(v) <= Ceiling * Cardinality(submitted[v])
        BY DEF HandlingsPaid
      <4>3. QED BY <1>p, <2>2, <3>2, <4>1, <4>2
    <3>3. QED BY <3>1, <3>2
  <2>9. QED BY <2>8 DEF HandlingsPaid, Ceiling
<1>2. CASE job[w] # "none"
  <2>1. UNCHANGED <<job, taken, submitted>>
    BY <1>2 DEF Enqueue, jobVars
  <2>2. \A v \in WebhookIds : Left(v)' = Left(v)
    BY <2>1 DEF Left, Ceiling
  <2>3. QED BY <1>p, <2>1, <2>2 DEF HandlingsPaid, Ceiling
<1>3. QED BY <1>1, <1>2

\* A worker that takes a job uses one of the runs that are left, and handling one that is pending.
LEMMA KeepsPaid ==
  ASSUME TypeOK, TypeOK', Named, OneCreator, ReplayAudited, OneHolder, Budget, Budget', HandlingsPaid, Next
  PROVE  HandlingsPaid'
<1> USE DEF rowVars, jobVars, lateVars, auditVars, obsVars
<1>t. /\ job \in [WebhookIds -> JobStates] /\ taken \in [WebhookIds -> Nat] /\ handled \in [WebhookIds -> Nat]
      /\ run \in [Workers -> [pc : {"idle", "taken", "counted", "handled", "done"},
                             wid : WebhookIds \cup {NoId}, lock : {"none", "held", "lost"}]]
  BY DEF TypeOK
<1>b. ASSUME NEW w \in WebhookIds
      PROVE  /\ IsFiniteSet(Pending(w)) /\ Cardinality(Pending(w)) \in Nat
             /\ handled[w] + Cardinality(Pending(w)) + Left(w) <= Ceiling * Cardinality(submitted[w])
             /\ Ceiling * Cardinality(submitted[w]) \in Nat
  <2>1. IsFiniteSet(Pending(w)) /\ handled[w] + Cardinality(Pending(w)) + Left(w) <= Ceiling * Cardinality(submitted[w])
    BY DEF HandlingsPaid
  <2>2. Ceiling \in Nat /\ Cardinality(submitted[w]) \in Nat
    BY SubmissionsFinite, ConstantsAssumption DEF Ceiling
  <2>3. \A m, n \in Nat : m * n \in Nat
    OBVIOUS
  <2>4. QED BY <2>1, <2>2, <2>3, FS_CardinalityType
<1>1. ASSUME NEW k \in Workers, NEW w \in WebhookIds, Take(k, w)  PROVE HandlingsPaid'
  <2>1. /\ run[k].pc = "idle" /\ job[w] = "waiting" /\ job' = [job EXCEPT ![w] = "active"]
        /\ run' = [run EXCEPT ![k] = [pc |-> "taken", wid |-> w, lock |-> "held"]]
        /\ taken' = [taken EXCEPT ![w] = @ + 1]
        /\ UNCHANGED <<submitted, handled>>
    BY <1>1 DEF Take
  <2>2. ASSUME NEW v \in WebhookIds, v # w
        PROVE  Pending(v)' = Pending(v) /\ Left(v)' = Left(v)
    <3>1. \A j \in Workers : j # k => run'[j] = run[j]
      BY <1>t, <2>1
    <3>2. run'[k].wid = w
      BY <1>t, <2>1
    <3>3. job'[v] = job[v] /\ taken'[v] = taken[v]
      BY <1>t, <2>1, <2>2
    <3>4. QED BY <2>1, <2>2, <3>1, <3>2, <3>3 DEF Pending, Left, Ceiling
  <2>3. Pending(w)' = Pending(w) \cup {k} /\ k \notin Pending(w)
    BY <1>t, <2>1 DEF Pending
  <2>4. Cardinality(Pending(w)') = Cardinality(Pending(w)) + 1 /\ IsFiniteSet(Pending(w)')
    BY <1>b, <2>3, FS_AddElement
  <2>5. Left(w)' = Left(w) - 1 /\ Left(w) \in Int
    <3>1. job[w] \in Live /\ job'[w] \in Live /\ taken'[w] = taken[w] + 1
      BY <1>t, <2>1 DEF Live
    <3>2. taken[w] \in Nat /\ Ceiling \in Nat
      BY <1>t, ConstantsAssumption DEF Ceiling
    <3>3. QED BY <3>1, <3>2 DEF Left, Ceiling
  <2>6. handled[w] + Cardinality(Pending(w)') + Left(w)' <= Ceiling * Cardinality(submitted[w])
    <3>1. \A h, p, b \in Nat, l \in Int : h + p + l <= b => h + (p + 1) + (l - 1) <= b
      OBVIOUS
    <3>2. QED BY <1>b, <1>t, <2>4, <2>5, <3>1
  <2>7. ASSUME NEW v \in WebhookIds
        PROVE  /\ IsFiniteSet(Pending(v)')
               /\ handled'[v] + Cardinality(Pending(v)') + Left(v)' <= Ceiling * Cardinality(submitted'[v])
    <3>1. CASE v = w
      BY <2>1, <2>4, <2>6, <3>1
    <3>2. CASE v # w
      BY <1>b, <2>1, <2>2, <3>2
    <3>3. QED BY <3>1, <3>2
  <2>8. QED BY <2>7 DEF HandlingsPaid, Ceiling
<1>2. ASSUME NEW k \in Workers, Handle(k)  PROVE HandlingsPaid'
  <2> DEFINE w == run[k].wid
  <2>1. /\ run[k].pc = "counted" /\ w \in WebhookIds /\ run' = [run EXCEPT ![k].pc = "handled"]
        /\ handled' = [handled EXCEPT ![w] = @ + 1]
        /\ UNCHANGED <<submitted, job, taken>>
    BY <1>2 DEF Handle, Step, Named
  <2>2. ASSUME NEW v \in WebhookIds, v # w
        PROVE  Pending(v)' = Pending(v) /\ handled'[v] = handled[v]
    <3>1. \A j \in Workers : j # k => run'[j] = run[j]
      BY <1>t, <2>1
    <3>2. run'[k].wid = w
      BY <1>t, <2>1
    <3>3. QED BY <1>t, <2>1, <2>2, <3>1, <3>2 DEF Pending
  <2>3. Pending(w)' = Pending(w) \ {k} /\ k \in Pending(w)
    BY <1>t, <2>1 DEF Pending
  <2>4. Cardinality(Pending(w)') = Cardinality(Pending(w)) - 1 /\ IsFiniteSet(Pending(w)')
    <3>1. IsFiniteSet(Pending(w))
      BY <1>b, <2>1
    <3>2. /\ IsFiniteSet(Pending(w) \ {k})
          /\ Cardinality(Pending(w) \ {k}) = IF k \in Pending(w) THEN Cardinality(Pending(w)) - 1 ELSE Cardinality(Pending(w))
      BY <3>1, FS_RemoveElement
    <3>3. QED BY <2>3, <3>2
  <2>5. \A v \in WebhookIds : Left(v)' = Left(v)
    BY <2>1 DEF Left, Ceiling
  <2>6. handled'[w] = handled[w] + 1 /\ handled[w] \in Nat
    BY <1>t, <2>1
  <2>7. Left(w) \in Int
    <3>1. taken[w] \in Nat /\ Ceiling \in Nat
      BY <1>t, <2>1, ConstantsAssumption DEF Ceiling
    <3>2. QED BY <3>1 DEF Left
  <2>8. handled'[w] + Cardinality(Pending(w)') + Left(w) <= Ceiling * Cardinality(submitted[w])
    <3>1. \A h, p, b \in Nat, l \in Int : h + p + l <= b => (h + 1) + (p - 1) + l <= b
      OBVIOUS
    <3>2. QED BY <1>b, <2>1, <2>4, <2>6, <2>7, <3>1
  <2>9. ASSUME NEW v \in WebhookIds
        PROVE  /\ IsFiniteSet(Pending(v)')
               /\ handled'[v] + Cardinality(Pending(v)') + Left(v)' <= Ceiling * Cardinality(submitted'[v])
    <3>1. CASE v = w
      BY <2>1, <2>4, <2>5, <2>8, <3>1
    <3>2. CASE v # w
      BY <1>b, <2>1, <2>2, <2>5, <3>2
    <3>3. QED BY <3>1, <3>2
  <2>10. QED BY <2>9 DEF HandlingsPaid, Ceiling
<1>3. ASSUME NEW k \in Workers,
             CountAttempt(k) \/ MarkProcessed(k) \/ Complete(k) \/ RunFails(k) \/ RunCrash(k) \/ LoseLock(k)
      PROVE  HandlingsPaid'
  <2>1. UNCHANGED <<submitted, taken, handled>>
    BY <1>3 DEF CountAttempt, MarkProcessed, Complete, RunFails, RunCrash, LoseLock
  <2>2. \/ UNCHANGED job
        \/ job' = [job EXCEPT ![run[k].wid] = "completed"]
        \/ job' = [job EXCEPT ![run[k].wid] = "failed"]
        \/ /\ run[k].lock = "held" /\ job' = [job EXCEPT ![run[k].wid] = "delayed"]
    BY <1>3 DEF CountAttempt, MarkProcessed, Complete, RunFails, RunCrash, LoseLock
  <2>3. \A w \in WebhookIds : job'[w] \in Live => job[w] \in Live
    BY <1>t, <2>2 DEF OneHolder, Live
  <2>4. \/ run[k].pc = "taken" /\ run' = [run EXCEPT ![k].pc = "counted"]
        \/ run' = [run EXCEPT ![k].pc = "done"]
        \/ run' = [run EXCEPT ![k] = [pc |-> "idle", wid |-> NoId, lock |-> "none"]]
        \/ run' = [run EXCEPT ![k].lock = "lost"]
    BY <1>3 DEF CountAttempt, MarkProcessed, Complete, RunFails, RunCrash, LoseLock, Step, Idle
  <2>5. \A w \in WebhookIds : Pending(w)' \subseteq Pending(w)
    BY <1>t, <2>4 DEF Pending
  <2>6. QED BY <2>1, <2>3, <2>5, PaidStays
<1>4. ASSUME WorkerNext  PROVE HandlingsPaid'
  BY <1>1, <1>2, <1>3, <1>4 DEF WorkerNext
<1>5. ASSUME RouteNext  PROVE HandlingsPaid'
  <2>0. PICK r \in Requests :
          \/ \E w \in WebhookIds : RejectUnknownApp(r, w) \/ RecordInvalid(r, w) \/ IngestCheck(r, w)
          \/ IngestCreate(r) \/ IngestEnqueue(r) \/ IngestFault(r)
    BY <1>5 DEF RouteNext
  <2>1. CASE IngestEnqueue(r)
    <3>1. /\ req[r].pc = "created" /\ req[r].wid \in WebhookIds /\ Enqueue(r, req[r].wid)
          /\ UNCHANGED <<run, handled>>
      BY <2>1 DEF IngestEnqueue, Named
    <3>2. r \notin submitted[req[r].wid]
      BY <3>1 DEF OneCreator
    <3>3. QED BY <3>1, <3>2, PaidByEnqueue
  <2>2. CASE ~IngestEnqueue(r)
    <3>1. UNCHANGED <<submitted, taken, handled, job, run>>
      BY <2>0, <2>2 DEF RejectUnknownApp, RecordInvalid, IngestCheck, IngestCreate, IngestFault
    <3>2. \A w \in WebhookIds : Pending(w)' \subseteq Pending(w)
      BY <3>1 DEF Pending
    <3>3. QED BY <3>1, <3>2, PaidStays
  <2>3. QED BY <2>1, <2>2
<1>6. ASSUME ReplayNext  PROVE HandlingsPaid'
  <2>0. PICK p \in Replays :
          \/ \E w \in WebhookIds : ListFailed(p, w)
          \/ ReplayCommit(p) \/ ReplayRemove(p) \/ ReplayEnqueue(p) \/ ReplayFault(p)
    BY <1>6 DEF ReplayNext
  <2>1. CASE ReplayEnqueue(p)
    <3>1. /\ rep[p].pc = "removed" /\ rep[p].wid \in WebhookIds /\ Enqueue(p, rep[p].wid)
          /\ UNCHANGED <<run, handled>>
      BY <2>1 DEF ReplayEnqueue, Named
    <3>2. p \notin submitted[rep[p].wid]
      BY <3>1 DEF ReplayAudited
    <3>3. QED BY <3>1, <3>2, PaidByEnqueue
  <2>2. CASE ~ReplayEnqueue(p)
    <3>1. UNCHANGED <<submitted, taken, handled, run>>
      BY <2>0, <2>2 DEF ListFailed, ReplayCommit, ReplayRemove, ReplayFault
    <3>2. UNCHANGED job \/ job' = [job EXCEPT ![rep[p].wid] = "none"]
      BY <2>0, <2>2 DEF ListFailed, ReplayCommit, ReplayRemove, ReplayFault
    <3>3. \A w \in WebhookIds : job'[w] \in Live => job[w] \in Live
      BY <1>t, <3>2 DEF Live
    <3>4. \A w \in WebhookIds : Pending(w)' \subseteq Pending(w)
      BY <3>1 DEF Pending
    <3>5. QED BY <3>1, <3>3, <3>4, PaidStays
  <2>3. QED BY <2>1, <2>2
<1>7. ASSUME QueueNext \/ LateNext  PROVE HandlingsPaid'
  <2>1. UNCHANGED <<submitted, taken, handled, run>>
    BY <1>7 DEF QueueNext, LateNext, Evict, BackoffEnds, Stalled, MarkFailedTransient,
                DeadLetterRead, DeadLetterCommit, LateWriteLost
  <2>2. \A w \in WebhookIds : job'[w] \in Live => job[w] \in Live
    <3>1. CASE QueueNext
      BY <1>t, <3>1 DEF QueueNext, Evict, BackoffEnds, Stalled, Live
    <3>2. CASE LateNext
      BY <3>2 DEF LateNext, MarkFailedTransient, DeadLetterRead, DeadLetterCommit, LateWriteLost
    <3>3. QED BY <1>7, <3>1, <3>2
  <2>3. \A w \in WebhookIds : Pending(w)' \subseteq Pending(w)
    BY <2>1 DEF Pending
  <2>4. QED BY <2>1, <2>2, <2>3, PaidStays
<1>8. QED BY <1>4, <1>5, <1>6, <1>7 DEF Next

\* What holds of records, promises and runs at every moment.
THEOREM PromiseInvariant == Spec => [](OnRecord /\ HandlingsPaid)
<1> DEFINE Aux == /\ TypeOK /\ Named /\ OneCreator /\ ReplayAudited /\ OneHolder /\ Budget
           Inv == OnRecord /\ HandlingsPaid
<1>1. Init => Inv
  <2> SUFFICES ASSUME Init  PROVE Inv
    OBVIOUS
  <2>1. OnRecord
    BY DEF Init, OnRecord
  <2>2. ASSUME NEW w \in WebhookIds
        PROVE  IsFiniteSet(Pending(w)) /\ handled[w] + Cardinality(Pending(w)) + Left(w) <= Ceiling * Cardinality(submitted[w])
    <3>1. Pending(w) = {}
      BY DEF Init, Pending
    <3>2. submitted[w] = {} /\ handled[w] = 0 /\ Left(w) = 0
      BY DEF Init, Left, Live
    <3>3. Ceiling \in Nat
      BY ConstantsAssumption DEF Ceiling
    <3>4. QED BY <3>1, <3>2, <3>3, FS_EmptySet
  <2>3. QED BY <2>1, <2>2 DEF HandlingsPaid
<1>2. Aux /\ Aux' /\ Inv /\ [Next]_vars => Inv'
  <2> SUFFICES ASSUME Aux, Aux', Inv, [Next]_vars  PROVE Inv'
    OBVIOUS
  <2>1. CASE UNCHANGED vars
    BY <2>1 DEF vars, rowVars, jobVars, lateVars, auditVars, obsVars, OnRecord, HandlingsPaid,
                Pending, Left, Ceiling
  <2>2. CASE Next
    BY <2>2, KeepsOnRecord, KeepsPaid
  <2>3. QED BY <2>1, <2>2
<1>3. Spec => []Aux
  BY DeliveryInvariant, QueueInvariant, PTL
<1>4. QED BY <1>1, <1>2, <1>3, PTL DEF Spec

\* The promise counts as the pipeline does.
LEMMA SameCount == \A S : Promise!Cardinality(S) = Cardinality(S)
BY DEF Cardinality, Promise!Cardinality

\* Every step is one of the promise, or keeps all that it is about.
LEMMA KeepsPromiseNext ==
  ASSUME TypeOK, TypeOK', Named, OneCreator, ReplayAudited, OneHolder, AttemptCeiling, HandledFirst,
         DeadLetteredOncePerSubmission, OnRecord, HandlingsPaid, Next
  PROVE  Promise!Next \/ UNCHANGED Promise!vars
<1> USE DEF rowVars, jobVars, lateVars, auditVars, obsVars
<1>t. /\ req \in [Requests -> [pc : {"idle", "checked", "created", "acked", "refused"},
                              wid : WebhookIds \cup {NoId}]]
      /\ rep \in [Replays -> [pc : {"idle", "listed", "committed", "removed", "done", "failed"},
                              wid : WebhookIds \cup {NoId}]]
      /\ status \in [WebhookIds -> Statuses] /\ job \in [WebhookIds -> JobStates]
      /\ submitted \in [WebhookIds -> SUBSET (Requests \cup Replays)]
      /\ replayAudits \in [WebhookIds -> SUBSET Replays]
      /\ lateFailed \in [WebhookIds -> Nat] /\ lateDead \in [WebhookIds -> Nat]
      /\ deadChecked \in [WebhookIds -> Nat] /\ deadAudits \in [WebhookIds -> Nat]
      /\ handled \in [WebhookIds -> Nat] /\ taken \in [WebhookIds -> Nat]
  BY DEF TypeOK
<1> DEFINE Goal == Promise!Next \/ UNCHANGED Promise!vars
\* Steps that keep the rows' statuses, submissions, handlings and audit rows.
<1>0. ASSUME UNCHANGED <<status, hmacValid, replayAudits, submitted, handled, deadAudits>>  PROVE Goal
  BY <1>0 DEF Promise!vars
<1>1. ASSUME RouteNext  PROVE Goal
  <2>0. PICK r \in Requests :
          \/ \E w \in WebhookIds : RejectUnknownApp(r, w) \/ RecordInvalid(r, w) \/ IngestCheck(r, w)
          \/ IngestCreate(r) \/ IngestEnqueue(r) \/ IngestFault(r)
    BY <1>1 DEF RouteNext
  <2>1. CASE \E w \in WebhookIds : RecordInvalid(r, w)
    <3>1. PICK w \in WebhookIds : RecordInvalid(r, w)
      BY <2>1
    <3>2. CASE status[w] = "absent"
      <4>1. Promise!Record(w)
        BY <3>1, <3>2 DEF RecordInvalid, Promise!Record
      <4>2. QED BY <4>1 DEF Promise!Next
    <3>3. CASE status[w] # "absent"
      BY <1>0, <3>1, <3>3 DEF RecordInvalid
    <3>4. QED BY <3>2, <3>3
  <2>2. CASE IngestCreate(r)
    <3> DEFINE w == req[r].wid
    <3>1. w \in WebhookIds
      BY <2>2 DEF IngestCreate, Named
    <3>2. CASE status[w] = "absent"
      <4>1. Promise!Record(w)
        BY <2>2, <3>2 DEF IngestCreate, Promise!Record
      <4>2. QED BY <3>1, <4>1 DEF Promise!Next
    <3>3. CASE status[w] # "absent"
      BY <1>0, <2>2, <3>3 DEF IngestCreate
    <3>4. QED BY <3>2, <3>3
  <2>3. CASE IngestEnqueue(r)
    <3> DEFINE w == req[r].wid
    <3>1. /\ w \in WebhookIds /\ req[r].pc = "created" /\ Enqueue(r, w)
          /\ UNCHANGED <<status, hmacValid, replayAudits, deadAudits, handled>>
      BY <2>3 DEF IngestEnqueue, Named
    <3>2. CASE job[w] = "none"
      <4>1. submitted' = [submitted EXCEPT ![w] = @ \cup {r}]
        BY <3>1, <3>2 DEF Enqueue
      <4>2. \A v \in WebhookIds : r \notin submitted[v]
        BY <3>1 DEF OnRecord
      <4>3. hmacValid[w] /\ submitted[w] \cap Requests = {}
        BY <3>1 DEF OneCreator
      <4>4. Promise!TakeOn(w, r)
        BY <3>1, <4>1, <4>2, <4>3 DEF Promise!TakeOn
      <4>5. QED BY <3>1, <4>4 DEF Promise!Next
    <3>3. CASE job[w] # "none"
      BY <1>0, <3>1, <3>3 DEF Enqueue
    <3>4. QED BY <3>2, <3>3
  <2>4. CASE \/ \E w \in WebhookIds : RejectUnknownApp(r, w) \/ IngestCheck(r, w)
             \/ IngestFault(r)
    BY <1>0, <2>4 DEF RejectUnknownApp, IngestCheck, IngestFault
  <2>5. QED BY <2>0, <2>1, <2>2, <2>3, <2>4
<1>2. ASSUME WorkerNext  PROVE Goal
  <2>0. PICK k \in Workers :
          \/ \E w \in WebhookIds : Take(k, w)
          \/ CountAttempt(k) \/ Handle(k) \/ MarkProcessed(k) \/ Complete(k)
          \/ RunFails(k) \/ RunCrash(k) \/ LoseLock(k)
    BY <1>2 DEF WorkerNext
  <2> DEFINE w == run[k].wid
  <2>1. CASE Handle(k)
    <3>1. /\ run[k].pc = "counted" /\ w \in WebhookIds
          /\ handled' = [handled EXCEPT ![w] = @ + 1]
          /\ UNCHANGED <<status, hmacValid, replayAudits, submitted, deadAudits>>
      BY <2>1 DEF Handle, Named
    <3>2. handled[w] < Ceiling * Cardinality(submitted[w])
      <4>1. /\ IsFiniteSet(Pending(w)) /\ k \in Pending(w)
            /\ handled[w] + Cardinality(Pending(w)) + Left(w) <= Ceiling * Cardinality(submitted[w])
        BY <3>1 DEF HandlingsPaid, Pending
      <4>2. Cardinality(Pending(w)) \in Nat /\ Cardinality(Pending(w)) # 0
        BY <4>1, FS_CardinalityType, FS_EmptySet
      <4>3. Left(w) \in Nat
        <5>1. taken[w] \in Nat /\ Ceiling \in Nat /\ taken[w] <= Ceiling
          BY <1>t, <3>1, ConstantsAssumption DEF AttemptCeiling, Ceiling
        <5>2. QED BY <5>1 DEF Left
      <4>4. Ceiling * Cardinality(submitted[w]) \in Int /\ handled[w] \in Nat
        <5>1. Ceiling \in Nat /\ Cardinality(submitted[w]) \in Nat
          BY <3>1, SubmissionsFinite, ConstantsAssumption DEF Ceiling
        <5>2. \A m, n \in Nat : m * n \in Nat
          OBVIOUS
        <5>3. QED BY <1>t, <3>1, <5>1, <5>2
      <4>5. \A h, p, l \in Nat, b \in Int : p # 0 /\ h + p + l <= b => h < b
        OBVIOUS
      <4>6. QED BY <4>1, <4>2, <4>3, <4>4, <4>5
    <3>3. Promise!Handle(w)
      BY <3>1, <3>2, SameCount DEF Promise!Handle, Ceiling
    <3>4. QED BY <3>1, <3>3 DEF Promise!Next
  <2>2. CASE MarkProcessed(k)
    <3>1. /\ run[k].pc = "handled" /\ w \in WebhookIds
          /\ status' = [status EXCEPT ![w] = "PROCESSED"]
          /\ UNCHANGED <<handled, hmacValid, replayAudits, submitted, deadAudits>>
      BY <2>2 DEF MarkProcessed, Named
    <3>2. handled[w] > 0
      BY <3>1 DEF HandledFirst
    <3>3. submitted[w] # {}
      <4>1. SUFFICES ASSUME submitted[w] = {}  PROVE FALSE
        OBVIOUS
      <4>2. /\ IsFiniteSet(Pending(w)) /\ handled[w] + Cardinality(Pending(w)) + Left(w) <= Ceiling * Cardinality(submitted[w])
        BY <3>1 DEF HandlingsPaid
      <4>3. Ceiling * Cardinality(submitted[w]) = 0
        <5>1. Cardinality(submitted[w]) = 0 /\ Ceiling \in Nat
          BY <4>1, FS_EmptySet, ConstantsAssumption DEF Ceiling
        <5>2. QED BY <5>1
      <4>4. Left(w) = 0
        BY <3>1, <4>1 DEF OnRecord, Left, Live
      <4>5. Cardinality(Pending(w)) \in Nat /\ handled[w] \in Nat
        BY <1>t, <3>1, <4>2, FS_CardinalityType
      <4>6. QED BY <3>2, <4>2, <4>3, <4>4, <4>5
    <3>4. Promise!Show(w)
      BY <3>1, <3>2, <3>3 DEF Promise!Show
    <3>5. QED BY <3>1, <3>4 DEF Promise!Next
  <2>3. CASE ~Handle(k) /\ ~MarkProcessed(k)
    <3>1. UNCHANGED <<status, hmacValid, replayAudits, submitted, handled, deadAudits>>
      BY <2>0, <2>3 DEF Take, CountAttempt, Complete, RunFails, RunCrash, LoseLock
    <3>2. QED BY <1>0, <3>1
  <2>4. QED BY <2>1, <2>2, <2>3
<1>3. ASSUME QueueNext  PROVE Goal
  BY <1>0, <1>3 DEF QueueNext, Evict, BackoffEnds, Stalled
<1>4. ASSUME LateNext  PROVE Goal
  <2>0. PICK w \in WebhookIds :
          MarkFailedTransient(w) \/ DeadLetterRead(w) \/ DeadLetterCommit(w) \/ LateWriteLost(w)
    BY <1>4 DEF LateNext
  <2>1. CASE MarkFailedTransient(w)
    <3>1. submitted[w] # {}
      BY <1>t, <2>1 DEF MarkFailedTransient, OnRecord
    <3>2. Promise!Show(w)
      BY <2>1, <3>1 DEF MarkFailedTransient, Promise!Show
    <3>3. QED BY <3>2 DEF Promise!Next
  <2>2. CASE DeadLetterCommit(w)
    <3>1. deadAudits[w] < Cardinality(submitted[w])
      <4>1. Cardinality(submitted[w]) \in Nat
        BY SubmissionsFinite
      <4>2. deadChecked[w] > 0
        BY <2>2 DEF DeadLetterCommit
      <4>3. QED BY <1>t, <4>1, <4>2 DEF DeadLetteredOncePerSubmission
    <3>2. Promise!Bury(w)
      BY <2>2, <3>1, SameCount DEF DeadLetterCommit, Promise!Bury
    <3>3. QED BY <3>2 DEF Promise!Next
  <2>3. CASE DeadLetterRead(w) \/ LateWriteLost(w)
    BY <1>0, <2>3 DEF DeadLetterRead, LateWriteLost
  <2>4. QED BY <2>0, <2>1, <2>2, <2>3
<1>5. ASSUME ReplayNext  PROVE Goal
  <2>0. PICK p \in Replays :
          \/ \E w \in WebhookIds : ListFailed(p, w)
          \/ ReplayCommit(p) \/ ReplayRemove(p) \/ ReplayEnqueue(p) \/ ReplayFault(p)
    BY <1>5 DEF ReplayNext
  <2> DEFINE w == rep[p].wid
  <2>1. CASE ReplayCommit(p)
    <3>1. /\ rep[p].pc = "listed" /\ w \in WebhookIds
          /\ status' = [status EXCEPT ![w] = "RECEIVED"]
          /\ replayAudits' = [replayAudits EXCEPT ![w] = @ \cup {p}]
          /\ UNCHANGED <<hmacValid, submitted, handled, deadAudits>>
      BY <2>1 DEF ReplayCommit, Named
    <3>2. status[w] # "absent" /\ \A v \in WebhookIds : p \notin replayAudits[v]
      BY <3>1 DEF OnRecord
    <3>3. Promise!Ask(w, p)
      BY <3>1, <3>2 DEF Promise!Ask
    <3>4. QED BY <3>1, <3>3 DEF Promise!Next
  <2>2. CASE ReplayEnqueue(p)
    <3>1. /\ w \in WebhookIds /\ rep[p].pc = "removed" /\ Enqueue(p, w)
          /\ UNCHANGED <<status, hmacValid, replayAudits, deadAudits, handled>>
      BY <2>2 DEF ReplayEnqueue, Named
    <3>2. CASE job[w] = "none"
      <4>1. submitted' = [submitted EXCEPT ![w] = @ \cup {p}]
        BY <3>1, <3>2 DEF Enqueue
      <4>2. p \in replayAudits[w] /\ \A v \in WebhookIds : p \notin submitted[v]
        BY <3>1 DEF ReplayAudited
      <4>3. Promise!TakeOn(w, p)
        BY <3>1, <4>1, <4>2 DEF Promise!TakeOn
      <4>4. QED BY <3>1, <4>3 DEF Promise!Next
    <3>3. CASE job[w] # "none"
      BY <1>0, <3>1, <3>3 DEF Enqueue
    <3>4. QED BY <3>2, <3>3
  <2>3. CASE (\E v \in WebhookIds : ListFailed(p, v)) \/ ReplayRemove(p) \/ ReplayFault(p)
    BY <1>0, <2>3 DEF ListFailed, ReplayRemove, ReplayFault
  <2>4. QED BY <2>0, <2>1, <2>2, <2>3
<1>6. QED BY <1>1, <1>2, <1>3, <1>4, <1>5 DEF Next

\* The pipeline implements the promise: for any number of events, deliveries, workers, replays
\* and faults, whatever crashes, stalls and late writes there are, an event is taken on by one
\* verified delivery or by replays on the record, handled at most MaxAttempts + MaxStalled
\* times and dead-lettered at most once each time, and its status tells no more than was done.
THEOREM KeepsPromiseHolds == Spec => KeepsPromise
<1> DEFINE Inv == /\ TypeOK /\ Named /\ OneCreator /\ ReplayAudited /\ OneHolder /\ Budget
                  /\ HandledFirst /\ DeadLetteredOncePerSubmission /\ OnRecord /\ HandlingsPaid
<1>1. Init => Promise!Init
  BY DEF Init, Promise!Init
<1>2. Inv /\ Inv' /\ [Next]_vars => [Promise!Next]_(Promise!vars)
  <2> SUFFICES ASSUME Inv, Inv', [Next]_vars  PROVE Promise!Next \/ UNCHANGED Promise!vars
    OBVIOUS
  <2>1. CASE UNCHANGED vars
    BY <2>1 DEF vars, rowVars, jobVars, lateVars, auditVars, obsVars, Promise!vars
  <2>2. CASE Next
    BY <2>2, KeepsPromiseNext DEF Budget
  <2>3. QED BY <2>1, <2>2
<1>3. Spec => []Inv
  BY DeliveryInvariant, QueueInvariant, ProcessedInvariant, DeadLetteredOnceHolds, PromiseInvariant, PTL
<1>4. QED BY <1>1, <1>2, <1>3, PTL DEF Spec, KeepsPromise, Promise!Spec
=============================================================================
