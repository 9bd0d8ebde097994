--------------------------- MODULE ComplianceProofs ---------------------------
(***************************************************************************)
(* Theorems about Compliance, for any number of webhooks, runs, operators' *)
(* calls and requests per sweep, with and without automatic dispatch.      *)
(***************************************************************************)
EXTENDS Compliance, TLAPS

LEMMA TypeInit == Init => TypeOK
<1>. SUFFICES ASSUME Init PROVE TypeOK
  OBVIOUS
<1>1. now \in Times /\ call \in [Calls -> Redacts \cup {None}]
  BY ConstantsAssumption DEF Init, Times
<1>2. /\ status \in [Runs -> ComplianceStatus \cup {"absent"}] /\ run \in [Runs -> Stages]
      /\ \A r \in Runs : Exists(r) <=> run[r] # "ready"
  BY DEF Init, Exists, Stages
<1>3. QED
  BY <1>1, <1>2 DEF Init, TypeOK

LEMMA TypeStep == TypeOK /\ [Next]_vars => TypeOK'
<1>. SUFFICES ASSUME TypeOK, [Next]_vars PROVE TypeOK'
  OBVIOUS
<1>. USE ConstantsAssumption DEF TypeOK, ComplianceStatus, Stages, Exists, Goto
<1>1. CASE Tick
  BY <1>1 DEF Tick, Times
<1>2. ASSUME NEW r \in Runs, Record(r) PROVE TypeOK'
  BY <1>2 DEF Record
<1>3. CASE SweepComesRound
  BY <1>3 DEF SweepComesRound
<1>4. ASSUME NEW r \in Runs, Dispatch(r) PROVE TypeOK'
  BY <1>4 DEF Dispatch
<1>5. ASSUME NEW r \in Runs, MarkDispatched(r) PROVE TypeOK'
  BY <1>5 DEF MarkDispatched
<1>6. ASSUME NEW r \in Runs, MarkFailed(r) PROVE TypeOK'
  BY <1>6 DEF MarkFailed
<1>7. ASSUME NEW r \in Runs, RunFails(r) PROVE TypeOK'
  BY <1>7 DEF RunFails
<1>8. ASSUME NEW r \in Runs, NEW k \in Calls, MarkCompleted(k, r) PROVE TypeOK'
  BY <1>8 DEF MarkCompleted, ToPurge
<1>9. ASSUME NEW k \in Calls, Purge(k) PROVE TypeOK'
  BY <1>9 DEF Purge
<1>10. ASSUME NEW k \in Calls, PurgeFails(k) PROVE TypeOK'
  BY <1>10 DEF PurgeFails
<1>11. CASE Sweep
  BY <1>11 DEF Sweep, ListBreaching, Breaching
<1>12. CASE UNCHANGED vars
  BY <1>12 DEF vars
<1>13. QED
  BY <1>1, <1>2, <1>3, <1>4, <1>5, <1>6, <1>7, <1>8, <1>9, <1>10, <1>11, <1>12 DEF Next

\* Every reachable state is well typed.
THEOREM TypeCorrect == Spec => []TypeOK
BY TypeInit, TypeStep, PTL DEF Spec
-----------------------------------------------------------------------------
(* What is written where a run has got to.                                 *)

\* By the stages of its run: what a request can say, and what the app knows of it.
Staged(r) ==
  /\ run[r] = "accepted" => r \in accepted
  /\ InFlight(r) => status[r] \in {"RECEIVED", "COMPLETED"}
  /\ run[r] = "failed" => status[r] \in {"RECEIVED", "COMPLETED"}
  /\ run[r] = "handled" /\ Configured => status[r] # "RECEIVED"
  /\ status[r] = "IN_PROGRESS" => r \in accepted

StageInv == TypeOK /\ \A r \in Runs : Staged(r)

LEMMA StageInit == Init => StageInv
<1>1. Init => TypeOK
  BY TypeInit
<1>2. Init => \A r \in Runs : Staged(r)
  BY DEF Init, Staged, InFlight
<1>3. QED
  BY <1>1, <1>2 DEF StageInv

LEMMA StageStep == StageInv /\ [Next]_vars => StageInv'
<1>. SUFFICES ASSUME StageInv, [Next]_vars PROVE StageInv'
  OBVIOUS
<1>1. TypeOK /\ TypeOK'
  BY TypeStep DEF StageInv
<1>. SUFFICES ASSUME NEW r \in Runs PROVE Staged(r)'
  BY <1>1 DEF StageInv
<1>2. Staged(r)
  BY DEF StageInv
<1>. USE <1>1, <1>2 DEF TypeOK, Staged, Exists, InFlight, Goto
<1>3. ASSUME NEW q \in Runs, Record(q) PROVE Staged(r)'
  BY <1>3 DEF Record
<1>4. ASSUME NEW q \in Runs, Dispatch(q) PROVE Staged(r)'
  BY <1>4 DEF Dispatch
<1>5. ASSUME NEW q \in Runs, MarkDispatched(q) PROVE Staged(r)'
  BY <1>5 DEF MarkDispatched
<1>6. ASSUME NEW q \in Runs, MarkFailed(q) PROVE Staged(r)'
  BY <1>6 DEF MarkFailed
<1>7. ASSUME NEW q \in Runs, RunFails(q) PROVE Staged(r)'
  BY <1>7 DEF RunFails
<1>8. ASSUME NEW q \in Runs, NEW k \in Calls, MarkCompleted(k, q) PROVE Staged(r)'
  BY <1>8 DEF MarkCompleted
<1>9. CASE UNCHANGED <<status, run, accepted>>
  BY <1>9
<1>10. \/ \E q \in Runs :
            \/ Record(q) \/ Dispatch(q)
            \/ MarkDispatched(q) \/ MarkFailed(q) \/ RunFails(q)
            \/ \E k \in Calls : MarkCompleted(k, q)
       \/ UNCHANGED <<status, run, accepted>>
  BY DEF Next, vars, Tick, Purge, PurgeFails, SweepComesRound, Sweep
<1>11. QED
  BY <1>3, <1>4, <1>5, <1>6, <1>7, <1>8, <1>9, <1>10

LEMMA StageInvariant == Spec => []StageInv
BY StageInit, StageStep, PTL DEF Spec

\* IN_PROGRESS means that the app has taken the request on; neither operators nor other runs
\* of the webhook disturb what a mark found (autoDispatch).
THEOREM StatusIsTrueHolds == Spec => []StatusIsTrue
<1>1. StageInv => StatusIsTrue
  BY DEF StageInv, TypeOK, Stages, Exists, Staged, InFlight, StatusIsTrue
<1>2. QED
  BY <1>1, StageInvariant, PTL

\* A handled webhook has a request and, with automatic dispatch, one that is past RECEIVED
\* (handleWebhook).
THEOREM HandledIsTrackedHolds == Spec => []HandledIsTracked
<1>1. StageInv => HandledIsTracked
  BY DEF StageInv, TypeOK, Staged, HandledIsTracked
<1>2. QED
  BY <1>1, StageInvariant, PTL

\* The status of a request tells the truth about its dispatch, and every handled webhook has
\* its request.
THEOREM RequestsAreTrueHolds == Spec => []RequestsAreTrue
<1>1. StatusIsTrue /\ HandledIsTracked => RequestsAreTrue
  BY DEF RequestsAreTrue
<1>2. QED
  BY <1>1, StatusIsTrueHolds, HandledIsTrackedHolds, PTL

\* Only the run that recorded a request can take its completion back, while it is under way
\* (markDispatched, markFailed, markCompleted).
THEOREM CompletedIsFinalHolds == Spec => CompletedIsFinal
<1>1. ASSUME StageInv, [Next]_vars, NEW r \in Runs, status[r] = "COMPLETED", ~InFlight(r)
      PROVE  status'[r] = "COMPLETED"
  <2>1. TypeOK /\ Staged(r)
    BY <1>1 DEF StageInv
  <2>2. ASSUME NEW q \in Runs, Record(q) PROVE status'[r] = "COMPLETED"
    BY <1>1, <2>1, <2>2 DEF Record, TypeOK, Staged, Exists
  <2>3. ASSUME NEW q \in Runs, MarkDispatched(q) \/ MarkFailed(q) PROVE status'[r] = "COMPLETED"
    BY <1>1, <2>1, <2>3 DEF MarkDispatched, MarkFailed, TypeOK, InFlight
  <2>4. ASSUME NEW q \in Runs, NEW k \in Calls, MarkCompleted(k, q) PROVE status'[r] = "COMPLETED"
    BY <1>1, <2>1, <2>4 DEF MarkCompleted, TypeOK
  <2>5. \/ \E q \in Runs : \/ Record(q) \/ MarkDispatched(q) \/ MarkFailed(q)
                           \/ \E k \in Calls : MarkCompleted(k, q)
        \/ UNCHANGED status
    BY <1>1 DEF Next, vars, Tick, Dispatch, RunFails, Purge, PurgeFails, SweepComesRound, Sweep
  <2>6. QED
    BY <1>1, <2>2, <2>3, <2>4, <2>5
<1>2. StageInv /\ [Next]_vars =>
        [\A r \in Runs :
           status[r] = "COMPLETED" /\ ~InFlight(r) => status'[r] = "COMPLETED"]_vars
  BY <1>1
<1>3. QED
  BY <1>2, StageInvariant, PTL DEF Spec, CompletedIsFinal

-----------------------------------------------------------------------------
(* The purge.                                                              *)

PurgeInv == TypeOK /\ CompletedIsPurged

LEMMA PurgeStep == PurgeInv /\ [Next]_vars => PurgeInv'
<1>. SUFFICES ASSUME PurgeInv, [Next]_vars PROVE PurgeInv'
  OBVIOUS
<1>1. TypeOK /\ TypeOK' /\ CompletedIsPurged
  BY TypeStep DEF PurgeInv
<1>. USE <1>1, ConstantsAssumption DEF TypeOK, CompletedIsPurged
<1>2. ASSUME NEW q \in Runs, Record(q) \/ MarkDispatched(q) \/ MarkFailed(q)
      PROVE  CompletedIsPurged'
  BY <1>2 DEF Record, MarkDispatched, MarkFailed
<1>3. ASSUME NEW q \in Runs, NEW k \in Calls, MarkCompleted(k, q) PROVE CompletedIsPurged'
  <2>1. \A j \in Calls : call[j] # None => call'[j] = call[j]
    BY <1>3 DEF MarkCompleted
  <2>2. call'[k] = ToPurge(q) /\ \A r \in Runs \ {q} : status'[r] = status[r]
    BY <1>3 DEF MarkCompleted
  <2>3. QED
    BY <1>3, <2>1, <2>2 DEF MarkCompleted, ToPurge
<1>4. ASSUME NEW k \in Calls, Purge(k) \/ PurgeFails(k) PROVE CompletedIsPurged'
  BY <1>4 DEF Purge, PurgeFails
<1>5. CASE UNCHANGED <<status, call, purged, unpurged>>
  BY <1>5 DEF PurgeInv
<1>6. \/ \E q \in Runs : \/ Record(q) \/ MarkDispatched(q) \/ MarkFailed(q)
                         \/ \E k \in Calls : MarkCompleted(k, q)
      \/ \E k \in Calls : Purge(k) \/ PurgeFails(k)
      \/ UNCHANGED <<status, call, purged, unpurged>>
  BY DEF Next, vars, Tick, Dispatch, RunFails, SweepComesRound, Sweep
<1>7. QED
  BY <1>1, <1>2, <1>3, <1>4, <1>5, <1>6 DEF PurgeInv

\* No completed shop/redact slips past the purge, but for a purge that fails (markCompleted).
THEOREM CompletedIsPurgedHolds == Spec => []CompletedIsPurged
<1>1. Init => PurgeInv
  BY TypeInit DEF PurgeInv, Init, CompletedIsPurged
<1>2. PurgeInv => CompletedIsPurged
  BY DEF PurgeInv
<1>3. QED
  BY <1>1, <1>2, PurgeStep, PTL DEF Spec
=============================================================================
