-------------------------------- MODULE OpsSlo --------------------------------
(***************************************************************************)
(* The operations tick: a repeated job samples the share of the recent     *)
(* webhooks that failed, appends it with the gauges, evaluates the burn    *)
(* rate of the service level over pairs of windows, tells and audits the   *)
(* most severe tier that fires, and sweeps the expired grants.  A failed   *)
(* attempt is run again from its beginning.  A page shows the queues.      *)
(***************************************************************************)
EXTENDS Integers, FiniteSets, Sequences, FiniteSetsExt

CONSTANTS
  Lookback,     \* SLO_SAMPLE_LOOKBACK_MS, in ticks of the clock
  Tiers,        \* burnTiers: severity, and the rate, in Units, at which the tier fires, with its windows
  Units,        \* an error ratio is a whole number of these
  Attempts,     \* attempts of the rollup job
  Liveness,     \* WORKER_LIVENESS_WINDOW_MINUTES, in ticks
  Supplies      \* bounds: webhooks, ticks, failures, moves of the queue, views

VARIABLES
  clock,
  hooks,        \* WebhookEvent rows: when received, and status
  wasBad,       \* observation only: webhooks that have failed at some time
  queue,        \* one monitored queue: its counts, and its last completion
  job,          \* the rollup job
  samples,      \* KpiSnapshot rows of ops.slo.webhook_error_ratio
  signals,      \* alerts told to the error sink
  audits,       \* slo.alert.fired rows
  ended,        \* observation only: the last evaluation that ended, with what it said
  tile,         \* the queue as the page shows it, and whether it was reached and had jobs
  supply

vars == <<clock, hooks, wasBad, queue, job, samples, signals, audits, ended, tile, supply>>

Idle == [pc |-> "idle", attempt |-> 0, at |-> 0, total |-> -1, bad |-> -1, alert |-> <<>>]

Init ==
  /\ clock = 0
  /\ hooks = <<>> /\ wasBad = {}
  /\ queue = [waiting |-> 0, completed |-> 0, failed |-> 0, last |-> -1]
  /\ job = Idle
  /\ samples = <<>> /\ signals = <<>> /\ audits = <<>>
  /\ ended = [at |-> 0, seen |-> 0, page |-> TRUE]
  /\ tile = [shown |-> "none", had |-> FALSE, reached |-> TRUE]
  /\ supply \in Supplies

Uses(what) ==
  /\ supply[what] > 0
  /\ supply' = [supply EXCEPT ![what] = @ - 1]

-----------------------------------------------------------------------------
(* The webhooks, whose pipeline is another module's, the queues, the time. *)

Receive ==
  /\ Uses("webhooks")
  /\ hooks' = Append(hooks, [at |-> clock, status |-> "RECEIVED"])
  /\ UNCHANGED <<clock, wasBad, queue, job, samples, signals, audits, ended, tile>>

Settle(h) ==
  /\ hooks[h].status \in {"RECEIVED", "FAILED"}
  /\ \E status \in {"FAILED", "PROCESSED"} \ {hooks[h].status} :
       /\ hooks' = [hooks EXCEPT ![h].status = status]
       /\ wasBad' = IF status = "FAILED" THEN wasBad \cup {h} ELSE wasBad
  /\ UNCHANGED <<clock, queue, job, samples, signals, audits, ended, tile, supply>>

\* A job is added, or one that waits ends.
QueueMoves ==
  /\ Uses("moves")
  /\ \/ queue' = [queue EXCEPT !.waiting = @ + 1]
     \/ /\ queue.waiting > 0
        /\ \/ queue' = [queue EXCEPT !.waiting = @ - 1, !.completed = @ + 1, !.last = clock]
           \/ queue' = [queue EXCEPT !.waiting = @ - 1, !.failed = @ + 1]
  /\ UNCHANGED <<clock, hooks, wasBad, job, samples, signals, audits, ended, tile>>

\* The repeated job is due at each tick; a run that lasts is not overtaken by the next.
Tick ==
  /\ Uses("ticks")
  /\ clock' = clock + 1
  /\ job' = IF job.pc = "idle" THEN [Idle EXCEPT !.pc = "waiting"] ELSE job
  /\ UNCHANGED <<hooks, wasBad, queue, samples, signals, audits, ended, tile>>

-----------------------------------------------------------------------------
(* OpsMetricsService.                                                      *)

ClassifyLiveness(stat) ==
  IF stat.waiting + stat.completed + stat.failed = 0 THEN "idle"
  ELSE IF stat.last >= 0 /\ clock - stat.last <= Liveness THEN "healthy" ELSE "stale"

\* An unreachable store is shown as a queue of no jobs.
LiveQueueStats(reached) == IF reached THEN queue ELSE [waiting |-> 0, completed |-> 0, failed |-> 0, last |-> -1]

Snapshot ==
  /\ Uses("views")
  /\ \E reached \in BOOLEAN :
       tile' = [shown |-> ClassifyLiveness(LiveQueueStats(reached)),
                had |-> queue.waiting + queue.completed + queue.failed > 0, reached |-> reached]
  /\ UNCHANGED <<clock, hooks, wasBad, queue, job, samples, signals, audits, ended>>

RunRollup ==
  /\ job.pc = "waiting"
  /\ job' = [Idle EXCEPT !.pc = "sample", !.at = clock, !.attempt = job.attempt + 1]
  /\ UNCHANGED <<clock, hooks, wasBad, queue, samples, signals, audits, ended, tile, supply>>

Recent(h) == hooks[h].at + Lookback >= job.at

\* The two counts are two statements, sent together.
WebhookErrorRatio ==
  /\ job.pc = "sample"
  /\ LET total == {h \in DOMAIN hooks : Recent(h)}
         bad == {h \in total : hooks[h].status = "FAILED"} IN
       \/ job.total < 0 /\ job' = [job EXCEPT !.total = Cardinality(total)]
       \/ job.bad < 0 /\ job' = [job EXCEPT !.bad = Cardinality(bad)]
  /\ UNCHANGED <<clock, hooks, wasBad, queue, samples, signals, audits, ended, tile, supply>>

AppendSample ==
  /\ job.pc = "sample" /\ job.total >= 0 /\ job.bad >= 0
  /\ samples' = Append(samples, [at |-> job.at,
       value |-> IF job.total = 0 THEN 0 ELSE (job.bad * Units) \div job.total])
  /\ job' = [job EXCEPT !.pc = "evaluate"]
  /\ UNCHANGED <<clock, hooks, wasBad, queue, signals, audits, ended, tile, supply>>

-----------------------------------------------------------------------------
(* SloService.                                                             *)

Window(length) == {i \in DOMAIN samples : samples[i].at + length >= clock}

\* Sums up to each place.
Total(v) == LET t[n \in Nat] == IF n = 0 THEN 0 ELSE t[n - 1] + v[n] IN t

\* How much the values of the window's samples exceed the rate, each.
Excess(length, rate) == [i \in DOMAIN samples |-> IF i \in Window(length) THEN samples[i].value - rate ELSE 0]

\* The mean of the window's samples reaches the rate.
Burns(length, rate) == Window(length) # {} /\ Total(Excess(length, rate))[Len(samples)] >= 0

\* Mutant: one window is enough.
TierFiresEither(t) == Burns(t.long, t.rate) \/ Burns(t.short, t.rate)

TierFires(t) == Burns(t.long, t.rate) /\ Burns(t.short, t.rate)

\* The first of the most severe tiers that fire.
Best ==
  LET fired == {i \in DOMAIN Tiers : TierFires(Tiers[i])}
      pages == {i \in fired : Tiers[i].severity = "page"} IN
    IF pages # {} THEN <<Min(pages)>> ELSE IF fired # {} THEN <<Min(fired)>> ELSE <<>>

\* evaluate, and the signal, which is told before it is audited.
Evaluate ==
  /\ job.pc = "evaluate"
  /\ IF Best = <<>>
     THEN /\ job' = [job EXCEPT !.pc = "sweep"] /\ UNCHANGED signals
          /\ ended' = [at |-> clock, seen |-> Len(samples), page |-> FALSE]
     ELSE /\ job' = [job EXCEPT !.pc = "audit", !.alert = <<[tier |-> Best[1], at |-> clock]>>]
          /\ signals' = signals \o job'.alert
          /\ UNCHANGED ended
  /\ UNCHANGED <<clock, hooks, wasBad, queue, samples, audits, tile, supply>>

AppendAudit ==
  /\ job.pc = "audit"
  /\ audits' = audits \o job.alert
  /\ ended' = [at |-> job.alert[1].at, seen |-> Len(samples),
               page |-> Tiers[job.alert[1].tier].severity = "page"]
  /\ job' = [job EXCEPT !.pc = "sweep"]
  /\ UNCHANGED <<clock, hooks, wasBad, queue, samples, signals, tile, supply>>

\* BreakGlassService.sweepExpired, which is another module's, ends the run.
SweepExpired ==
  /\ job.pc = "sweep"
  /\ job' = Idle
  /\ UNCHANGED <<clock, hooks, wasBad, queue, samples, signals, audits, ended, tile, supply>>

RollupFails ==
  /\ Uses("failures")
  /\ job.pc \in {"sample", "evaluate", "audit", "sweep"}
  /\ job' = IF job.attempt < Attempts THEN [Idle EXCEPT !.pc = "waiting", !.attempt = job.attempt] ELSE Idle
  /\ UNCHANGED <<clock, hooks, wasBad, queue, samples, signals, audits, ended, tile>>

Next ==
  \/ Receive \/ QueueMoves \/ Tick \/ Snapshot
  \/ \E h \in DOMAIN hooks : Settle(h)
  \/ RunRollup \/ WebhookErrorRatio \/ AppendSample \/ Evaluate \/ AppendAudit \/ SweepExpired \/ RollupFails

Spec == Init /\ [][Next]_vars
-----------------------------------------------------------------------------
\* What the bounds and the configuration are: rates and attempts are positive, and a short window
\* is not longer than its long one.
Tier == [severity : {"page", "ticket"}, rate : Nat \ {0}, long : Nat, short : Nat]
Load == [webhooks : Nat, ticks : Nat, failures : Nat, moves : Nat, views : Nat]
Configured ==
  /\ Lookback \in Nat /\ Units \in Nat /\ Attempts \in Nat \ {0} /\ Supplies \subseteq Load
  /\ Tiers \in Seq(Tier) /\ \A i \in DOMAIN Tiers : Tiers[i].short <= Tiers[i].long

TypeOK ==
  /\ wasBad \subseteq DOMAIN hooks
  /\ \A h \in DOMAIN hooks : hooks[h].at <= clock /\ hooks[h].status \in {"RECEIVED", "FAILED", "PROCESSED"}
  /\ job.pc \in {"idle", "waiting", "sample", "evaluate", "audit", "sweep"} /\ job.attempt <= Attempts
  /\ \A i \in DOMAIN samples : samples[i].at <= clock
  /\ \A i \in DOMAIN signals : signals[i].tier \in DOMAIN Tiers
  /\ tile.shown \in {"none", "idle", "healthy", "stale"}

\* An alert is about webhooks that failed recently: within reach of the short window of its
\* tier, so that it stops with the trouble.  Each audited alert was told.  An evaluation that
\* ends without a page saw, for each paging tier, a sample of its long window that is below
\* the tier's rate, or none in its short one: trouble that lasts is paged, also when attempts
\* fail and sample twice.  A queue that has had jobs is shown as idle only when it could not
\* be reached (SloService.evaluate, OpsMetricsService.runRollup, classifyLiveness).
SloIsTold ==
  /\ \A i \in DOMAIN signals :
       LET t == Tiers[signals[i].tier] IN
         \E h \in wasBad : hooks[h].at + Lookback + t.short >= signals[i].at
  /\ \A i \in DOMAIN audits : \E k \in DOMAIN signals : signals[k] = audits[i]
  /\ ~ended.page =>
       \A i \in DOMAIN Tiers : Tiers[i].severity = "page" =>
         \/ \E k \in 1..ended.seen :
              samples[k].at + Tiers[i].long >= ended.at /\ samples[k].value < Tiers[i].rate
         \/ \A k \in 1..ended.seen : samples[k].at + Tiers[i].short < ended.at
  /\ tile.shown = "idle" => ~tile.reached \/ ~tile.had
=============================================================================
