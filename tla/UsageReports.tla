------------------------------ MODULE UsageReports ------------------------------
(***************************************************************************)
(* The usage rollups of one app and their readers.  The server and the     *)
(* worker process each run a worker of the rollup queue, one job at a time *)
(* but not in turn: the hourly incremental (today), the nightly finalize   *)
(* (yesterday and the retention matrix), the cohort assignment and the     *)
(* manual backfill.  A rollup reads the mirror twice, then stores its      *)
(* points one by one, between which another may store its own of the same  *)
(* day; a job that fails is run again from its start, against the mirror   *)
(* and the clock of that moment.  The mirror grows in seq order behind the *)
(* ingest and shrinks by redaction and the retention prune.                *)
(***************************************************************************)
EXTENDS UsageReads

CONSTANTS
  Workers,    \* the workers of the rollup queue
  Feed,       \* the app's events, in seq order
  Start, MaxNow,  \* bound: the first instant and the last
  MaxDays,    \* bound: days of a backfill
  Attempts,   \* attempts of a job
  Budgets     \* bound: how many jobs, and how many failing steps and deletions

\* An event of the app.  A duration that was not measured is negative.  That events have a name
\* is up to the app: to the readers the empty one is the mark of a number without a dimension.
Events ==
  [id : Nat, shop : STRING, name : STRING \ {""}, at : Nat, impersonated : BOOLEAN, step : STRING, ms : Int,
   rules : {R \in SUBSET STRING : IsFiniteSet(R)}, key : STRING]

Configured ==
  /\ MetricsConfigured
  /\ Feed \in Seq(Events)
  /\ MaxNow \in Nat /\ Start \in 0 .. MaxNow /\ Budgets \subseteq Nat \X Nat
  /\ Attempts \in Nat \ {0} /\ MaxDays \in Nat

VARIABLES
  now,
  ingested,   \* events of the feed that have been ingested
  mirror,     \* the usage_events rows
  daily,      \* the usage_metric_daily rows
  kpis,       \* the usage.* kpi_snapshots rows, of one run together
  cohorts,    \* the usage_cohort_snapshots rows
  job,        \* each worker's job in progress
  jobs, faults,  \* what is left of the budget
  settled,    \* observation only: days rolled up from the mirror as it is now
  torn        \* observation only: days of which only some points have been stored since, or
              \* those of two rollups that found different mirrors

vars == <<now, ingested, mirror, daily, kpis, cohorts, job, jobs, faults, settled, torn>>
reads == <<mirror, ingested>>

Shops == {Feed[i].shop : i \in DOMAIN Feed}
Today == DayOf(now)
Idle == [pc |-> "idle"]

Init ==
  /\ now = Start
  /\ ingested = 0
  /\ mirror = {} /\ daily = {} /\ kpis = {} /\ cohorts = {}
  /\ job = [w \in Workers |-> Idle]
  /\ \E b \in Budgets : jobs = b[1] /\ faults = b[2]
  /\ settled = {}
  /\ torn = {}

Tick ==
  /\ now < MaxNow
  /\ now' = now + 1
  /\ UNCHANGED <<ingested, mirror, daily, kpis, cohorts, job, jobs, faults, settled, torn>>

\* A change of the mirror makes what was rolled up, or has been read, out of date.
MirrorChanges ==
  /\ settled' = {}
  /\ job' = [w \in Workers |-> IF job[w].pc = "idle" THEN job[w] ELSE [job[w] EXCEPT !.clean = FALSE]]
  /\ UNCHANGED <<now, daily, kpis, cohorts, jobs, torn>>

Ingest ==
  /\ ingested < Len(Feed)
  /\ Feed[ingested + 1].at <= now
  /\ ingested' = ingested + 1
  /\ mirror' = mirror \cup {Feed[ingested + 1]}
  /\ UNCHANGED faults
  /\ MirrorChanges

\* Redaction deletes a shop's rows, the prune those before an instant.
Delete ==
  /\ \/ \E s \in Shops : mirror' = {r \in mirror : r.shop # s}
     \/ \E t \in 1 .. now : mirror' = {r \in mirror : r.at >= t}
  /\ mirror' # mirror
  /\ faults > 0
  /\ faults' = faults - 1
  /\ UNCHANGED ingested
  /\ MirrorChanges

-----------------------------------------------------------------------------
(* The jobs.                                                               *)

\* The day a job starts with, and the last one it rolls up.
FirstDay(kind, t) == IF kind = "finalize" THEN DayOf(t) - 1 ELSE DayOf(t)

Fresh(kind, day, upto, attempt) ==
  [pc |-> IF kind = "cohort" THEN "cohort" ELSE "day", kind |-> kind, day |-> day, upto |-> upto,
   at |-> now, attempt |-> attempt, clean |-> TRUE, alone |-> TRUE, rows |-> {}, todo |-> {}, points |-> {}]

Turns(w, j) == job' = [job EXCEPT ![w] = j]

Take(w) ==
  /\ job[w].pc = "idle"
  /\ jobs > 0
  /\ jobs' = jobs - 1
  /\ \/ \E kind \in {"incremental", "finalize", "cohort"} :
          /\ FirstDay(kind, now) >= 0
          /\ Turns(w, Fresh(kind, FirstDay(kind, now), FirstDay(kind, now), 1))
     \/ \E from \in (Today - MaxDays + 1) .. Today : from >= 0 /\ Turns(w, Fresh("backfill", from, Today, Attempts))
  /\ UNCHANGED <<now, reads, daily, kpis, cohorts, faults, settled, torn>>

ReadDay(w) ==
  /\ job[w].pc = "day"
  /\ Turns(w, [job[w] EXCEPT !.pc = "window", !.rows = DayRows(mirror, job[w].day), !.clean = TRUE, !.alone = TRUE])
  /\ UNCHANGED <<now, reads, daily, kpis, cohorts, jobs, faults, settled, torn>>

ReadWide(w) ==
  /\ job[w].pc = "window"
  /\ LET points == DayPoints(job[w].rows, WindowRows(mirror, job[w].day), job[w].day) IN
       Turns(w, [job[w] EXCEPT !.pc = "write", !.rows = {}, !.todo = points, !.points = points])
  /\ UNCHANGED <<now, reads, daily, kpis, cohorts, jobs, faults, settled, torn>>

\* Mutant: the day is missing from the key.
SameKeyAnyDay(r, q) == r.metric = q.metric /\ r.dim = q.dim

SameKey(r, q) == r.day = q.day /\ r.metric = q.metric /\ r.dim = q.dim
Upsert(rows, row) == {r \in rows : ~SameKey(r, row)} \cup {row}

\* Of two rollups of a day, one stores a point after the other has read and found something else.
Crossed(other, writer) ==
  /\ other.pc \in {"window", "write"} /\ other.day = writer.day
  /\ other.pc = "write" => other.points # writer.points

WritePoint(w) ==
  /\ job[w].pc = "write"
  /\ job[w].todo # {}
  /\ LET p == FirstOf(job[w].todo) IN
       /\ daily' = Upsert(daily, [day |-> job[w].day, metric |-> p.metric, dim |-> p.dim, value |-> p.value])
       /\ job' = [v \in Workers |->
                    IF v = w THEN [job[w] EXCEPT !.todo = @ \ {p}]
                    ELSE IF Crossed(job[v], job[w]) THEN [job[v] EXCEPT !.alone = FALSE] ELSE job[v]]
  /\ torn' = torn \cup {job[w].day}
  /\ settled' = settled \ {job[w].day}
  /\ UNCHANGED <<now, reads, kpis, cohorts, jobs, faults>>

Scalar(points, metric) ==
  LET found == {p \in points : p.metric = metric /\ p.dim = ""} IN
  IF found = {} THEN 0 ELSE (CHOOSE p \in found : TRUE).value

\* After the headline rows: the next day of a backfill, the retention matrix, or done.
AppendHeadlineKpis(w) ==
  /\ job[w].pc = "write"
  /\ job[w].todo = {}
  /\ kpis' = kpis \cup {[asOf |-> job[w].day + 1, wau |-> Scalar(job[w].points, "wau"),
                         mau |-> Scalar(job[w].points, "mau"), events |-> Scalar(job[w].points, "events")]}
  /\ torn' = IF job[w].alone THEN torn \ {job[w].day} ELSE torn
  /\ settled' = IF job[w].alone /\ job[w].clean THEN settled \cup {job[w].day} ELSE settled
  /\ Turns(w, IF job[w].day < job[w].upto THEN [job[w] EXCEPT !.pc = "day", !.day = @ + 1, !.points = {}]
              ELSE IF job[w].kind = "incremental" THEN Idle
              ELSE [job[w] EXCEPT !.pc = "installs", !.points = {}])
  /\ UNCHANGED <<now, reads, daily, cohorts, jobs, faults>>

ReadInstalls(w) ==
  /\ job[w].pc = "installs"
  /\ Turns(w, [job[w] EXCEPT !.pc = "activity",
                 !.rows = Named(ReadWindow(mirror, RetentionFrom(job[w].at), DayStart(DayOf(job[w].at) + 1)),
                                {"app_installed"})])
  /\ UNCHANGED <<now, reads, daily, kpis, cohorts, jobs, faults, settled, torn>>

ReadActivity(w) ==
  /\ job[w].pc = "activity"
  /\ LET active == ReadWindow(mirror, RetentionFrom(job[w].at), DayStart(DayOf(job[w].at) + 1)) IN
       Turns(w, [job[w] EXCEPT !.pc = "retention", !.rows = {},
                               !.todo = RetentionRows(job[w].rows, active, job[w].at)])
  /\ UNCHANGED <<now, reads, daily, kpis, cohorts, jobs, faults, settled, torn>>

WriteRetention(w) ==
  /\ job[w].pc = "retention"
  /\ IF job[w].todo = {}
     THEN Turns(w, Idle) /\ UNCHANGED daily
     ELSE LET row == CHOOSE r \in job[w].todo : TRUE IN
          /\ daily' = Upsert(daily, row)
          /\ Turns(w, [job[w] EXCEPT !.todo = @ \ {row}])
  /\ UNCHANGED <<now, reads, kpis, cohorts, jobs, faults, settled, torn>>

\* One read, then one statement that appends a row per shop.
RunAssignment(w) ==
  /\ job[w].pc \in {"cohort", "append"}
  /\ IF job[w].pc = "cohort"
     THEN /\ Turns(w, [job[w] EXCEPT !.pc = "append", !.rows = ComputeAssignments(mirror, job[w].at)])
          /\ UNCHANGED cohorts
     ELSE /\ Turns(w, Idle)
          /\ cohorts' = cohorts \cup job[w].rows
  /\ UNCHANGED <<now, reads, daily, kpis, jobs, faults, settled, torn>>

\* A read or a write fails; the job starts over, and on the day it is by then, while it
\* has attempts left.
Fail(w) ==
  /\ job[w].pc # "idle"
  /\ faults > 0
  /\ faults' = faults - 1
  /\ Turns(w, IF job[w].attempt < Attempts
              THEN Fresh(job[w].kind, FirstDay(job[w].kind, now), FirstDay(job[w].kind, now), job[w].attempt + 1)
              ELSE Idle)
  /\ UNCHANGED <<now, reads, daily, kpis, cohorts, jobs, settled, torn>>

-----------------------------------------------------------------------------
Rollup(w) ==
  \/ Take(w) \/ ReadDay(w) \/ ReadWide(w) \/ WritePoint(w) \/ AppendHeadlineKpis(w)
  \/ ReadInstalls(w) \/ ReadActivity(w) \/ WriteRetention(w) \/ RunAssignment(w) \/ Fail(w)

Next == Tick \/ Ingest \/ Delete \/ \E w \in Workers : Rollup(w)

Spec == Init /\ [][Next]_vars
-----------------------------------------------------------------------------
Dims ==
  {""} \cup ToSet(Stages) \cup Adoption \cup {OffsetText[n] : n \in DOMAIN OffsetText}
  \cup {Feed[i].name : i \in DOMAIN Feed} \cup UNION {Feed[i].rules : i \in DOMAIN Feed}
Rows == [day : Int, metric : ToSet(DayMetrics) \cup {"cohort_size", "cohort"}, dim : Dims, value : Nat]

TypeOK ==
  /\ now \in 0 .. MaxNow
  /\ ingested \in 0 .. Len(Feed)
  /\ mirror \subseteq {Feed[i] : i \in 1 .. ingested}
  /\ \A r \in daily : r \in Rows
  /\ \A k \in kpis : k \in [asOf : Nat, wau : Nat, mau : Nat, events : Nat]
  /\ \A c \in cohorts : c.shop \in Shops /\ c.at <= now
  /\ \A w \in Workers : job[w].pc \in
       {"idle", "day", "window", "write", "installs", "activity", "retention", "cohort", "append"}
  /\ jobs \in Nat /\ faults \in Nat
  /\ settled \subseteq 0 .. Today /\ torn \subseteq 0 .. Today

ComputedRows(day) ==
  {[day |-> day, metric |-> p.metric, dim |-> p.dim, value |-> p.value] :
     p \in DayPoints(DayRows(mirror, day), WindowRows(mirror, day), day)}

StoredRows(day) == {r \in daily : r.day = day /\ r.metric \notin {"cohort", "cohort_size"}}

\* "a re-run is idempotent and self-heals a partial failure": when a day has been rolled
\* up from the mirror as it is now, through whatever failures, retries and other jobs, also
\* those that run meanwhile, the stored rows are those the mirror gives.  One rollup that stores
\* a point while another is at the day with other reads leaves the day to the next.  Rows of
\* an earlier run that the mirror no longer gives stay (an upsert deletes nothing), but only
\* after events have been deleted, or for a validation rule that has dropped out of the top.
SettledIsComputed ==
  \A d \in settled :
    LET computed == ComputedRows(d)
        stored == StoredRows(d) IN
    /\ computed \subseteq stored
    /\ \A r \in stored \ computed : r.metric = "rule" \/ Cardinality(mirror) < ingested

\* The metric families are computed apart, from two windows, and must tell one story:
\* shops active today are among the week's, those among the month's; a stage is reached by
\* shops that are active, a feature adopted by them; every event is some action.
NumbersAgree ==
  \A d \in settled :
    LET computed == ComputedRows(d)
        of(m) == {r \in computed : r.metric = m}
        v(m) == (CHOOSE r \in of(m) : TRUE).value IN
    /\ v("dau") <= v("wau") /\ v("wau") <= v("mau") /\ v("mau") <= v("active90")
    /\ v("mau") = v("active30")
    /\ Total(of("action")) = v("events")
    /\ \A r \in of("stage") : r.value <= v("dau")
    /\ \A r \in of("adoption30") : r.value <= v("active30")
    /\ \A r \in of("adoption90") : r.value <= v("active90")

\* What the readers show, unless the newest day is half stored or was last stored by two rollups
\* at once that had read different mirrors: no feature is used by more shops than are active,
\* the headline tile can show the stored WAU, and a feature's trend ends in its bar; unless
\* events have been deleted (perhaps between the two reads of the day), the day's shops are
\* among its month's, and its actions add up to its events.  The pages are about the same shops,
\* each of them on the first stage or churned, and about no day to come.  The funnel counts what
\* the digest compares.  Against a week that has no rows the digest claims no movement and no
\* rule that watches for a drop fires.
ReadersAgree ==
  LET newest == Newest(OfMetric(daily, "dau"))  \* a day's first point
      digest == Compose(daily, cohorts, Today)
      page == Overview(daily, kpis, cohorts, Today)
      features == FeaturesPage(daily, Today)
      funnel == FunnelPage(daily).stages
      known == ShopsPage(cohorts) IN
  /\ \A r \in newest : r.day \notin torn =>
       /\ \A f \in Adoption :
            /\ features.adoption30[f].shops <= features.adoption30[f].active
            /\ features.adoption90[f].shops <= features.adoption90[f].active
            /\ \E p \in features.trends[f] :
                 p = [day |-> r.day, value |-> features.adoption30[f].shops, provisional |-> r.day = Today]
       /\ Cardinality(mirror) = ingested => \A s \in page.stickiness : s[1] <= s[2]
       /\ \A wau \in LatestScalar(daily, "wau") :
            \E k \in page.headline : k.asOf = r.day + 1 /\ k.wau = wau
       /\ \A e \in LatestScalar(daily, "events") :
            e > 0 /\ Cardinality(mirror) = ingested => Total(page.topActions) = e
  /\ \A p \in page.activeShops : p.day <= Today /\ p.provisional = (p.day = Today)
  /\ page.activationFunnel[1] = Cardinality({c.shop : c \in {k \in known : k.lifecycle # "CHURNED"}})
  /\ \A i \in DOMAIN Stages :
       WeekSum(daily, "stage", Stages[i], ThisWeek(Today) \cup LastWeek(Today)).value <= funnel[i].shops
  /\ digest.missingLastWeek =>
       /\ digest.wau.delta = {} /\ digest.mau.delta = {} /\ digest.top = {} /\ digest.bottom = {}
       /\ \A kind \in {"METRIC_WOW_POINTS", "METRIC_WOW_PERCENT"} :
            LET rule == [kind |-> kind, metric |-> "wau", dim |-> ""] IN
            ~IsBreach("DROP_GT", ObserveDelta(rule, daily, cohorts, Today), 0)
  /\ \A lifecycle \in DOMAIN digest.transitions :
       LET rule == [kind |-> "COHORT_TRANSITION", metric |-> lifecycle, dim |-> ""] IN
       digest.transitions[lifecycle] = {} =>
         ~IsBreach("DROP_GT", ObserveDelta(rule, daily, cohorts, Today), 0)
=============================================================================
