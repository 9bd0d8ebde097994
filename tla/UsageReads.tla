------------------------------- MODULE UsageReads -------------------------------
(***************************************************************************)
(* What the dashboard, the weekly digest and the alert rules read back     *)
(* from the stored rows.  Operators only.  A metric row is                 *)
(* [day, metric, dim, value], a KPI row [asOf, wau, mau, events] and a     *)
(* cohort row [shop, lifecycle, intensity, personas, at].                  *)
(***************************************************************************)
EXTENDS UsageMetrics

OfMetric(rows, metric) == {r \in rows : r.metric = metric}
Newest(rows) == {r \in rows : \A q \in rows : r.day >= q.day}

\* Mutant: the day is not looked at.
LatestScalarAnyDay(rows, metric) == {r.value : r \in {q \in OfMetric(rows, metric) : q.dim = ""}}

\* Null, an empty set, when the metric has no scalar row.
LatestScalar(rows, metric) == {r.value : r \in Newest({q \in OfMetric(rows, metric) : q.dim = ""})}

\* Every dimension of the newest day on which the metric has a row.
LatestDimensionValues(rows, metric) ==
  LET newest == {r \in Newest(OfMetric(rows, metric)) : r.dim # ""} IN
  [d \in {r.dim : r \in newest} |-> (CHOOSE r \in newest : r.dim = d).value]

AdoptionRows(rows, numerator, denominator) ==
  LET shops == LatestDimensionValues(rows, numerator)
      active == LatestScalar(rows, denominator) IN
  [f \in Adoption |->
     [shops |-> IF f \in DOMAIN shops THEN shops[f] ELSE 0,
      active |-> IF active = {} THEN 0 ELSE CHOOSE v \in active : TRUE]]

\* readKpis sorts by asOf alone: the tile may show any of the rows with the latest.
LatestKpis(kpis) == {k \in kpis : \A q \in kpis : k.asOf >= q.asOf}

\* The rows of the newest run, one per shop.
LatestCohortRows(rows) ==
  LET newest == {r \in rows : \A q \in rows : r.at >= q.at} IN
  {CHOOSE r \in newest : r.shop = s : s \in {r.shop : r \in newest}}

-----------------------------------------------------------------------------
(* The pages of the dashboard.                                             *)

\* The days that have a row, in no way filled up; today's may still change.
Series(rows, metric, dim, today) ==
  {[day |-> r.day, value |-> r.value, provisional |-> r.day = today] :
     r \in {q \in OfMetric(rows, metric) : q.dim = dim}}

\* The sum of the values of some rows: as many pairs.
Total(rows) == Cardinality(UNION {{r} \X (1 .. r.value) : r \in rows})

\* Totals by name, each with the number of those that come before it.
Rank(totals) ==
  {[name |-> n, value |-> totals[n], before |-> Cardinality({k \in DOMAIN totals : totals[k] > totals[n]})] :
     n \in DOMAIN totals}

LatestDimensioned(rows, metric) == Rank(LatestDimensionValues(rows, metric))

\* A shop that has churned is on no stage.
ActivationLadder ==
  << {"NEW", "ONBOARDING", "ACTIVATED", "ENGAGED", "DORMANT"},
     {"ONBOARDING", "ACTIVATED", "ENGAGED"}, {"ACTIVATED", "ENGAGED"}, {"ENGAGED"} >>

\* Stickiness, DAU per MAU, is null, an empty set, when there is no MAU.
Overview(rows, kpis, cohorts, today) ==
  LET run == LatestCohortRows(cohorts) IN
  [headline |-> LatestKpis(kpis),
   stickiness |-> {<<d, m>> : d \in LatestScalar(rows, "dau"), m \in LatestScalar(rows, "mau") \ {0}},
   activeShops |-> Series(rows, "wau", "", today),
   topActions |-> LatestDimensioned(rows, "action"),
   activationFunnel |-> [i \in DOMAIN ActivationLadder |->
     Cardinality({c \in run : c.lifecycle \in ActivationLadder[i]})]]

FeaturesPage(rows, today) ==
  [adoption30 |-> AdoptionRows(rows, "adoption30", "active30"),
   adoption90 |-> AdoptionRows(rows, "adoption90", "active90"),
   trends |-> [f \in Adoption |-> Series(rows, "adoption30", f, today)]]

\* Sums over all days.  A rate is a pair, shops per base; without a base it is 0, but for the
\* first stage 1.  Medians cannot be summed: the newest day's are shown, in the stages' order.
FunnelPage(rows) ==
  LET total(metric, dim) == Total({r \in OfMetric(rows, metric) : r.dim = dim})
      shops == [i \in DOMAIN Stages |-> total("stage", Stages[i])]
      rate(i, base) == IF base > 0 THEN <<shops[i], base>> ELSE <<IF i = 1 THEN 1 ELSE 0, 1>>
      dwell == LatestDimensionValues(rows, "dwell") IN
  [stages |-> [i \in DOMAIN Stages |->
     [shops |-> shops[i], fromStart |-> rate(i, shops[1]),
      fromPrev |-> IF i = 1 THEN <<1, 1>> ELSE rate(i, shops[i - 1])]],
   rules |-> Rank([d \in {r.dim : r \in OfMetric(rows, "rule")} |-> total("rule", d)]),
   dwell |-> SelectSeq(Stages, LAMBDA s : s \in DOMAIN dwell)]

ShopsPage(cohorts) == LatestCohortRows(cohorts)

-----------------------------------------------------------------------------
(* Weeks against weeks, for the digest and the alerts.  Today is never     *)
(* part of either week.                                                    *)

ThisWeek(today) == (today - Week) .. (today - 1)
LastWeek(today) == (today - 2 * Week) .. (today - Week - 1)

WeekSum(rows, metric, dim, days) ==
  LET in == {r \in OfMetric(rows, metric) : r.dim = dim /\ r.day \in days} IN
  [value |-> Total(in), count |-> Cardinality(in)]

\* The difference of two averages, over a common denominator; an empty week is 0.
AverageDelta(this, last) ==
  LET n(w) == IF w.count = 0 THEN 1 ELSE w.count IN
  [num |-> this.value * n(last) - last.value * n(this), den |-> n(this) * n(last)]

\* The shops of the newest run in a week that have the lifecycle.
LifecycleCount(cohorts, lifecycle, days) ==
  LET run == LatestCohortRows({c \in cohorts : DayOf(c.at) \in days}) IN
  Cardinality({c \in run : c.lifecycle = lifecycle})

\* What a rule observes, as a fraction; in hundredths for a percentage.
ObserveDelta(rule, rows, cohorts, today) ==
  LET this == WeekSum(rows, rule.metric, rule.dim, ThisWeek(today))
      last == WeekSum(rows, rule.metric, rule.dim, LastWeek(today))
      delta == AverageDelta(this, last) IN
  CASE rule.kind = "COHORT_TRANSITION" ->
         [num |-> LifecycleCount(cohorts, rule.metric, ThisWeek(today))
                  - LifecycleCount(cohorts, rule.metric, LastWeek(today)), den |-> 1]
    [] rule.kind = "METRIC_WOW_PERCENT" ->
         IF last.value = 0 THEN [num |-> 0, den |-> 1]
         ELSE [num |-> 100 * delta.num, den |-> last.value * (delta.den \div last.count)]
    [] OTHER -> delta

IsBreach(comparison, observed, threshold) ==
  IF comparison = "DROP_GT" THEN -observed.num > threshold * observed.den
  ELSE observed.num > threshold * observed.den

\* A mover without a last week has no delta, the empty set.
Mover(name, this, last) ==
  [name |-> name, delta |-> IF last.count = 0 THEN {} ELSE {AverageDelta(this, last)}]

ScalarMover(rows, metric, today) ==
  Mover(metric, WeekSum(rows, metric, "", ThisWeek(today)), WeekSum(rows, metric, "", LastWeek(today)))

\* Stages and features are summed over the week, not averaged.
SumMover(rows, metric, dim, today) ==
  LET total(w) == [value |-> w.value, count |-> IF w.count = 0 THEN 0 ELSE 1] IN
  Mover(dim, total(WeekSum(rows, metric, dim, ThisWeek(today))),
             total(WeekSum(rows, metric, dim, LastWeek(today))))

Moved(mover) == IF mover.delta = {} THEN 0 ELSE (CHOOSE d \in mover.delta : TRUE).num

\* The first of the stages that moved most, among those with any row.
BiggestFunnelMove(rows, today) ==
  LET any(s) == \E r \in OfMetric(rows, "stage") : r.dim = s /\ r.day \in LastWeek(today) \cup ThisWeek(today)
      stages == SelectSeq(Stages, any)
      abs(n) == IF n < 0 THEN -n ELSE n
      size(i) == abs(Moved(SumMover(rows, "stage", stages[i], today)))
      best == {i \in DOMAIN stages : \A j \in DOMAIN stages : size(i) >= size(j)} IN
  {SumMover(rows, "stage", stages[i], today) : i \in {j \in best : \A k \in best : j <= k}}

\* Features by how much they moved; three at most are reported at each end.
AdoptionMovers(rows, today) == {SumMover(rows, "adoption30", f, today) : f \in Adoption}
Fallen(mover) == -Moved(mover)
TopMovers(rows, today) == Foremost({m \in AdoptionMovers(rows, today) : Moved(m) > 0}, Moved, 3)
BottomMovers(rows, today) == Foremost({m \in AdoptionMovers(rows, today) : Moved(m) < 0}, Fallen, 3)

CohortTransitions(cohorts, today) ==
  [lifecycle \in {"ENGAGED", "DORMANT", "CHURNED"} |->
     IF \E c \in cohorts : DayOf(c.at) \in LastWeek(today)
     THEN {LifecycleCount(cohorts, lifecycle, ThisWeek(today))
           - LifecycleCount(cohorts, lifecycle, LastWeek(today))}
     ELSE {}]

Compose(rows, cohorts, today) ==
  [missingLastWeek |-> ~\E r \in rows : r.day \in LastWeek(today),
   wau |-> ScalarMover(rows, "wau", today), mau |-> ScalarMover(rows, "mau", today),
   funnel |-> BiggestFunnelMove(rows, today),
   top |-> TopMovers(rows, today), bottom |-> BottomMovers(rows, today),
   transitions |-> CohortTransitions(cohorts, today)]
=============================================================================
