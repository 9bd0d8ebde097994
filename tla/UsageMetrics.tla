------------------------------ MODULE UsageMetrics ------------------------------
(***************************************************************************)
(* The arithmetic of the usage dashboards, without any state: the metrics  *)
(* of a UTC day and the retention matrix computed from mirrored events,    *)
(* the cohort labels of a shop, and what the alerts, the weekly digest and *)
(* the dashboard read back from the stored rows.                           *)
(*                                                                         *)
(* An instant is a natural number and a day DayLength instants; a week, a  *)
(* month and a quarter are constants, so that a small instance has several *)
(* of each.  An average is a pair [value, count], never divided.           *)
(***************************************************************************)
EXTENDS Integers, FiniteSets, SequencesExt

CONSTANTS
  DayLength, Week, Month, Quarter,  \* instants a day; 7, 30 and 90 days
  Features,       \* FEATURE_EVENT_NAMES: each feature's event names
  Steps,          \* WIZARD_STEP_STAGES, in order
  TopRules,       \* USAGE_FUNNEL_TOP_RULES
  MaxWeeks,       \* USAGE_RETENTION_MAX_WEEKS
  OffsetText,     \* the text of each offset of a week from its cohort's
  Weights,        \* USAGE_INTENSITY_WEIGHT_*
  PowerPercent, RegularPercent,  \* USAGE_INTENSITY_PERCENTILE_*, in hundredths
  PersonaMin      \* USAGE_PERSONA_*

\* What is supposed of the constants.
MetricsConfigured ==
  /\ DayLength \in Nat \ {0} /\ Week \in Nat \ {0}
  /\ Month \in Nat /\ Quarter \in Nat /\ Week <= Month /\ Month <= Quarter
  /\ DOMAIN Features \subseteq STRING \ {""} /\ Steps \in Seq(STRING \ {""})
  /\ TopRules \in Nat /\ MaxWeeks \in Nat \ {0}
  /\ OffsetText \in [0 .. MaxWeeks - 1 -> STRING] /\ IsInjective(OffsetText)
  /\ PowerPercent \in 0 .. 100 /\ RegularPercent \in 0 .. 100

\* The k-th smallest of the values of some things.
Smallest(S, Value(_), k) ==
  CHOOSE v \in {Value(x) : x \in S} :
    Cardinality({x \in S : Value(x) < v}) < k /\ k <= Cardinality({x \in S : Value(x) <= v})

\* The few of greatest value; of those of equal value, some.
Foremost(S, Value(_), n) ==
  LET at == CHOOSE f \in [S -> 1 .. Cardinality(S)] : IsInjective(f)
      ahead(x, y) == Value(x) > Value(y) \/ (Value(x) = Value(y) /\ at[x] < at[y]) IN
  {y \in S : Cardinality({x \in S : ahead(x, y)}) < n}

Stages == <<"started">> \o Steps \o <<"completed">>
Adoption == DOMAIN Features \cup {"markets_sync"}
EventsOf(feature) == IF feature \in DOMAIN Features THEN Features[feature] ELSE {}

DayOf(t) == t \div DayLength
DayStart(day) == day * DayLength
Before(day, days) == IF day > days THEN DayStart(day - days) ELSE 0

\* 1970-01-01, day 0, is a Thursday.
IsoWeekStart(t) == LET back == (DayOf(t) + 3) % Week IN DayOf(t) - back
WeekOffset(week0, t) == (DayOf(t) - week0) \div Week

-----------------------------------------------------------------------------
(* The metrics of a day.                                                   *)

\* Support staff acting as a merchant contribute to no metric.
ReadWindow(mirror, from, to) == {r \in mirror : ~r.impersonated /\ from <= r.at /\ r.at < to}
DistinctShops(rows) == Cardinality({r.shop : r \in rows})
Named(rows, names) == {r \in rows : r.name \in names}

Point(metric, dim, value) == [metric |-> metric, dim |-> dim, value |-> value]
Since(rows, to, days) == {r \in rows : r.at >= Before(to, days)}

\* "to" is the day after the day described.
ActivityMetrics(dayRows, windowRows, to) ==
  {Point("dau", "", DistinctShops(dayRows)), Point("events", "", Cardinality(dayRows)),
   Point("wau", "", DistinctShops(Since(windowRows, to, Week))),
   Point("mau", "", DistinctShops(Since(windowRows, to, Month)))}
  \cup {Point("action", n, Cardinality(Named(dayRows, {n}))) : n \in {r.name : r \in dayRows}}

Saves(dayRows, step) == {r \in Named(dayRows, {"wizard_step_saved"}) : r.step = step}

Reached(dayRows, stage) ==
  CASE stage = "started" -> Named(dayRows, {"wizard_started"})
    [] stage = "completed" -> Named(dayRows, {"wizard_completed"})
    [] OTHER -> Saves(dayRows, stage)

RuleFailures(dayRows, rule) ==
  Cardinality({r \in Named(dayRows, {"wizard_validation_failed"}) : rule \in r.rules})

\* A shop counts once per stage; the failed rules that are most frequent are kept.
FunnelMetrics(dayRows) ==
  LET failed == UNION {r.rules : r \in Named(dayRows, {"wizard_validation_failed"})}
      failures(rule) == RuleFailures(dayRows, rule) IN
  {Point("stage", s, DistinctShops(Reached(dayRows, s))) : s \in {s \in ToSet(Stages) : Reached(dayRows, s) # {}}}
  \cup {Point("rule", r, failures(r)) : r \in Foremost(failed, failures, TopRules)}

\* Twice the median of the durations of some rows, so that it is a whole number.
TwiceMedian(rows) ==
  LET n == Cardinality(rows)
      ms(r) == r.ms IN
  Smallest(rows, ms, (n + 1) \div 2) + Smallest(rows, ms, n \div 2 + 1)

\* A save without a duration (a negative ms) is no sample.
Samples(dayRows, step) == {r \in Saves(dayRows, step) : r.ms >= 0}

DwellMetrics(dayRows) ==
  {Point("dwell", s, TwiceMedian(Samples(dayRows, s))) : s \in {s \in ToSet(Steps) : Samples(dayRows, s) # {}}}

Touching(rows, feature) ==
  IF feature = "markets_sync" THEN {r \in Named(rows, {"setting_saved"}) : r.key = "markets_sync"}
  ELSE Named(rows, EventsOf(feature))

\* Mutant: the two denominators are swapped.
AdoptionSwapped(windowRows, to) ==
  LET month == Since(windowRows, to, Month) IN
  {Point("adoption30", f, DistinctShops(Touching(month, f))) : f \in Adoption}
  \cup {Point("adoption90", f, DistinctShops(Touching(windowRows, f))) : f \in Adoption}
  \cup {Point("active30", "", DistinctShops(windowRows)), Point("active90", "", DistinctShops(month))}

\* The shops that touched each feature, and the shops that were there to touch it.
AdoptionMetrics(windowRows, to) ==
  LET month == Since(windowRows, to, Month) IN
  {Point("adoption30", f, DistinctShops(Touching(month, f))) : f \in Adoption}
  \cup {Point("adoption90", f, DistinctShops(Touching(windowRows, f))) : f \in Adoption}
  \cup {Point("active30", "", DistinctShops(month)), Point("active90", "", DistinctShops(windowRows))}

\* What rollupDay writes for a day, given the two windows it has read.
DayPoints(dayRows, windowRows, day) ==
  ActivityMetrics(dayRows, windowRows, day + 1) \cup FunnelMetrics(dayRows)
  \cup AdoptionMetrics(windowRows, day + 1) \cup DwellMetrics(dayRows)

\* The order it writes them in: metric by metric, but a feature's two numbers together.
DayMetrics ==
  <<"dau", "events", "action", "wau", "mau", "stage", "rule", "adoption30", "adoption90",
    "active30", "active90", "dwell">>
Place(metric) == CHOOSE i \in DOMAIN DayMetrics : DayMetrics[i] = metric
FirstOf(points) ==
  LET first == CHOOSE p \in points : \A q \in points : Place(p.metric) <= Place(q.metric)
      begun == {q \in points : q.metric = "adoption90" /\ ~\E p \in points : p.metric = "adoption30" /\ p.dim = q.dim} IN
  IF first.metric \in {"adoption30", "adoption90"} /\ begun # {} THEN CHOOSE q \in begun : TRUE ELSE first

DayRows(mirror, day) == ReadWindow(mirror, DayStart(day), DayStart(day + 1))
WindowRows(mirror, day) == ReadWindow(mirror, Before(day + 1, Quarter), DayStart(day + 1))

-----------------------------------------------------------------------------
(* The retention matrix: install cohorts by week, and who came back.       *)

RetentionFrom(now) == Before(IsoWeekStart(now), (MaxWeeks - 1) * Week)

\* Each shop's week of first installation, among the installations read.
CohortShops(installs) ==
  LET first(s) == CHOOSE r \in installs : r.shop = s /\ \A q \in installs : q.shop = s => r.at <= q.at IN
  [s \in {r.shop : r \in installs} |-> IsoWeekStart(first(s).at)]

\* Rows are dated by the cohort's first Monday.
RetentionRows(installs, activity, now) ==
  LET cohort == CohortShops(installs)
      members(w) == {s \in DOMAIN cohort : cohort[s] = w}
      inWeek(r, w) == DayStart(w) <= r.at /\ r.at < DayStart(w + Week)
      back(w, n) == {s \in members(w) : \E r \in activity : r.shop = s /\ inWeek(r, w + n * Week)}
      weeks(w) == {n \in 0 .. MaxWeeks - 1 : n <= WeekOffset(w, now)}
      cohorts == {cohort[s] : s \in DOMAIN cohort}
      row(w, metric, dim, shops) == [day |-> w, metric |-> metric, dim |-> dim, value |-> Cardinality(shops)] IN
  {row(w, "cohort_size", "", members(w)) : w \in cohorts}
  \cup UNION {{row(w, "cohort", OffsetText[n], back(w, n)) : n \in weeks(w)} : w \in cohorts}

-----------------------------------------------------------------------------
(* Cohort labels.                                                          *)

Earliest(rows) == CHOOSE t \in {r.at : r \in rows} : \A r \in rows : t <= r.at
Latest(rows) == CHOOSE t \in {r.at : r \in rows} : \A r \in rows : t >= r.at

Uninstalled(rows) ==
  LET gone == Named(rows, {"app_uninstalled"})
      back == Named(rows, {"app_installed"}) IN
  gone # {} /\ (back = {} \/ Latest(gone) >= Latest(back))

\* The trailing month, today included.
Trailing(rows, now) == {r \in rows : r.at >= Before(DayOf(now) + 1, Month)}

AssignLifecycle(rows, now) ==
  LET installs == Named(rows, {"app_installed"})
      activations == Named(rows, {"campaign_activated"}) IN
  CASE Uninstalled(rows) -> "CHURNED"
    [] ~Uninstalled(rows) /\ installs # {} /\ now - Earliest(installs) < Week * DayLength -> "NEW"
    [] OTHER -> IF activations = {} THEN "ONBOARDING"
                ELSE IF now - Earliest(activations) <= Month * DayLength THEN "ACTIVATED"
                ELSE IF Trailing(rows, now) # {} THEN "ENGAGED" ELSE "DORMANT"

\* The counts of a shop's trailing month.
IntensityCounts(window) ==
  [campaigns |-> Cardinality(Named(window, {"campaign_activated"})),
   wizards |-> Cardinality(Named(window, {"wizard_started"})),
   templates |-> Cardinality(Named(window, EventsOf("badges") \cup EventsOf("banner"))),
   days |-> Cardinality({DayOf(r.at) : r \in window})]

IntensityScore(counts) ==
  counts.campaigns * Weights.campaign + counts.wizards * Weights.wizard
  + counts.templates * Weights.template + counts.days * Weights.day

\* Nearest rank: the ceil(p N)-th smallest of the scores that are not 0.
PercentileValue(score, percent) ==
  LET scored == {s \in DOMAIN score : score[s] > 0}
      rank == (percent * Cardinality(scored) + 99) \div 100
      of(s) == score[s] IN
  Smallest(scored, of, IF rank < 1 THEN 1 ELSE rank)

IntensityBand(score, shop) ==
  CASE score[shop] <= 0 -> "INACTIVE"
    [] score[shop] > 0 /\ score[shop] >= PercentileValue(score, PowerPercent) -> "POWER"
    [] OTHER -> IF score[shop] >= PercentileValue(score, RegularPercent) THEN "REGULAR" ELSE "LIGHT"

PersonaCounts(window) ==
  [events |-> [f \in {"discount_codes", "badges", "banner", "recurrence", "flow"} |->
                Cardinality(Named(window, EventsOf(f)))],
   features |-> {f \in Adoption : Touching(window, f) # {}},
   active |-> window # {}]

AssignPersonas(counts) ==
  LET n == counts.events IN
  {p \in {"DISCOUNT_ORCHESTRATOR", "BADGE_DESIGNER", "BANNER_BROADCASTER", "AUTOMATION_USER",
          "MULTI_MARKET", "MINIMALIST"} :
     CASE p = "DISCOUNT_ORCHESTRATOR" -> n.discount_codes >= PersonaMin.discount
       [] p = "BADGE_DESIGNER" -> n.badges >= PersonaMin.badge
       [] p = "BANNER_BROADCASTER" -> n.banner >= PersonaMin.banner
       [] p = "AUTOMATION_USER" -> n.recurrence >= PersonaMin.automation \/ n.flow >= PersonaMin.automation
       [] p = "MULTI_MARKET" -> "markets_sync" \in counts.features
       [] OTHER -> counts.active /\ Cardinality(counts.features) <= PersonaMin.breadth}

\* One row per shop that has an event; the bands are relative to this run's scores.
ComputeAssignments(mirror, now) ==
  LET live == {r \in mirror : ~r.impersonated}
      ofShop(s) == {r \in live : r.shop = s}
      score == [s \in {r.shop : r \in live} |-> IntensityScore(IntensityCounts(Trailing(ofShop(s), now)))] IN
  {[shop |-> s, lifecycle |-> AssignLifecycle(ofShop(s), now),
    intensity |-> IntensityBand(score, s),
    personas |-> AssignPersonas(PersonaCounts(Trailing(ofShop(s), now))), at |-> now] : s \in DOMAIN score}
=============================================================================
