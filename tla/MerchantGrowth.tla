---------------------------- MODULE MerchantGrowth ----------------------------
(***************************************************************************)
(* Uninstalls, reinstalls and the health of merchants: the handler of the  *)
(* uninstall webhook, the hourly growth rollup, which scores every shop    *)
(* that the replica lists and infers reinstalls, and the KPI rollup, which *)
(* also runs after an uninstall.  Deliveries may be repeated and replayed, *)
(* the replica lags, and a rollup that was taken for dead may still run    *)
(* beside the next.                                                        *)
(***************************************************************************)
EXTENDS Naturals, FiniteSets, Sequences

CONSTANTS
  Shops,
  Jobs,         \* growth rollups that may run at once
  Signals,      \* what else a score is made of: sub, cap, open, csat
  Supplies      \* bounds: shops, events of the world, deliveries, rollups, KPI rollups, failures

VARIABLES
  active,       \* the shops that have the app installed
  listed,       \* ... as the replica has it
  signals,      \* per shop
  deliverable,  \* shops that have uninstalled, so that the webhook may be delivered or replayed
  events,       \* MerchantLifecycleEvent per shop, in the order of the commits
  hooks,        \* handlers of the webhook in progress
  rolls,        \* growth rollups in progress
  snaps,        \* MerchantHealthSnapshot per shop, in the order of the commits
  banded,       \* observation only: per shop the band that the last audit row names
  gauges,       \* KpiSnapshot: the newest of the growth rollups
  kpis,         \* KpiSnapshot: the newest active_merchants
  counting,     \* KPI rollups in progress
  clock,
  supply,
  odd           \* observation only: shops that two calls had in hand at once, shops recorded as
                \*   reinstalled that the rollup's list has as gone, whether two rollups overlapped

vars == <<active, listed, signals, deliverable, events, hooks, rolls, snaps, banded, gauges, kpis,
          counting, clock, supply, odd>>

world == <<active, listed, signals, deliverable>>
scores == <<snaps, banded, gauges>>
counts == <<kpis, counting>>

Idle == [pc |-> "idle"]

Init ==
  /\ supply \in Supplies
  /\ active = supply.shops /\ listed = active
  /\ signals \in [supply.shops -> Signals]
  /\ deliverable = {}
  /\ events = [s \in Shops |-> <<>>]
  /\ hooks = {} /\ counting = {}
  /\ rolls = [j \in Jobs |-> Idle]
  /\ snaps = [s \in Shops |-> <<>>]
  /\ banded = [s \in Shops |-> "none"]
  /\ gauges = [at |-> 0, churned |-> 0, atRisk |-> 0]
  /\ kpis = [at |-> 0, active |-> {Cardinality(active)}, shown |-> Cardinality(active)]
  /\ clock = 0
  /\ odd = [raced |-> {}, gone |-> {}, overlapped |-> FALSE]

Uses(what) ==
  /\ supply[what] > 0
  /\ supply' = [supply EXCEPT ![what] = @ - 1]

\* Each call and each rollup has a moment of its own.
Now == clock + 1

\* The row with the latest time.
Newest(rows, none) ==
  IF rows = <<>> THEN none
  ELSE rows[CHOOSE i \in DOMAIN rows : \A j \in DOMAIN rows : rows[j].at <= rows[i].at]
Latest(s) == Newest(events[s], [kind |-> "none", at |-> 0])

-----------------------------------------------------------------------------
(* The world and its copy.                                                 *)

Uninstall(s) ==
  /\ Uses("world") /\ s \in active
  /\ active' = active \ {s} /\ deliverable' = deliverable \cup {s}
  /\ UNCHANGED <<listed, signals, events, hooks, rolls, scores, counts, clock, odd>>

Reinstall(s) ==
  /\ Uses("world") /\ s \notin active
  /\ active' = active \cup {s}
  /\ UNCHANGED <<listed, signals, deliverable, events, hooks, rolls, scores, counts, clock, odd>>

\* What a KPI rollup that has begun may come to see.
Seen == {[c EXCEPT !.ever = @ \cup {Cardinality(listed')}] : c \in counting}

Sync ==
  /\ listed # active
  /\ listed' = active
  /\ counting' = Seen
  /\ UNCHANGED <<active, signals, deliverable, events, hooks, rolls, scores, kpis, clock, supply, odd>>

\* Conversations, scores, subscription and alerts of a shop change.
SignalsChange(s) ==
  /\ Uses("world")
  /\ \E g \in Signals \ {signals[s]} : signals' = [signals EXCEPT ![s] = g]
  /\ UNCHANGED <<active, listed, deliverable, events, hooks, rolls, scores, counts, clock, odd>>

-----------------------------------------------------------------------------
(* LifecycleService.recordUninstall.                                       *)

\* The shops that a call has read and not yet written.
InHand(s) ==
  \/ \E h \in hooks : h.shop = s /\ h.pc = "write"
  \/ \E j \in Jobs : rolls[j].pc = "reinstall" /\ rolls[j].shop = s
\* ... or that are recorded with a time before that of the latest event.
Race(s, now) == [odd EXCEPT !.raced = IF InHand(s) \/ now < Latest(s).at THEN @ \cup {s} ELSE @]

Deliver(s) ==
  /\ Uses("deliveries") /\ s \in deliverable
  /\ clock' = Now
  /\ hooks' = hooks \cup {[shop |-> s, now |-> Now, pc |-> "read"]}
  /\ UNCHANGED <<world, events, rolls, scores, counts, odd>>

\* A shop that is already recorded as uninstalled is left alone.
FindLatest(h) ==
  /\ h.pc = "read"
  /\ IF Latest(h.shop).kind = "UNINSTALL"
     THEN hooks' = hooks \ {h} /\ UNCHANGED odd
     ELSE hooks' = (hooks \ {h}) \cup {[h EXCEPT !.pc = "write"]} /\ odd' = Race(h.shop, h.now)
  /\ UNCHANGED <<world, events, rolls, scores, counts, clock, supply>>

\* The KPI rollup that follows; its failure is captured and ends there.
Counting == [at |-> Now, got |-> FALSE, active |-> 0, ever |-> {Cardinality(listed)}]

Counts == Uses("kpis") /\ counting' = counting \cup {Counting} /\ clock' = Now

RecordUninstall(h) ==
  /\ h.pc = "write"
  /\ events' = [events EXCEPT ![h.shop] = Append(@, [kind |-> "UNINSTALL", at |-> h.now])]
  /\ hooks' = hooks \ {h}
  /\ IF supply.kpis > 0 THEN Counts ELSE UNCHANGED <<counting, clock, supply>>
  /\ UNCHANGED <<world, rolls, scores, kpis, odd>>

HandlerDies(h) ==
  /\ Uses("failures")
  /\ hooks' = hooks \ {h}
  /\ UNCHANGED <<world, events, rolls, scores, counts, clock, odd>>

-----------------------------------------------------------------------------
(* healthScore.                                                            *)

Penalties(g, uninstalled) ==
  (IF uninstalled THEN 100 ELSE 0)
  + (CASE g.sub = "cancelled" -> 50 [] g.sub = "none" -> 30 [] g.sub = "trial" -> 10 [] OTHER -> 0)
  + (IF g.cap THEN 15 ELSE 0)
  + 5 * (IF g.open > 3 THEN 3 ELSE g.open)
  + (IF g.csat # 0 /\ g.csat <= 2 THEN 20 ELSE 0)

ScoreHealth(g, uninstalled) ==
  LET score == Penalties(g, uninstalled) IN
  IF score >= 60 THEN "CRITICAL" ELSE IF score >= 25 THEN "AT_RISK" ELSE "HEALTHY"

-----------------------------------------------------------------------------
(* The growth rollup.                                                      *)

\* The shops that are listed, whatever their status.
RunRollup(j) ==
  /\ Uses("rollups") /\ rolls[j].pc = "idle"
  /\ clock' = Now
  /\ rolls' = [rolls EXCEPT ![j] = [pc |-> "next", now |-> Now, todo |-> supply.shops, was |-> listed, atRisk |-> 0]]
  /\ odd' = [odd EXCEPT !.overlapped = @ \/ \E i \in Jobs : rolls[i].pc # "idle"]
  /\ UNCHANGED <<world, events, hooks, scores, counts>>

GatherSignals(j) ==
  /\ rolls[j].pc = "next" /\ rolls[j].todo # {}
  /\ \E s \in rolls[j].todo :
       rolls' = [rolls EXCEPT ![j] = [pc |-> "prior", now |-> rolls[j].now, todo |-> rolls[j].todo \ {s}, shop |-> s,
                   was |-> rolls[j].was, atRisk |-> rolls[j].atRisk, prior |-> "none",
                   band |-> ScoreHealth(signals[s], Latest(s).kind = "UNINSTALL")]]
  /\ UNCHANGED <<world, events, hooks, scores, counts, clock, supply, odd>>

FindPrior(j) ==
  /\ rolls[j].pc = "prior"
  /\ rolls' = [rolls EXCEPT ![j].pc = "persist",
                            ![j].prior = Newest(snaps[rolls[j].shop], [band |-> "none", at |-> 0]).band]
  /\ UNCHANGED <<world, events, hooks, scores, counts, clock, supply, odd>>

\* The snapshot, and an audit row when the band is another.
Persist(j) ==
  /\ rolls[j].pc = "persist"
  /\ LET r == rolls[j] IN
       /\ snaps' = [snaps EXCEPT ![r.shop] = Append(@, [band |-> r.band, at |-> r.now])]
       /\ banded' = IF r.prior # r.band THEN [banded EXCEPT ![r.shop] = r.band] ELSE banded
       /\ rolls' = [rolls EXCEPT ![j].pc = "lookup", ![j].atRisk = IF r.band = "HEALTHY" THEN @ ELSE @ + 1]
  /\ UNCHANGED <<world, events, hooks, gauges, counts, clock, supply, odd>>

\* Mutant: the kind of the latest event is not looked at.
FindChurnedAny(j) ==
  /\ rolls[j].pc = "lookup"
  /\ LET s == rolls[j].shop IN
       /\ rolls' = [rolls EXCEPT ![j].pc = "reinstall"]
       /\ odd' = Race(s, rolls[j].now)
  /\ UNCHANGED <<world, events, hooks, scores, counts, clock, supply>>

\* recordReinstall: a shop that is listed and recorded as uninstalled.
FindChurned(j) ==
  /\ rolls[j].pc = "lookup"
  /\ LET s == rolls[j].shop
         churned == Latest(s).kind = "UNINSTALL" IN
       /\ rolls' = [rolls EXCEPT ![j].pc = IF churned THEN "reinstall" ELSE "next"]
       /\ odd' = IF churned THEN Race(s, rolls[j].now) ELSE odd
  /\ UNCHANGED <<world, events, hooks, scores, counts, clock, supply>>

RecordReinstall(j) ==
  /\ rolls[j].pc = "reinstall"
  /\ LET s == rolls[j].shop IN
       /\ events' = [events EXCEPT ![s] = Append(@, [kind |-> "REINSTALL", at |-> rolls[j].now])]
       /\ odd' = IF s \in rolls[j].was THEN odd ELSE [odd EXCEPT !.gone = @ \cup {s}]
  /\ rolls' = [rolls EXCEPT ![j].pc = "next"]
  /\ UNCHANGED <<world, hooks, scores, counts, clock, supply>>

ChurnedShops == {s \in Shops : Latest(s).kind = "UNINSTALL"}

\* The gauges are appended; the newest by time is what is shown.
AppendGauges(j) ==
  /\ rolls[j].pc = "next" /\ rolls[j].todo = {}
  /\ gauges' = IF rolls[j].now < gauges.at THEN gauges
               ELSE [at |-> rolls[j].now, churned |-> Cardinality(ChurnedShops), atRisk |-> rolls[j].atRisk]
  /\ rolls' = [rolls EXCEPT ![j] = Idle]
  /\ UNCHANGED <<world, events, hooks, snaps, banded, counts, clock, supply, odd>>

\* It is tried again, as a rollup of its own.
RollupFails(j) ==
  /\ Uses("failures") /\ rolls[j].pc # "idle"
  /\ rolls' = [rolls EXCEPT ![j] = Idle]
  /\ UNCHANGED <<world, events, hooks, scores, counts, clock, odd>>

-----------------------------------------------------------------------------
(* The KPI rollup: the moment is taken first, the replica is read then.    *)

KpiRollup ==
  /\ Counts
  /\ UNCHANGED <<world, events, hooks, rolls, scores, kpis, odd>>

ComputeKpis(c) ==
  /\ ~c.got
  /\ counting' = (counting \ {c}) \cup {[c EXCEPT !.got = TRUE, !.active = Cardinality(listed)]}
  /\ UNCHANGED <<world, events, hooks, rolls, scores, kpis, clock, supply, odd>>

\* Appended, and shown if no row is newer; a failure appends nothing.
AppendKpis(c) ==
  /\ c.got
  /\ kpis' = IF c.at < kpis.at THEN kpis ELSE [at |-> c.at, active |-> c.ever, shown |-> c.active]
  /\ counting' = counting \ {c}
  /\ UNCHANGED <<world, events, hooks, rolls, scores, clock, supply, odd>>

KpiFails(c) ==
  /\ counting' = counting \ {c}
  /\ UNCHANGED <<world, events, hooks, rolls, scores, kpis, clock, supply, odd>>

Next ==
  \/ \E s \in supply.shops : Uninstall(s) \/ Reinstall(s) \/ SignalsChange(s) \/ Deliver(s)
  \/ Sync \/ KpiRollup
  \/ \E h \in hooks : FindLatest(h) \/ RecordUninstall(h) \/ HandlerDies(h)
  \/ \E j \in Jobs :
       \/ RunRollup(j) \/ GatherSignals(j) \/ FindPrior(j) \/ Persist(j) \/ FindChurned(j)
       \/ RecordReinstall(j) \/ AppendGauges(j) \/ RollupFails(j)
  \/ \E c \in counting : ComputeKpis(c) \/ AppendKpis(c) \/ KpiFails(c)

Spec == Init /\ [][Next]_vars
-----------------------------------------------------------------------------
\* What the proofs suppose: there are finitely many shops.
Stock == [shops : SUBSET Shops, world : Nat, deliveries : Nat, rollups : Nat, kpis : Nat, failures : Nat]
Stocked == IsFiniteSet(Shops) /\ Supplies \subseteq Stock

Bands == {"HEALTHY", "AT_RISK", "CRITICAL"}

TypeOK ==
  /\ active \subseteq Shops /\ listed \subseteq Shops /\ deliverable \subseteq Shops
  /\ signals \in [supply.shops -> Signals]
  /\ \A s \in Shops : \A i \in DOMAIN events[s] :
       events[s][i].kind \in {"UNINSTALL", "REINSTALL"} /\ events[s][i].at <= clock
  /\ \A s \in Shops : \A i \in DOMAIN snaps[s] : snaps[s][i].band \in Bands /\ snaps[s][i].at <= clock
  /\ banded \in [Shops -> Bands \cup {"none"}]
  /\ \A j \in Jobs : rolls[j].pc \in {"idle", "next", "prior", "persist", "lookup", "reinstall"}
  /\ gauges.churned <= Cardinality(Shops) /\ gauges.atRisk <= Cardinality(Shops)

\* However deliveries are repeated and replayed, a shop is recorded as uninstalled and as
\* reinstalled by turns, uninstalled first, unless two calls had it in hand at once or one was
\* recorded with a time before the other's; while no two rollups overlap, the band that the
\* audit log names last is that of the newest snapshot, and the shops at risk are those whose
\* snapshots say so; and the number of active merchants on the dashboard is one that the
\* replica had since the time beside it (LifecycleService.recordUninstall, recordReinstall,
\* MerchantHealthService.refreshAndPersist, GrowthMetricsService.runRollup, KpiService.latest).
GrowthIsTold ==
  /\ \A s \in Shops \ odd.raced : \A i \in DOMAIN events[s] :
       events[s][i].kind = IF i % 2 = 1 THEN "UNINSTALL" ELSE "REINSTALL"
  /\ ~odd.overlapped =>
       /\ \A s \in Shops : snaps[s] # <<>> => banded[s] = Newest(snaps[s], [band |-> "none", at |-> 0]).band
       /\ gauges.at # 0 =>
            gauges.atRisk = Cardinality({s \in Shops : \E i \in DOMAIN snaps[s] :
                               snaps[s][i].at = gauges.at /\ snaps[s][i].band # "HEALTHY"})
  /\ kpis.shown \in kpis.active

\* A reinstall is recorded of a shop that the rollup found active (GrowthMetricsService:
\* "A previously-uninstalled shop that reappears active is a reinstall").
ReinstalledIsActive == odd.gone = {}
=============================================================================
