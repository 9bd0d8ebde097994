----------------------------- MODULE MCUsageReports -----------------------------
(* Small instances of the readers of the usage mirror, one at a time: rollups in turn and *)
(* two at once, with their readers, and an Activity tab.                                  *)
EXTENDS MirrorReaders, FiniteSets, Sequences, TLC

VARIABLE part      \* which of the three moves

Row(id, shop, name, at) ==
  [id |-> id, shop |-> shop, name |-> name, at |-> at, impersonated |-> FALSE,
   step |-> "", ms |-> -1, rules |-> {}, key |-> ""]

MCHistory ==
  << Row(1, "s1", "app_installed", 0),
     [Row(2, "s2", "wizard_step_saved", 1) EXCEPT !.step = "basics", !.ms = 4],
     [Row(3, "s1", "wizard_validation_failed", 3) EXCEPT !.rules = {"r1", "r2"}],
     Row(4, "s1", "badge_template_created", 3) >>

MCFeatures == [badges |-> {"badge_template_created"}]
MCSteps == <<"basics">>
MCOffsetText == [n \in 0 .. MaxWeeks - 1 |-> ToString(n)]
MCWeights == [campaign |-> 5, wizard |-> 2, template |-> 1, day |-> 1]
MCPersonaMin == [discount |-> 3, badge |-> 1, banner |-> 3, automation |-> 2, breadth |-> 1]
MCSymmetry == Permutations(Workers)
MCBudgets == {<<1, 1>>, <<2, 0>>}

MCTimeline ==
  << Row(1, "s1", "page_viewed", 0), Row(2, "s1", "page_viewed", 1), Row(3, "s2", "page_viewed", 1),
     Row(4, "s1", "wizard_started", 4), Row(5, "s1", "page_viewed", 3), Row(6, "s1", "page_viewed", 5) >>

MCInit ==
  /\ part \in {"turns", "pair", "tab"}
  /\ Reports!Init
  /\ Tab!Init
  /\ part = "tab" => jobs = 1
  /\ part = "pair" => jobs = 2

Running == {w \in Workers : job[w].pc # "idle"}

\* Bound: of rollups in turn one runs at a time; when two may run at once the clock stands still
\* and but for the last event nothing is ingested once the first has been taken.
Bounded ==
  /\ part = "turns" => Cardinality(Running') <= 1
  /\ part = "pair" /\ jobs < 2 => now' = now /\ (copied' = copied \/ copied' = Len(History))

MCNext ==
  \/ part \in {"turns", "pair"} /\ Reports!Next /\ Bounded /\ UNCHANGED <<arrived, kept, tab, part>>
  \/ /\ part = "tab"
     /\ Tab!Next
     /\ UNCHANGED <<now, copied, copies, daily, kpis, cohorts, job, jobs, failures, settled, torn, part>>

MCSpec ==
  MCInit /\ [][MCNext]_<<now, copied, copies, daily, kpis, cohorts, job, jobs, failures, settled, torn,
                        arrived, kept, tab, part>>
=============================================================================
