------------------------------ MODULE UsageAlerts ------------------------------
(***************************************************************************)
(* Usage alerts: rules that operators create, change, switch and remove,   *)
(* and the evaluations that compare each enabled rule with the finalized   *)
(* metrics.  An evaluation runs after the nightly finalize and, as a       *)
(* safety net, from a schedule of its own, with retries; two worker        *)
(* processes may evaluate at once.  It tells Slack and the audit log of    *)
(* the begin and the end of an episode, and then stores the episode.       *)
(***************************************************************************)
EXTENDS Naturals, Integers, FiniteSets, Sequences

CONSTANTS
  Evaluators,   \* evaluation jobs that may run at once
  Keys,         \* the rules' keys
  Settings,     \* comparison and threshold, the part of a rule that can be changed
  Deltas,       \* how the metric may have moved over the week
  Supplies      \* bounds: rules created; turns: changes of rules and metric, and failures

\* What the comparisons compare are numbers.
Numbers == Deltas \subseteq Int /\ \A s \in Settings : s.threshold \in Int

VARIABLES
  rules,     \* UsageAlertRule by id; a removed one is kept, marked
  state,     \* UsageAlertState by rule id ("none": no row)
  delta,     \* the metric's week-over-week delta
  eval,      \* per evaluator: the rules it has yet to look at, and the one in hand
  notices,   \* observation only, by rule id: the last notice, the last audit row
  doubled,   \* observation only: rules of which one notice was given twice in a row
  loose,     \* observation only: rules of which an evaluation told and did not store, or that two
             \*   evaluations had in hand at once
  supply

vars == <<rules, state, delta, eval, notices, doubled, loose, supply>>

Ids == DOMAIN rules
Live(id) == ~rules[id].removed
Idle == [pc |-> "idle"]

Init ==
  /\ rules = <<>> /\ state = <<>> /\ notices = <<>>
  /\ delta \in Deltas
  /\ eval = [e \in Evaluators |-> Idle]
  /\ doubled = {} /\ loose = {}
  /\ supply \in Supplies

Uses(what) ==
  /\ supply[what] > 0
  /\ supply' = [supply EXCEPT ![what] = @ - 1]
Turn == Uses("turns")

-----------------------------------------------------------------------------
(* UsageAlertRuleService: each change is one transaction with its audit row. *)

\* The key is unique; the rule may be created enabled.
Create(key) ==
  /\ Uses("rules")
  /\ \A id \in Ids : Live(id) => rules[id].key # key
  /\ \E s \in Settings, on \in BOOLEAN :
       rules' = Append(rules, [key |-> key, set |-> s, enabled |-> on, removed |-> FALSE])
  /\ state' = Append(state, "none")
  /\ notices' = Append(notices, [told |-> "none", audited |-> "none"])
  /\ UNCHANGED <<delta, eval, doubled, loose>>

Update(id) ==
  /\ Turn /\ Live(id)
  /\ \E s \in Settings : rules' = [rules EXCEPT ![id].set = s]
  /\ UNCHANGED <<state, delta, eval, notices, doubled, loose>>

SetEnabled(id) ==
  /\ Turn /\ Live(id)
  /\ rules' = [rules EXCEPT ![id].enabled = ~@]
  /\ UNCHANGED <<state, delta, eval, notices, doubled, loose>>

\* The episode goes with the rule.
Remove(id) ==
  /\ Live(id)
  /\ rules' = [rules EXCEPT ![id].removed = TRUE]
  /\ state' = [state EXCEPT ![id] = "none"]
  /\ UNCHANGED <<delta, eval, notices, doubled, loose, supply>>

\* The rollup finalizes another day.
Finalize ==
  /\ Turn
  /\ delta' \in Deltas
  /\ UNCHANGED <<rules, state, eval, notices, doubled, loose>>

-----------------------------------------------------------------------------
(* UsageAlertService.evaluate.                                             *)

IsBreach(s, observed) ==
  IF s.comparison = "DROP_GT" THEN -observed > s.threshold ELSE observed > s.threshold

\* The rules as they are when the evaluation begins, in no given order.
Start(e) ==
  /\ eval[e].pc = "idle"
  /\ LET enabled == {id \in Ids : Live(id) /\ rules[id].enabled} IN
       /\ enabled # {}
       /\ eval' = [eval EXCEPT ![e] = [pc |-> "next", todo |-> {[id |-> id, set |-> rules[id].set] : id \in enabled}]]
  /\ UNCHANGED <<rules, state, delta, notices, doubled, loose, supply>>

Observe(e) ==
  /\ eval[e].pc = "next"
  /\ \E r \in eval[e].todo :
       eval' = [eval EXCEPT ![e] = [pc |-> "read", todo |-> eval[e].todo \ {r}, id |-> r.id,
                                    breached |-> IsBreach(r.set, delta), action |-> "none"]]
  /\ UNCHANGED <<rules, state, delta, notices, doubled, loose, supply>>

\* What the transition calls for.
Action(prior, breached) ==
  CASE breached /\ prior # "BREACHED" -> "alert"
    [] ~breached /\ prior = "BREACHED" -> "recovery"
    [] OTHER -> "none"

InHand(e, id) == eval[e].pc \in {"deliver", "audit", "store"} /\ eval[e].id = id

\* Whether it is not the only evaluation that has the rule in hand.
Shared(e, id) == \E f \in Evaluators \ {e} : InHand(f, id)

ReadPrior(e) ==
  /\ eval[e].pc = "read"
  /\ LET action == Action(state[eval[e].id], eval[e].breached) IN
       eval' = [eval EXCEPT ![e].action = action,
                            ![e].pc = IF action = "none" THEN "store" ELSE "deliver"]
  /\ loose' = IF Shared(e, eval[e].id) THEN loose \cup {eval[e].id} ELSE loose
  /\ UNCHANGED <<rules, state, delta, notices, doubled, supply>>

Deliver(e) ==
  /\ eval[e].pc = "deliver"
  /\ LET id == eval[e].id IN
       /\ notices' = [notices EXCEPT ![id].told = eval[e].action]
       /\ doubled' = IF notices[id].told = eval[e].action THEN doubled \cup {id} ELSE doubled
  /\ eval' = [eval EXCEPT ![e].pc = "audit"]
  /\ UNCHANGED <<rules, state, delta, loose, supply>>

AppendAudit(e) ==
  /\ eval[e].pc = "audit"
  /\ notices' = [notices EXCEPT ![eval[e].id].audited = eval[e].action]
  /\ eval' = [eval EXCEPT ![e].pc = "store"]
  /\ UNCHANGED <<rules, state, delta, doubled, loose, supply>>

Finished(e) == IF eval[e].todo = {} THEN Idle ELSE [pc |-> "next", todo |-> eval[e].todo]

\* Mutant: the upsert creates the row with the schema's default.
StoreDefault(e) ==
  /\ eval[e].pc = "store"
  /\ Live(eval[e].id)
  /\ state' = [state EXCEPT ![eval[e].id] = IF eval[e].breached /\ @ # "none" THEN "BREACHED" ELSE "OK"]
  /\ eval' = [eval EXCEPT ![e] = Finished(e)]
  /\ UNCHANGED <<rules, delta, notices, doubled, loose, supply>>

\* The upsert, which fails when the rule has been removed.
Store(e) ==
  /\ eval[e].pc = "store"
  /\ Live(eval[e].id)
  /\ state' = [state EXCEPT ![eval[e].id] = IF eval[e].breached THEN "BREACHED" ELSE "OK"]
  /\ eval' = [eval EXCEPT ![e] = Finished(e)]
  /\ UNCHANGED <<rules, delta, notices, doubled, loose, supply>>

\* A statement fails, or the process dies: the rules that are left are not evaluated.  A
\* retry is an evaluation of its own.
Fails(e) ==
  /\ eval[e].pc # "idle"
  /\ IF eval[e].pc = "store" /\ ~Live(eval[e].id) THEN UNCHANGED supply ELSE Turn
  /\ eval' = [eval EXCEPT ![e] = Idle]
  /\ loose' = IF eval[e].pc \in {"audit", "store"} /\ eval[e].action # "none"
              THEN loose \cup {eval[e].id} ELSE loose
  /\ UNCHANGED <<rules, state, delta, notices, doubled>>

Next ==
  \/ \E key \in Keys : Create(key)
  \/ \E id \in Ids : Update(id) \/ SetEnabled(id) \/ Remove(id)
  \/ Finalize
  \/ \E e \in Evaluators :
       \/ Start(e) \/ Observe(e) \/ ReadPrior(e) \/ Deliver(e) \/ AppendAudit(e)
       \/ Store(e) \/ Fails(e)

Spec == Init /\ [][Next]_vars
-----------------------------------------------------------------------------
AlertRule == [key : Keys, set : Settings, enabled : BOOLEAN, removed : BOOLEAN]
Statuses == {"none", "OK", "BREACHED"}
Actions == {"none", "alert", "recovery"}
Notice == [told : Actions, audited : Actions]
Work == [id : Nat, set : Settings]
Evaluations ==
  {Idle} \cup [pc : {"next"}, todo : SUBSET Work]
  \cup [pc : {"read", "deliver", "audit", "store"}, todo : SUBSET Work, id : Nat, breached : BOOLEAN,
        action : Actions]

TypeOK ==
  /\ rules \in Seq(AlertRule)
  /\ state \in Seq(Statuses) /\ Len(state) = Len(rules)
  /\ notices \in Seq(Notice) /\ Len(notices) = Len(rules)
  /\ delta \in Deltas
  /\ eval \in [Evaluators -> Evaluations]
  /\ \A e \in Evaluators :
       /\ eval[e].pc # "idle" => \A r \in eval[e].todo : r.id \in Ids
       /\ eval[e].pc \notin {"idle", "next"} => eval[e].id \in Ids
       /\ eval[e].pc \in {"deliver", "audit"} => eval[e].action # "none"
  /\ doubled \subseteq Ids /\ loose \subseteq Ids

\* An episode is told once when it begins and once when it ends, on Slack and in the audit
\* log, and the stored state says which came last, however rules are changed, removed and
\* created again while evaluations run; the exceptions are an evaluation that failed after it
\* told and before it stored, and two of them that had one rule in hand at once
\* (UsageAlertService.applyEpisode).
EpisodeIsTold ==
  \A id \in Ids \ loose : Live(id) =>
    /\ id \notin doubled
    /\ (\A e \in Evaluators : ~InHand(e, id)) =>
         /\ state[id] = "BREACHED" <=> notices[id].told = "alert"
         /\ notices[id].audited = notices[id].told
=============================================================================
