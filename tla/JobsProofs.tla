------------------------------ MODULE JobsProofs ------------------------------
(***************************************************************************)
(* What is true of the alert rules, for any rules, changes of usage and    *)
(* evaluations at once, of plan changes and their billing, for any         *)
(* administrators, readers and failures, of merchants' growth and health,  *)
(* for any merchants, deliveries and rollups, and of the operations tick,  *)
(* for any tiers, webhooks and failures.                                   *)
(***************************************************************************)
EXTENDS Console, FiniteSetTheorems, SequenceTheorems, WellFoundedInduction, TLAPS

-----------------------------------------------------------------------------
(* The alert rules: types.                                                 *)

\* No rule, and nobody evaluates one.
LEMMA AlertsTypeInit == Alerts!Init => Alerts!TypeOK
<1>. SUFFICES ASSUME Alerts!Init PROVE Alerts!TypeOK
  OBVIOUS
<1>. USE DEF Alerts!Init, Alerts!TypeOK, Alerts!Ids, Alerts!Idle
<1>1. eval \in [Evaluators -> Alerts!Evaluations]
  BY DEF Alerts!Evaluations
<1>2. /\ rules \in Seq(Alerts!AlertRule) /\ Len(rules) = 0
      /\ state \in Seq(Alerts!Statuses) /\ Len(state) = 0
      /\ notices \in Seq(Alerts!Notice) /\ Len(notices) = 0
  BY EmptySeq
<1>3. QED
  BY <1>1, <1>2

\* Changes are numbers, and so a rule compares them.
LEMMA AlertsTypeStep ==
  ASSUME Alerts!Numbers
  PROVE  Alerts!TypeOK /\ [Alerts!Next]_(Alerts!vars) => Alerts!TypeOK'
<1>. SUFFICES ASSUME Alerts!TypeOK, [Alerts!Next]_(Alerts!vars) PROVE Alerts!TypeOK'
  OBVIOUS
<1>. USE DEF Alerts!TypeOK, Alerts!Ids
<1>0. Alerts!Ids = 1 .. Len(rules) /\ Len(rules) \in Nat
  BY LenProperties
<1>1. ASSUME NEW key \in Keys, Alerts!Create(key) PROVE Alerts!TypeOK'
  <2>1. PICK s \in Settings, on \in BOOLEAN :
          rules' = Append(rules, [key |-> key, set |-> s, enabled |-> on, removed |-> FALSE])
    BY <1>1 DEF Alerts!Create
  <2>2. rules' \in Seq(Alerts!AlertRule) /\ Len(rules') = Len(rules) + 1
    BY <2>1, AppendProperties DEF Alerts!AlertRule
  <2>3. state' \in Seq(Alerts!Statuses) /\ Len(state') = Len(rules) + 1
    BY <1>1, AppendProperties DEF Alerts!Create, Alerts!Statuses
  <2>4. notices' \in Seq(Alerts!Notice) /\ Len(notices') = Len(rules) + 1
    BY <1>1, AppendProperties DEF Alerts!Create, Alerts!Notice, Alerts!Actions
  <2>5. Alerts!Ids \subseteq Alerts!Ids'
    BY <1>0, <2>2, LenProperties
  <2>6. QED
    BY <1>1, <2>2, <2>3, <2>4, <2>5 DEF Alerts!Create
<1>2. ASSUME NEW id \in Alerts!Ids, NEW r \in Alerts!AlertRule,
             rules' = [rules EXCEPT ![id] = r],
             \/ UNCHANGED state
             \/ state' = [state EXCEPT ![id] = "none"],
             UNCHANGED <<delta, eval, notices, doubled, loose>>
      PROVE  Alerts!TypeOK'
  <2>1. rules' \in Seq(Alerts!AlertRule) /\ Len(rules') = Len(rules)
    BY <1>0, <1>2, ExceptSeq
  <2>2. state' \in Seq(Alerts!Statuses) /\ Len(state') = Len(rules)
    BY <1>0, <1>2, ExceptSeq DEF Alerts!Statuses
  <2>3. Alerts!Ids' = Alerts!Ids
    BY <1>0, <2>1, LenProperties
  <2>4. QED
    BY <1>2, <2>1, <2>2, <2>3
<1>3. ASSUME NEW id \in Alerts!Ids, Alerts!Update(id) PROVE Alerts!TypeOK'
  <2>1. PICK s \in Settings : rules' = [rules EXCEPT ![id].set = s]
    BY <1>3 DEF Alerts!Update
  <2>2. rules[id] \in Alerts!AlertRule
    BY <1>0, ElementOfSeq
  <2>. DEFINE r == [rules[id] EXCEPT !.set = s]
  <2>3. r \in Alerts!AlertRule
    BY <2>2 DEF Alerts!AlertRule
  <2>4. QED
    BY <1>2, <1>3, <2>1, <2>3 DEF Alerts!Update
<1>4. ASSUME NEW id \in Alerts!Ids, Alerts!SetEnabled(id) PROVE Alerts!TypeOK'
  <2>2. rules[id] \in Alerts!AlertRule
    BY <1>0, ElementOfSeq
  <2>. DEFINE r == [rules[id] EXCEPT !.enabled = ~@]
  <2>3. r \in Alerts!AlertRule
    BY <2>2 DEF Alerts!AlertRule
  <2>4. QED
    BY <1>2, <1>4, <2>3 DEF Alerts!SetEnabled
<1>5. ASSUME NEW id \in Alerts!Ids, Alerts!Remove(id) PROVE Alerts!TypeOK'
  <2>2. rules[id] \in Alerts!AlertRule
    BY <1>0, ElementOfSeq
  <2>. DEFINE r == [rules[id] EXCEPT !.removed = TRUE]
  <2>3. r \in Alerts!AlertRule
    BY <2>2 DEF Alerts!AlertRule
  <2>4. QED
    BY <1>2, <1>5, <2>3 DEF Alerts!Remove
<1>6. CASE Alerts!Finalize
  BY <1>6 DEF Alerts!Finalize
<1>9. ASSUME NEW e \in Evaluators, NEW new \in Alerts!Evaluations,
             eval' = [eval EXCEPT ![e] = new],
             UNCHANGED <<rules, state, delta>>, notices' \in Seq(Alerts!Notice), Len(notices') = Len(rules),
             doubled' \subseteq Alerts!Ids, loose' \subseteq Alerts!Ids,
             new.pc # "idle" => \A r \in new.todo : r.id \in Alerts!Ids,
             new.pc \notin {"idle", "next"} => new.id \in Alerts!Ids,
             new.pc \in {"deliver", "audit"} => new.action # "none"
      PROVE  Alerts!TypeOK'
  BY <1>9
<1>10. ASSUME NEW e \in Evaluators, eval[e].pc \notin {"idle", "next"}
      PROVE  eval[e] \in [pc : {"read", "deliver", "audit", "store"}, todo : SUBSET Alerts!Work, id : Nat,
                          breached : BOOLEAN, action : Alerts!Actions]
  BY <1>10 DEF Alerts!Evaluations, Alerts!Idle
<1>7. ASSUME NEW e \in Evaluators, Alerts!Start(e) PROVE Alerts!TypeOK'
  <2>. DEFINE enabled == {id \in Alerts!Ids : Alerts!Live(id) /\ rules[id].enabled}
              todo == {[id |-> id, set |-> rules[id].set] : id \in enabled}
  <2>1. \A id \in Alerts!Ids : id \in Nat /\ rules[id].set \in Settings
    <3>1. \A id \in Alerts!Ids : id \in Nat /\ rules[id] \in Alerts!AlertRule
      BY <1>0, ElementOfSeq
    <3>2. QED
      BY <3>1 DEF Alerts!AlertRule
  <2>2. todo \subseteq Alerts!Work /\ \A r \in todo : r.id \in Alerts!Ids
    BY <2>1 DEF Alerts!Work
  <2>. HIDE DEF todo
  <2>3. eval' = [eval EXCEPT ![e] = [pc |-> "next", todo |-> todo]]
    BY <1>7 DEF Alerts!Start, todo
  <2>4. [pc |-> "next", todo |-> todo] \in Alerts!Evaluations
    BY <2>2 DEF Alerts!Evaluations
  <2>5. UNCHANGED <<rules, state, delta, notices, doubled, loose>>
    BY <1>7 DEF Alerts!Start
  <2>6. QED
    BY <1>9, <2>2, <2>3, <2>4, <2>5
<1>8. ASSUME NEW e \in Evaluators, Alerts!Observe(e) PROVE Alerts!TypeOK'
  <2>1. PICK r \in eval[e].todo :
          eval' = [eval EXCEPT ![e] = [pc |-> "read", todo |-> eval[e].todo \ {r}, id |-> r.id,
                                       breached |-> Alerts!IsBreach(r.set, delta), action |-> "none"]]
    BY <1>8 DEF Alerts!Observe
  <2>3. /\ eval[e].todo \subseteq Alerts!Work /\ r.id \in Alerts!Ids
        /\ r.id \in Nat /\ r.set \in Settings
    BY <1>8 DEF Alerts!Observe, Alerts!Evaluations, Alerts!Idle, Alerts!Work
  <2>2. Alerts!IsBreach(r.set, delta) \in BOOLEAN
    <3>1. delta \in Int /\ r.set.threshold \in Int
      BY <2>3 DEF Alerts!Numbers
    <3>2. (-delta > r.set.threshold) \in BOOLEAN /\ (delta > r.set.threshold) \in BOOLEAN
      BY <3>1
    <3>3. QED
      BY <3>2, Zenon DEF Alerts!IsBreach
  <2>. DEFINE one == [pc |-> "read", todo |-> eval[e].todo \ {r}, id |-> r.id,
                      breached |-> Alerts!IsBreach(r.set, delta), action |-> "none"]
  <2>4. one \in Alerts!Evaluations
    BY <2>2, <2>3 DEF Alerts!Evaluations, Alerts!Actions
  <2>5. UNCHANGED <<rules, state, delta, notices, doubled, loose>>
    BY <1>8 DEF Alerts!Observe
  <2>6. eval' = [eval EXCEPT ![e] = one] /\ one.pc = "read" /\ one.id = r.id
        /\ one.todo = eval[e].todo \ {r}
    BY <2>1
  <2>7. \A q \in eval[e].todo : q.id \in Alerts!Ids
    BY <1>8 DEF Alerts!Observe
  <2>. HIDE DEF one
  <2>8. QED
    BY <1>9, <2>3, <2>4, <2>5, <2>6, <2>7
<1>11. ASSUME NEW e \in Evaluators, Alerts!ReadPrior(e) PROVE Alerts!TypeOK'
  <2>. DEFINE act == Alerts!Action(state[eval[e].id], eval[e].breached)
              new == [eval[e] EXCEPT !.action = act, !.pc = IF act = "none" THEN "store" ELSE "deliver"]
  <2>1. act \in Alerts!Actions
    BY DEF Alerts!Action, Alerts!Actions
  <2>2. new \in Alerts!Evaluations
    BY <1>10, <1>11, <2>1 DEF Alerts!ReadPrior, Alerts!Evaluations
  <2>3. eval' = [eval EXCEPT ![e] = new]
    BY <1>11 DEF Alerts!ReadPrior
  <2>4. eval[e].pc = "read" /\ loose' \subseteq Alerts!Ids
    BY <1>11 DEF Alerts!ReadPrior
  <2>. HIDE DEF act
  <2>5. new.pc = (IF act = "none" THEN "store" ELSE "deliver") /\ new.action = act /\ new.id = eval[e].id
        /\ new.todo = eval[e].todo
    BY <1>10, <2>4
  <2>6. UNCHANGED <<rules, state, delta, notices, doubled>>
    BY <1>11 DEF Alerts!ReadPrior
  <2>7. QED
    BY <1>9, <2>2, <2>3, <2>4, <2>5, <2>6
<1>12. ASSUME NEW id \in Alerts!Ids, NEW n \in Alerts!Notice, notices' = [notices EXCEPT ![id] = n]
       PROVE  notices' \in Seq(Alerts!Notice) /\ Len(notices') = Len(rules)
  BY <1>0, <1>12, ExceptSeq
<1>13. ASSUME NEW e \in Evaluators, Alerts!Deliver(e) PROVE Alerts!TypeOK'
  <2>. DEFINE id == eval[e].id
              n == [notices[id] EXCEPT !.told = eval[e].action]
              new == [eval[e] EXCEPT !.pc = "audit"]
  <2>1. eval[e].pc = "deliver" /\ id \in Alerts!Ids /\ eval[e].action # "none"
    BY <1>13 DEF Alerts!Deliver
  <2>2. notices[id] \in Alerts!Notice
    BY <1>0, <2>1, ElementOfSeq
  <2>3. n \in Alerts!Notice
    BY <1>10, <2>1, <2>2 DEF Alerts!Notice
  <2>4. notices' \in Seq(Alerts!Notice) /\ Len(notices') = Len(rules)
    BY <1>12, <1>13, <2>1, <2>3 DEF Alerts!Deliver
  <2>5. new \in Alerts!Evaluations /\ eval' = [eval EXCEPT ![e] = new]
    BY <1>10, <1>13, <2>1 DEF Alerts!Deliver, Alerts!Evaluations
  <2>6. new.pc = "audit" /\ new.action = eval[e].action /\ new.id = id /\ new.todo = eval[e].todo
    BY <1>10, <2>1
  <2>7. doubled' \subseteq Alerts!Ids /\ UNCHANGED <<rules, state, delta, loose>>
    BY <1>13, <2>1 DEF Alerts!Deliver
  <2>8. QED
    BY <1>9, <2>1, <2>4, <2>5, <2>6, <2>7
<1>14. ASSUME NEW e \in Evaluators, Alerts!AppendAudit(e) PROVE Alerts!TypeOK'
  <2>. DEFINE id == eval[e].id
              n == [notices[id] EXCEPT !.audited = eval[e].action]
              new == [eval[e] EXCEPT !.pc = "store"]
  <2>1. eval[e].pc = "audit" /\ id \in Alerts!Ids
    BY <1>14 DEF Alerts!AppendAudit
  <2>2. notices[id] \in Alerts!Notice
    BY <1>0, <2>1, ElementOfSeq
  <2>3. n \in Alerts!Notice
    BY <1>10, <2>1, <2>2 DEF Alerts!Notice
  <2>4. notices' \in Seq(Alerts!Notice) /\ Len(notices') = Len(rules)
    BY <1>12, <1>14, <2>1, <2>3 DEF Alerts!AppendAudit
  <2>5. new \in Alerts!Evaluations /\ eval' = [eval EXCEPT ![e] = new]
    BY <1>10, <1>14, <2>1 DEF Alerts!AppendAudit, Alerts!Evaluations
  <2>6. new.pc = "store" /\ new.id = id /\ new.todo = eval[e].todo
    BY <1>10, <2>1
  <2>7. UNCHANGED <<rules, state, delta, doubled, loose>>
    BY <1>14 DEF Alerts!AppendAudit
  <2>8. QED
    BY <1>9, <2>1, <2>4, <2>5, <2>6, <2>7
<1>15. ASSUME NEW e \in Evaluators, Alerts!Store(e) PROVE Alerts!TypeOK'
  <2>. DEFINE id == eval[e].id
              s == IF eval[e].breached THEN "BREACHED" ELSE "OK"
  <2>1. eval[e].pc = "store" /\ id \in Alerts!Ids
    BY <1>15 DEF Alerts!Store
  <2>2. state' \in Seq(Alerts!Statuses) /\ Len(state') = Len(rules)
    BY <1>0, <1>15, <2>1, ExceptSeq DEF Alerts!Store, Alerts!Statuses
  <2>3. /\ Alerts!Finished(e) \in Alerts!Evaluations
        /\ Alerts!Finished(e) = Alerts!Idle
             \/ Alerts!Finished(e) = [pc |-> "next", todo |-> eval[e].todo]
    BY <1>10, <2>1 DEF Alerts!Finished, Alerts!Evaluations
  <2>4. /\ eval' = [eval EXCEPT ![e] = Alerts!Finished(e)]
        /\ UNCHANGED <<rules, delta, notices, doubled, loose>>
    BY <1>15 DEF Alerts!Store
  <2>5. eval' \in [Evaluators -> Alerts!Evaluations]
    BY <2>3, <2>4
  <2>6. \A f \in Evaluators : f # e => eval'[f] = eval[f]
    BY <2>4
  <2>7. eval'[e].pc \in {"idle", "next"} /\ (eval'[e].pc = "next" => eval'[e].todo = eval[e].todo)
    BY <2>3, <2>4 DEF Alerts!Idle
  <2>8. QED
    BY <2>1, <2>2, <2>4, <2>5, <2>6, <2>7
<1>16. ASSUME NEW e \in Evaluators, Alerts!Fails(e) PROVE Alerts!TypeOK'
  <2>1. /\ eval[e].pc # "idle" /\ eval' = [eval EXCEPT ![e] = Alerts!Idle]
        /\ UNCHANGED <<rules, state, delta, notices, doubled>>
    BY <1>16 DEF Alerts!Fails
  <2>2. loose' \subseteq Alerts!Ids
    BY <1>16 DEF Alerts!Fails
  <2>3. Alerts!Idle \in Alerts!Evaluations /\ Alerts!Idle.pc = "idle"
    BY DEF Alerts!Evaluations, Alerts!Idle
  <2>4. QED
    BY <1>9, <2>1, <2>2, <2>3
<1>17. CASE UNCHANGED Alerts!vars
  BY <1>17 DEF Alerts!vars
<1>18. QED
  BY <1>1, <1>3, <1>4, <1>5, <1>6, <1>7, <1>8, <1>11, <1>13, <1>14, <1>15, <1>16, <1>17 DEF Alerts!Next

-----------------------------------------------------------------------------
(* An episode: what was told of a rule, and who is evaluating it.          *)

\* What the rule remembers is what was told, and what was told is in the audit log.
Synced(id) ==
  /\ state[id] = "BREACHED" <=> notices[id].told = "alert"
  /\ notices[id].audited = notices[id].told

\* Whoever has the rule in hand decided by what the rule remembers, and has told, audited or stored
\* as far as its step says.
Hand(e, id) ==
  /\ eval[e].action = Alerts!Action(state[id], eval[e].breached)
  /\ eval[e].pc = "deliver" => Synced(id)
  /\ eval[e].pc = "audit" => notices[id].told = eval[e].action
  /\ eval[e].pc = "store" =>
       /\ notices[id].audited = notices[id].told
       /\ IF eval[e].action = "none" THEN Synced(id) ELSE notices[id].told = eval[e].action

\* One evaluation at a time has a rule in hand; between evaluations the rule is synced.
Episode(id) ==
  /\ id \notin doubled
  /\ \A e, f \in Evaluators : Alerts!InHand(e, id) /\ Alerts!InHand(f, id) => e = f
  /\ (\A e \in Evaluators : ~Alerts!InHand(e, id)) => Synced(id)
  /\ \A e \in Evaluators : Alerts!InHand(e, id) => Hand(e, id)

\* So it is with every rule that exists, but for those that were left loose.
EpisodeInv == \A id \in Alerts!Ids \ loose : Alerts!Live(id) => Episode(id)

\* What an evaluation is that has a rule in hand.
LEMMA EvaluationOf ==
  ASSUME Alerts!TypeOK, NEW e \in Evaluators, eval[e].pc \notin {"idle", "next"}
  PROVE  eval[e] \in [pc : {"read", "deliver", "audit", "store"}, todo : SUBSET Alerts!Work, id : Nat,
                      breached : BOOLEAN, action : Alerts!Actions]
BY DEF Alerts!TypeOK, Alerts!Evaluations, Alerts!Idle

\* What the invariant says of one rule depends on that rule alone.
LEMMA EpisodeKept ==
  ASSUME NEW id, Episode(id), state'[id] = state[id], notices'[id] = notices[id],
         id \in doubled' => id \in doubled,
         \A e \in Evaluators : eval'[e] = eval[e] \/ (~Alerts!InHand(e, id) /\ ~Alerts!InHand(e, id)')
  PROVE  Episode(id)'
BY DEF Episode, Synced, Hand, Alerts!InHand

\* No step of an evaluation, nor a change of the rules, breaks it.
LEMMA EpisodeStep == Alerts!TypeOK /\ EpisodeInv /\ [Alerts!Next]_(Alerts!vars) => EpisodeInv'
<1>. SUFFICES ASSUME Alerts!TypeOK, EpisodeInv, [Alerts!Next]_(Alerts!vars),
                     NEW id \in Alerts!Ids', id \notin loose', Alerts!Live(id)'
              PROVE  Episode(id)'
  BY DEF EpisodeInv
<1>0. /\ Alerts!Ids = 1 .. Len(rules) /\ Len(rules) \in Nat
      /\ DOMAIN state = 1 .. Len(rules) /\ DOMAIN notices = 1 .. Len(rules)
  BY LenProperties DEF Alerts!Ids, Alerts!TypeOK
<1>1. ASSUME NEW key \in Keys, Alerts!Create(key) PROVE Episode(id)'
  <2>1. PICK s \in Settings, on \in BOOLEAN :
          rules' = Append(rules, [key |-> key, set |-> s, enabled |-> on, removed |-> FALSE])
    BY <1>1 DEF Alerts!Create
  <2>. DEFINE new == Len(rules) + 1
              none == [told |-> "none", audited |-> "none"]
  <2>2. /\ Alerts!Ids' = 1 .. new
        /\ \A i \in Alerts!Ids : rules'[i] = rules[i]
    BY <1>0, <2>1, AppendProperties DEF Alerts!Ids, Alerts!TypeOK, Alerts!AlertRule
  <2>3. state'[new] = "none" /\ \A i \in Alerts!Ids : state'[i] = state[i]
    BY <1>0, <1>1, AppendProperties DEF Alerts!Create, Alerts!TypeOK, Alerts!Statuses
  <2>4. notices'[new] = none /\ \A i \in Alerts!Ids : notices'[i] = notices[i]
    BY <1>0, <1>1, AppendProperties DEF Alerts!Create, Alerts!TypeOK, Alerts!Notice, Alerts!Actions
  <2>5. UNCHANGED <<eval, doubled, loose>>
    BY <1>1 DEF Alerts!Create
  <2>6. CASE id = new
    <3>1. id \notin Alerts!Ids
      BY <1>0, <2>6
    <3>2. id \notin doubled /\ \A e \in Evaluators : ~Alerts!InHand(e, id)
      BY <3>1 DEF Alerts!TypeOK, Alerts!InHand
    <3>3. id \notin doubled' /\ \A e \in Evaluators : ~Alerts!InHand(e, id)'
      BY <2>5, <3>2 DEF Alerts!InHand
    <3>4. Synced(id)'
      BY <2>3, <2>4, <2>6 DEF Synced
    <3>5. QED
      BY <3>3, <3>4 DEF Episode
  <2>7. CASE id \in Alerts!Ids
    <3>1. Episode(id)
      BY <2>2, <2>5, <2>7 DEF EpisodeInv, Alerts!Live
    <3>2. QED
      BY <2>3, <2>4, <2>5, <2>7, <3>1, EpisodeKept
  <2>8. QED
    BY <1>0, <2>2, <2>6, <2>7
<1>2. ASSUME UNCHANGED <<state, eval, notices, doubled, loose>>, Alerts!Ids' = Alerts!Ids,
             \A i \in Alerts!Ids : rules'[i].removed = rules[i].removed
      PROVE  Episode(id)'
  <2>1. Episode(id)
    BY <1>2 DEF EpisodeInv, Alerts!Live
  <2>2. QED
    BY <1>2, <2>1, EpisodeKept
<1>3. ASSUME NEW i \in Alerts!Ids, Alerts!Update(i) \/ Alerts!SetEnabled(i) PROVE Episode(id)'
  <2>1. \A j \in Alerts!Ids : rules[j] \in Alerts!AlertRule
    BY <1>0, ElementOfSeq DEF Alerts!TypeOK
  <2>2. Alerts!Ids' = Alerts!Ids /\ UNCHANGED <<state, eval, notices, doubled, loose>>
    BY <1>3 DEF Alerts!Update, Alerts!SetEnabled, Alerts!Ids
  <2>3. \A j \in Alerts!Ids : rules'[j].removed = rules[j].removed
    <3>1. CASE Alerts!Update(i)
      <4>1. PICK s \in Settings : rules' = [rules EXCEPT ![i].set = s]
        BY <3>1 DEF Alerts!Update
      <4>. DEFINE r == [rules[i] EXCEPT !.set = s]
      <4>2. r.removed = rules[i].removed /\ rules' = [rules EXCEPT ![i] = r]
        BY <2>1, <4>1 DEF Alerts!AlertRule
      <4>. HIDE DEF r
      <4>3. QED
        BY <4>2 DEF Alerts!Ids
    <3>2. CASE Alerts!SetEnabled(i)
      <4>. DEFINE r == [rules[i] EXCEPT !.enabled = ~@]
      <4>2. r.removed = rules[i].removed /\ rules' = [rules EXCEPT ![i] = r]
        BY <2>1, <3>2 DEF Alerts!AlertRule, Alerts!SetEnabled
      <4>. HIDE DEF r
      <4>3. QED
        BY <4>2 DEF Alerts!Ids
    <3>3. QED
      BY <1>3, <3>1, <3>2
  <2>4. QED
    BY <1>2, <2>2, <2>3
<1>4. ASSUME NEW i \in Alerts!Ids, Alerts!Remove(i) PROVE Episode(id)'
  <2>. DEFINE r == [rules[i] EXCEPT !.removed = TRUE]
  <2>1. rules[i] \in Alerts!AlertRule
    BY <1>0, ElementOfSeq DEF Alerts!TypeOK
  <2>2. r.removed = TRUE /\ rules' = [rules EXCEPT ![i] = r]
    BY <1>4, <2>1 DEF Alerts!AlertRule, Alerts!Remove
  <2>. HIDE DEF r
  <2>3. Alerts!Ids' = Alerts!Ids
    BY <2>2 DEF Alerts!Ids
  <2>4. id # i /\ rules'[id] = rules[id]
    BY <2>2, <2>3 DEF Alerts!Live, Alerts!Ids
  <2>5. state'[id] = state[id] /\ UNCHANGED <<eval, notices, doubled, loose>>
    BY <1>4, <2>3, <1>0, <2>4 DEF Alerts!Remove
  <2>6. Episode(id)
    BY <2>3, <2>4, <2>5 DEF EpisodeInv, Alerts!Live
  <2>7. QED
    BY <2>5, <2>6, EpisodeKept
<1>5. CASE Alerts!Finalize
  BY <1>2, <1>5 DEF Alerts!Finalize, Alerts!Ids
<1>6. CASE UNCHANGED Alerts!vars
  BY <1>2, <1>6 DEF Alerts!vars, Alerts!Ids
<1>7. ASSUME UNCHANGED rules, loose \subseteq loose' PROVE Episode(id) /\ id \in Alerts!Ids
  BY <1>7 DEF EpisodeInv, Alerts!Live, Alerts!Ids
<1>8. ASSUME NEW e \in Evaluators, Alerts!Start(e) \/ Alerts!Observe(e) PROVE Episode(id)'
  <2>1. \E new : eval' = [eval EXCEPT ![e] = new] /\ new.pc \in {"next", "read"}
    <3>1. CASE Alerts!Start(e)
      <4>. DEFINE todo == {[id |-> i, set |-> rules[i].set] :
                             i \in {j \in Alerts!Ids : Alerts!Live(j) /\ rules[j].enabled}}
                  new == [pc |-> "next", todo |-> todo]
      <4>1. eval' = [eval EXCEPT ![e] = new]
        BY <3>1 DEF Alerts!Start
      <4>2. new.pc = "next"
        OBVIOUS
      <4>. HIDE DEF new
      <4>3. QED
        BY <4>1, <4>2
    <3>2. CASE Alerts!Observe(e)
      BY <3>2 DEF Alerts!Observe
    <3>3. QED
      BY <1>8, <3>1, <3>2
  <2>2. eval[e].pc \in {"idle", "next"} /\ UNCHANGED <<rules, state, notices, doubled, loose>>
    BY <1>8 DEF Alerts!Start, Alerts!Observe
  <2>3. \A f \in Evaluators : eval'[f] = eval[f] \/ (~Alerts!InHand(f, id) /\ ~Alerts!InHand(f, id)')
    BY <2>1, <2>2 DEF Alerts!InHand, Alerts!TypeOK
  <2>4. QED
    BY <1>7, <2>2, <2>3, EpisodeKept
<1>9. ASSUME NEW e \in Evaluators, NEW new, eval' = [eval EXCEPT ![e] = new]
      PROVE  eval'[e] = new /\ \A f \in Evaluators \ {e} : eval'[f] = eval[f]
  BY <1>9 DEF Alerts!TypeOK
\* The evaluation that steps leaves the other rules alone.
<1>10. ASSUME NEW e \in Evaluators, eval[e].pc \in {"read", "deliver", "audit", "store"}, eval[e].id # id,
              eval'[e].pc \notin {"idle", "next"} => eval'[e].id = eval[e].id,
              \A f \in Evaluators \ {e} : eval'[f] = eval[f],
              UNCHANGED rules, loose \subseteq loose', state'[id] = state[id], notices'[id] = notices[id],
              id \in doubled' => id \in doubled
       PROVE  Episode(id)'
  <2>1. \A f \in Evaluators : eval'[f] = eval[f] \/ (~Alerts!InHand(f, id) /\ ~Alerts!InHand(f, id)')
    BY <1>10 DEF Alerts!InHand
  <2>2. QED
    BY <1>7, <1>10, <2>1, EpisodeKept
\* Nobody else has the rule in hand.
<1>11. ASSUME NEW e \in Evaluators, Alerts!InHand(e, id), Episode(id),
              \A f \in Evaluators \ {e} : eval'[f] = eval[f]
       PROVE  /\ Hand(e, id) /\ id \notin doubled
              /\ \A f \in Evaluators \ {e} : ~Alerts!InHand(f, id) /\ ~Alerts!InHand(f, id)'
  BY <1>11 DEF Episode, Alerts!InHand
\* It has the rule in hand still, or lets it go.
<1>12. ASSUME NEW e \in Evaluators, id \notin doubled',
              \A f \in Evaluators \ {e} : ~Alerts!InHand(f, id)',
              IF Alerts!InHand(e, id)' THEN Hand(e, id)' ELSE Synced(id)'
       PROVE  Episode(id)'
  BY <1>12 DEF Episode
<1>13. ASSUME NEW e \in Evaluators, Alerts!ReadPrior(e) PROVE Episode(id)'
  <2>. DEFINE act == Alerts!Action(state[eval[e].id], eval[e].breached)
              new == [eval[e] EXCEPT !.action = act, !.pc = IF act = "none" THEN "store" ELSE "deliver"]
  <2>1. eval[e].pc = "read" /\ loose \subseteq loose' /\ UNCHANGED <<rules, state, notices, doubled>>
    BY <1>13 DEF Alerts!ReadPrior
  <2>2. Episode(id) /\ id \in Alerts!Ids
    BY <1>7, <2>1
  <2>3. eval' = [eval EXCEPT ![e] = new]
    BY <1>13 DEF Alerts!ReadPrior
  <2>. HIDE DEF act
  <2>4. /\ new.pc = (IF act = "none" THEN "store" ELSE "deliver") /\ new.action = act
        /\ new.id = eval[e].id /\ new.breached = eval[e].breached
    BY <2>1, EvaluationOf
  <2>. HIDE DEF new
  <2>5. CASE eval[e].id # id
    BY <1>9, <1>10, <2>1, <2>3, <2>4, <2>5
  <2>6. CASE eval[e].id = id
    <3>1. ~Alerts!Shared(e, id)
      BY <1>13, <2>6 DEF Alerts!ReadPrior
    <3>2. \A f \in Evaluators : ~Alerts!InHand(f, id)
      BY <2>1, <3>1 DEF Alerts!Shared, Alerts!InHand
    <3>3. Synced(id) /\ id \notin doubled
      BY <2>2, <3>2 DEF Episode
    <3>4. \A f \in Evaluators \ {e} : ~Alerts!InHand(f, id)'
      BY <1>9, <2>3, <3>2 DEF Alerts!InHand
    <3>5. Synced(id)'
      BY <2>1, <3>3 DEF Synced
    <3>6. /\ eval'[e].action = Alerts!Action(state'[id], eval'[e].breached)
          /\ eval'[e].pc = (IF eval'[e].action = "none" THEN "store" ELSE "deliver")
      BY <1>9, <2>1, <2>3, <2>4, <2>6 DEF act
    <3>7. notices'[id].audited = notices'[id].told
      BY <3>5 DEF Synced
    <3>8. Hand(e, id)'
      BY <3>5, <3>6, <3>7 DEF Hand
    <3>9. QED
      BY <1>12, <2>1, <3>3, <3>4, <3>5, <3>8
  <2>7. QED
    BY <2>5, <2>6
<1>14. ASSUME NEW e \in Evaluators, Alerts!Deliver(e) PROVE Episode(id)'
  <2>. DEFINE i == eval[e].id
              n == [notices[i] EXCEPT !.told = eval[e].action]
              new == [eval[e] EXCEPT !.pc = "audit"]
  <2>1. eval[e].pc = "deliver" /\ i \in Alerts!Ids /\ UNCHANGED <<rules, state, loose>>
    BY <1>14 DEF Alerts!Deliver, Alerts!TypeOK
  <2>2. Episode(id) /\ id \in Alerts!Ids
    BY <1>7, <2>1
  <2>3. eval' = [eval EXCEPT ![e] = new] /\ notices' = [notices EXCEPT ![i] = n]
    BY <1>14 DEF Alerts!Deliver
  <2>4. notices[i] \in Alerts!Notice
    BY <1>0, <2>1, ElementOfSeq DEF Alerts!TypeOK
  <2>5. n.told = eval[e].action /\ n.audited = notices[i].audited
    BY <2>4 DEF Alerts!Notice
  <2>6. new.pc = "audit" /\ new.action = eval[e].action /\ new.id = i /\ new.breached = eval[e].breached
    BY <2>1, EvaluationOf
  <2>. HIDE DEF new, n
  <2>7. CASE i # id
    <3>1. notices'[id] = notices[id] /\ (id \in doubled' => id \in doubled)
      BY <1>0, <1>14, <2>2, <2>3, <2>7 DEF Alerts!Deliver
    <3>2. QED
      BY <1>9, <1>10, <2>1, <2>3, <2>6, <2>7, <3>1
  <2>8. CASE i = id
    <3>1. Alerts!InHand(e, id)
      BY <2>1, <2>8 DEF Alerts!InHand
    <3>2. /\ Hand(e, id) /\ id \notin doubled
          /\ \A f \in Evaluators \ {e} : ~Alerts!InHand(f, id)'
      BY <1>9, <1>11, <2>2, <2>3, <3>1
    <3>3. Synced(id) /\ eval[e].action = Alerts!Action(state[id], eval[e].breached) /\ eval[e].action # "none"
      BY <2>1, <3>2 DEF Hand, Alerts!TypeOK
    <3>4. notices[id].told # eval[e].action
      BY <3>3 DEF Synced, Alerts!Action
    <3>5. id \notin doubled'
      BY <1>14, <2>8, <3>2, <3>4 DEF Alerts!Deliver
    <3>6. notices'[id] = n
      BY <1>0, <2>2, <2>3, <2>8
    <3>7. Alerts!InHand(e, id)' /\ Hand(e, id)'
      BY <1>9, <2>1, <2>3, <2>5, <2>6, <2>8, <3>3, <3>6 DEF Hand, Alerts!InHand
    <3>8. QED
      BY <1>12, <3>2, <3>5, <3>7
  <2>9. QED
    BY <2>7, <2>8
<1>15. ASSUME NEW e \in Evaluators, Alerts!AppendAudit(e) PROVE Episode(id)'
  <2>. DEFINE i == eval[e].id
              n == [notices[i] EXCEPT !.audited = eval[e].action]
              new == [eval[e] EXCEPT !.pc = "store"]
  <2>1. eval[e].pc = "audit" /\ i \in Alerts!Ids /\ UNCHANGED <<rules, state, loose, doubled>>
    BY <1>15 DEF Alerts!AppendAudit, Alerts!TypeOK
  <2>2. Episode(id) /\ id \in Alerts!Ids
    BY <1>7, <2>1
  <2>3. eval' = [eval EXCEPT ![e] = new] /\ notices' = [notices EXCEPT ![i] = n]
    BY <1>15 DEF Alerts!AppendAudit
  <2>4. notices[i] \in Alerts!Notice
    BY <1>0, <2>1, ElementOfSeq DEF Alerts!TypeOK
  <2>5. n.told = notices[i].told /\ n.audited = eval[e].action
    BY <2>4 DEF Alerts!Notice
  <2>6. new.pc = "store" /\ new.action = eval[e].action /\ new.id = i /\ new.breached = eval[e].breached
    BY <2>1, EvaluationOf
  <2>. HIDE DEF new, n
  <2>7. CASE i # id
    <3>1. notices'[id] = notices[id]
      BY <1>0, <2>2, <2>3, <2>7
    <3>2. QED
      BY <1>9, <1>10, <2>1, <2>3, <2>6, <2>7, <3>1
  <2>8. CASE i = id
    <3>1. Alerts!InHand(e, id)
      BY <2>1, <2>8 DEF Alerts!InHand
    <3>2. /\ Hand(e, id) /\ id \notin doubled
          /\ \A f \in Evaluators \ {e} : ~Alerts!InHand(f, id)'
      BY <1>9, <1>11, <2>2, <2>3, <3>1
    <3>3. /\ notices[id].told = eval[e].action /\ eval[e].action # "none"
          /\ eval[e].action = Alerts!Action(state[id], eval[e].breached)
      BY <2>1, <3>2 DEF Hand, Alerts!TypeOK
    <3>4. notices'[id] = n
      BY <1>0, <2>2, <2>3, <2>8
    <3>5. Alerts!InHand(e, id)' /\ Hand(e, id)'
      BY <1>9, <2>1, <2>3, <2>5, <2>6, <2>8, <3>3, <3>4 DEF Hand, Alerts!InHand
    <3>6. QED
      BY <1>12, <2>1, <3>2, <3>5
  <2>9. QED
    BY <2>7, <2>8
<1>16. ASSUME NEW e \in Evaluators, Alerts!Store(e) PROVE Episode(id)'
  <2>. DEFINE i == eval[e].id
              s == IF eval[e].breached THEN "BREACHED" ELSE "OK"
              new == Alerts!Finished(e)
  <2>1. eval[e].pc = "store" /\ i \in Alerts!Ids /\ UNCHANGED <<rules, notices, loose, doubled>>
    BY <1>16 DEF Alerts!Store, Alerts!TypeOK
  <2>2. Episode(id) /\ id \in Alerts!Ids
    BY <1>7, <2>1
  <2>3. eval' = [eval EXCEPT ![e] = new] /\ state' = [state EXCEPT ![i] = s]
    BY <1>16 DEF Alerts!Store
  <2>4. new.pc \in {"idle", "next"}
    BY DEF Alerts!Finished, Alerts!Idle
  <2>. HIDE DEF new
  <2>5. CASE i # id
    <3>1. state'[id] = state[id]
      BY <1>0, <2>2, <2>3, <2>5
    <3>2. QED
      BY <1>9, <1>10, <2>1, <2>3, <2>4, <2>5, <3>1
  <2>6. CASE i = id
    <3>1. Alerts!InHand(e, id)
      BY <2>1, <2>6 DEF Alerts!InHand
    <3>2. /\ Hand(e, id) /\ id \notin doubled
          /\ \A f \in Evaluators \ {e} : ~Alerts!InHand(f, id)'
      BY <1>9, <1>11, <2>2, <2>3, <3>1
    <3>3. state'[id] = s
      BY <1>0, <2>2, <2>3, <2>6
    <3>4. Synced(id)'
      BY <2>1, <3>2, <3>3, EvaluationOf DEF Hand, Synced, Alerts!Action, Alerts!Actions
    <3>5. ~Alerts!InHand(e, id)'
      BY <1>9, <2>3, <2>4 DEF Alerts!InHand
    <3>6. QED
      BY <1>12, <2>1, <3>2, <3>4, <3>5
  <2>7. QED
    BY <2>5, <2>6
<1>17. ASSUME NEW e \in Evaluators, Alerts!Fails(e) PROVE Episode(id)'
  <2>. DEFINE i == eval[e].id
  <2>1. /\ eval[e].pc # "idle" /\ eval' = [eval EXCEPT ![e] = Alerts!Idle]
        /\ loose \subseteq loose' /\ UNCHANGED <<rules, state, notices, doubled>>
    BY <1>17 DEF Alerts!Fails
  <2>2. Episode(id) /\ id \in Alerts!Ids
    BY <1>7, <2>1
  <2>3. ~Alerts!InHand(e, id)'
    <3>0. eval'[e] = Alerts!Idle
      BY <1>9, <2>1
    <3>1. eval'[e].pc = "idle"
      BY <3>0 DEF Alerts!Idle
    <3>2. QED
      BY <3>1 DEF Alerts!InHand
  <2>4. CASE ~Alerts!InHand(e, id)
    <3>1. \A f \in Evaluators : eval'[f] = eval[f] \/ (~Alerts!InHand(f, id) /\ ~Alerts!InHand(f, id)')
      BY <1>9, <2>1, <2>3, <2>4
    <3>2. QED
      BY <2>1, <2>2, <3>1, EpisodeKept
  <2>5. CASE Alerts!InHand(e, id)
    <3>1. /\ Hand(e, id) /\ id \notin doubled
          /\ \A f \in Evaluators \ {e} : ~Alerts!InHand(f, id)'
      BY <1>9, <1>11, <2>1, <2>2, <2>5
    <3>2. eval[e].pc \in {"audit", "store"} => eval[e].action = "none"
      BY <1>17, <2>5 DEF Alerts!Fails, Alerts!InHand
    <3>3. Synced(id)
      BY <2>5, <3>1, <3>2 DEF Hand, Alerts!InHand, Alerts!TypeOK
    <3>4. Synced(id)'
      BY <2>1, <3>3 DEF Synced
    <3>5. QED
      BY <1>12, <2>1, <2>3, <3>1, <3>4
  <2>6. QED
    BY <2>4, <2>5
<1>18. QED
  BY <1>1, <1>3, <1>4, <1>5, <1>6, <1>8, <1>13, <1>14, <1>15, <1>16, <1>17 DEF Alerts!Next

\* However many evaluations run at once, whatever rules they find and wherever they stop, an episode of a
\* rule that is not loose is told once when it begins and once when it ends, and the audit log and the
\* stored state have what was told last (UsageAlertService.applyEpisode).
THEOREM AlertsSafety ==
  ASSUME Alerts!Numbers
  PROVE  Alerts!Spec => [](Alerts!TypeOK /\ Alerts!EpisodeIsTold)
<1>1. Alerts!Init => EpisodeInv
  BY DEF Alerts!Init, EpisodeInv, Alerts!Ids
<1>2. Alerts!TypeOK /\ EpisodeInv => Alerts!EpisodeIsTold
  BY DEF EpisodeInv, Episode, Synced, Alerts!EpisodeIsTold
<1>3. QED
  BY <1>1, <1>2, AlertsTypeInit, AlertsTypeStep, EpisodeStep, PTL DEF Alerts!Spec

\* The alert rules among the console's parts: an episode of a rule that is not loose is told once
\* when it begins and once when it ends (UsageAlertService.applyEpisode).
THEOREM EpisodeIsToldHolds == ConsoleSpec => []EpisodeIsTold
<1>1. [ConsoleNext]_allVars => part' = part
  BY DEF ConsoleNext, allVars, Moves
<1>2. ConsoleInit /\ part = "alerts" => Alerts!Init
  BY DEF ConsoleInit
<1>3. [ConsoleNext]_allVars /\ part = "alerts" => [Alerts!Next]_(Alerts!vars)
  BY DEF ConsoleNext, allVars, Alerts!vars, alerts, Moves
<1>4. Alerts!Spec => [](Alerts!TypeOK /\ Alerts!EpisodeIsTold)
  BY AlertsSafety, ConstantsAssumption DEF ConstantsAssumption
<1>5. part = "alerts" /\ part' = part => (part = "alerts")'
  OBVIOUS
<1>6. part # "alerts" /\ part' = part => (part # "alerts")'
  OBVIOUS
<1>7. (part # "alerts" => EpisodeIsTold) /\ (Alerts!TypeOK /\ Alerts!EpisodeIsTold => EpisodeIsTold)
  BY DEF EpisodeIsTold
<1>8. part = "alerts" \/ part # "alerts"
  OBVIOUS
<1>9. QED
  BY <1>1, <1>2, <1>3, <1>4, <1>5, <1>6, <1>7, <1>8, PTL DEF ConsoleSpec, Alerts!Spec

-----------------------------------------------------------------------------
(* Plan changes: types.                                                    *)

\* No request, no read and no event yet.
LEMMA PlansTypeInit == Plans!Stocked /\ Plans!Init => Plans!TypeOK
<1>. SUFFICES ASSUME Plans!Stocked, Plans!Init PROVE Plans!TypeOK
  OBVIOUS
<1>. USE DEF Plans!Stocked, Plans!Init, Plans!TypeOK
<1>1. reqs \in Seq(Plans!PlanRequest) /\ audited \in Seq(Seq(Plans!Statuses)) /\ Len(audited) = Len(reqs)
  BY EmptySeq
<1>2. hooks \in [DOMAIN hooks -> Plans!CapEvent]
  BY DEF Plans!CapEvent
<1>3. /\ cached \in Plans!Row /\ cached.v <= plan
      /\ reader \in [Readers -> Plans!Reader] /\ \A r \in Readers : reader[r].v <= plan
  BY DEF Plans!Row, Plans!NoRow, Plans!Reader, Plans!Quiet
<1>4. QED
  BY <1>1, <1>2, <1>3

\* A bound that is used up by one step is still a bound, and the role stays.
LEMMA PlansUses ==
  ASSUME Plans!TypeOK, NEW what \in {"requests", "changes", "reads", "ticks", "failures", "runs"}, Plans!Uses(what)
  PROVE  orders' \in Plans!Stock /\ orders'.admin = orders.admin
<1>0. orders \in Plans!Stock
  BY DEF Plans!TypeOK
<1>1. CASE what = "requests"
  <2>1. orders.requests > 0 /\ orders' = [orders EXCEPT !.requests = @ - 1]
    BY <1>1 DEF Plans!Uses
  <2>2. QED
    BY <1>0, <2>1 DEF Plans!Stock
<1>2. CASE what = "changes"
  <2>1. orders.changes > 0 /\ orders' = [orders EXCEPT !.changes = @ - 1]
    BY <1>2 DEF Plans!Uses
  <2>2. QED
    BY <1>0, <2>1 DEF Plans!Stock
<1>3. CASE what = "reads"
  <2>1. orders.reads > 0 /\ orders' = [orders EXCEPT !.reads = @ - 1]
    BY <1>3 DEF Plans!Uses
  <2>2. QED
    BY <1>0, <2>1 DEF Plans!Stock
<1>4. CASE what = "ticks"
  <2>1. orders.ticks > 0 /\ orders' = [orders EXCEPT !.ticks = @ - 1]
    BY <1>4 DEF Plans!Uses
  <2>2. QED
    BY <1>0, <2>1 DEF Plans!Stock
<1>5. CASE what = "failures"
  <2>1. orders.failures > 0 /\ orders' = [orders EXCEPT !.failures = @ - 1]
    BY <1>5 DEF Plans!Uses
  <2>2. QED
    BY <1>0, <2>1 DEF Plans!Stock
<1>6. CASE what = "runs"
  <2>1. orders.runs > 0 /\ orders' = [orders EXCEPT !.runs = @ - 1]
    BY <1>6 DEF Plans!Uses
  <2>2. QED
    BY <1>0, <2>1 DEF Plans!Stock
<1>7. QED
  BY <1>1, <1>2, <1>3, <1>4, <1>5, <1>6

\* What the requests' part of the state is, and what is known of each request.
RequestsTyped ==
  /\ reqs \in Seq(Plans!PlanRequest)
  /\ audited \in Seq(Seq(Plans!Statuses)) /\ Len(audited) = Len(reqs)
  /\ taken \cup posted \cup faulty \subseteq DOMAIN reqs

\* How far a request has come, what was dispatched or posted for it, and what the log has of it.
Request(i) ==
  /\ reqs[i].pc # "done" => reqs[i].status = "REQUESTED" /\ ~reqs[i].conv
  /\ reqs[i].pc \in {"dispatch", "mark"} => orders.admin /\ i \notin posted
  /\ reqs[i].pc \in {"converse", "refer"} => ~orders.admin
  /\ reqs[i].pc = "dispatch" => i \notin taken \cup faulty
  /\ reqs[i].pc = "mark" => /\ reqs[i].heard => i \in taken
                            /\ i \in faulty \/ (reqs[i].heard <=> i \in taken)
  /\ reqs[i].pc = "converse" => ~reqs[i].heard /\ i \notin posted
  /\ reqs[i].pc = "refer" => i \in faulty \/ (reqs[i].heard <=> i \in posted)
  /\ reqs[i].status = "DISPATCHED" => i \in taken
  /\ audited[i] # <<>> /\ audited[i][Len(audited[i])] = reqs[i].status
  /\ reqs[i].pc = "done" /\ i \notin faulty =>
       /\ orders.admin => (i \in taken <=> reqs[i].status = "DISPATCHED") /\ reqs[i].status # "REQUESTED"
       /\ reqs[i].conv <=> i \in posted

RequestsInv == RequestsTyped /\ \A i \in DOMAIN reqs : Request(i)

\* The types of the requests, when one of them changes and is audited.
LEMMA RequestChanged ==
  ASSUME RequestsTyped, NEW i \in DOMAIN reqs, NEW r \in Plans!PlanRequest, reqs' = [reqs EXCEPT ![i] = r],
         \/ UNCHANGED audited
         \/ audited' = [audited EXCEPT ![i] = Append(audited[i], r.status)],
         taken' \cup posted' \cup faulty' \subseteq taken \cup posted \cup faulty \cup {i}
  PROVE  /\ RequestsTyped' /\ DOMAIN reqs' = DOMAIN reqs /\ reqs'[i] = r
         /\ \A j \in DOMAIN reqs : j # i => reqs'[j] = reqs[j] /\ audited'[j] = audited[j]
         /\ audited' = [audited EXCEPT ![i] = Append(audited[i], r.status)] =>
              audited'[i] # <<>> /\ audited'[i][Len(audited'[i])] = r.status
<1>1. DOMAIN reqs = 1 .. Len(reqs) /\ Len(reqs) \in Nat
  BY LenProperties DEF RequestsTyped
<1>2. reqs' \in Seq(Plans!PlanRequest) /\ Len(reqs') = Len(reqs) /\ DOMAIN reqs' = DOMAIN reqs
  BY <1>1, ExceptSeq DEF RequestsTyped
<1>3. audited[i] \in Seq(Plans!Statuses)
  BY <1>1, ElementOfSeq DEF RequestsTyped
<1>. DEFINE a == Append(audited[i], r.status)
            S == Seq(Plans!Statuses)
<1>4. a \in Seq(Plans!Statuses) /\ a # <<>> /\ a[Len(a)] = r.status
  BY <1>3, AppendProperties DEF Plans!PlanRequest
<1>5. /\ audited' \in Seq(Seq(Plans!Statuses)) /\ Len(audited') = Len(reqs)
      /\ \A j \in DOMAIN reqs : j # i => audited'[j] = audited[j]
      /\ audited' = [audited EXCEPT ![i] = a] => audited'[i] = a
  <2>1. a \in S /\ audited \in Seq(S) /\ i \in 1 .. Len(audited) /\ Len(audited) = Len(reqs)
    BY <1>1, <1>4 DEF RequestsTyped
  <2>2. audited' = audited \/ audited' = [audited EXCEPT ![i] = a]
    OBVIOUS
  <2>. HIDE DEF a, S
  <2>3. /\ audited' \in Seq(S) /\ Len(audited') = Len(audited)
        /\ \A j \in 1 .. Len(audited) : j # i => audited'[j] = audited[j]
        /\ audited' = [audited EXCEPT ![i] = a] => audited'[i] = a
    <3>1. CASE audited' = audited
      BY <2>1, <3>1
    <3>2. CASE audited' = [audited EXCEPT ![i] = a]
      <4>1. /\ audited' \in Seq(S) /\ Len(audited') = Len(audited)
            /\ \A j \in 1 .. Len(audited) : audited'[j] = IF j = i THEN a ELSE audited[j]
        BY <2>1, <3>2, ExceptSeq
      <4>2. QED
        BY <2>1, <4>1
    <3>3. QED
      BY <2>2, <3>1, <3>2
  <2>4. QED
    BY <1>1, <2>1, <2>3 DEF S
<1>. HIDE DEF a
<1>6. \A j \in DOMAIN reqs : reqs'[j] = IF j = i THEN r ELSE reqs[j]
  OBVIOUS
<1>7. RequestsTyped'
  BY <1>2, <1>5 DEF RequestsTyped
<1>8. QED
  BY <1>2, <1>4, <1>5, <1>6, <1>7 DEF a

\* What is known of one request depends on that request alone.
LEMMA RequestMoves ==
  ASSUME RequestsInv, NEW i \in DOMAIN reqs, NEW r \in Plans!PlanRequest, reqs' = [reqs EXCEPT ![i] = r],
         \/ UNCHANGED audited
         \/ audited' = [audited EXCEPT ![i] = Append(audited[i], r.status)],
         taken \subseteq taken' /\ posted \subseteq posted' /\ faulty \subseteq faulty',
         \A j \in taken' \ taken : j = i, \A j \in posted' \ posted : j = i, \A j \in faulty' \ faulty : j = i,
         orders'.admin = orders.admin, reqs'[i] = r => Request(i)'
  PROVE  RequestsInv'
<1>1. /\ RequestsTyped' /\ DOMAIN reqs' = DOMAIN reqs /\ reqs'[i] = r
      /\ \A j \in DOMAIN reqs : j # i => reqs'[j] = reqs[j] /\ audited'[j] = audited[j]
  BY RequestChanged DEF RequestsInv
<1>2. \A j \in DOMAIN reqs : j # i => Request(j)'
  BY <1>1 DEF RequestsInv, Request
<1>3. QED
  BY <1>1, <1>2 DEF RequestsInv

\* No step makes a request that the log or the dispatch contradicts.
LEMMA RequestsStep == Plans!TypeOK /\ RequestsInv /\ [Plans!Next]_(Plans!vars) => RequestsInv'
<1>. SUFFICES ASSUME Plans!TypeOK, RequestsInv, [Plans!Next]_(Plans!vars) PROVE RequestsInv'
  OBVIOUS
<1>0. /\ DOMAIN reqs = 1 .. Len(reqs) /\ Len(reqs) \in Nat
      /\ \A i \in DOMAIN reqs : reqs[i] \in Plans!PlanRequest /\ Request(i)
  BY LenProperties, ElementOfSeq DEF RequestsInv, RequestsTyped
<1>1. ASSUME UNCHANGED <<reqs, taken, posted, audited, faulty>>, orders'.admin = orders.admin PROVE RequestsInv'
  BY <1>1 DEF RequestsInv, RequestsTyped, Request
<1>2. CASE Plans!Request
  <2>. DEFINE r == [status |-> "REQUESTED", conv |-> FALSE, heard |-> FALSE,
                    pc |-> IF orders.admin THEN "dispatch" ELSE "converse"]
              row == <<"REQUESTED">>
              new == Len(reqs) + 1
  <2>1. /\ reqs' = Append(reqs, r) /\ audited' = Append(audited, row)
        /\ UNCHANGED <<taken, posted, faulty>> /\ orders'.admin = orders.admin
    BY <1>2, PlansUses DEF Plans!Request
  <2>2. r \in Plans!PlanRequest /\ orders.admin \in BOOLEAN
    BY DEF Plans!PlanRequest, Plans!Statuses, Plans!TypeOK, Plans!Stock
  <2>3. row \in Seq(Plans!Statuses) /\ row # <<>> /\ row[Len(row)] = "REQUESTED"
    BY DEF Plans!Statuses
  <2>4. r.status = "REQUESTED" /\ ~r.conv /\ ~r.heard /\ r.pc = (IF orders.admin THEN "dispatch" ELSE "converse")
    OBVIOUS
  <2>. HIDE DEF r, row
  <2>5. /\ reqs' \in Seq(Plans!PlanRequest) /\ Len(reqs') = new /\ reqs'[new] = r
        /\ \A i \in 1 .. Len(reqs) : reqs'[i] = reqs[i]
    BY <1>0, <2>1, <2>2, AppendProperties DEF RequestsInv, RequestsTyped
  <2>6. /\ audited' \in Seq(Seq(Plans!Statuses)) /\ Len(audited') = new /\ audited'[new] = row
        /\ \A i \in 1 .. Len(reqs) : audited'[i] = audited[i]
    BY <1>0, <2>1, <2>3, AppendProperties DEF RequestsInv, RequestsTyped
  <2>7. DOMAIN reqs' = 1 .. new
    BY <2>5, LenProperties
  <2>8. ASSUME NEW i \in 1 .. new PROVE Request(i)'
    <3>1. CASE i \in 1 .. Len(reqs)
      <4>1. reqs'[i] = reqs[i] /\ audited'[i] = audited[i] /\ Request(i)
        BY <1>0, <2>5, <2>6, <3>1
      <4>2. QED
        BY <2>1, <4>1 DEF Request
    <3>2. CASE i = new
      <4>1. i \notin DOMAIN reqs /\ i \notin taken \cup posted \cup faulty
        BY <1>0, <3>2 DEF RequestsInv, RequestsTyped
      <4>2. QED
        BY <2>1, <2>2, <2>3, <2>4, <2>5, <2>6, <3>2, <4>1 DEF Request
    <3>3. QED
      BY <1>0, <3>1, <3>2
  <2>9. QED
    BY <1>0, <2>1, <2>5, <2>6, <2>7, <2>8 DEF RequestsInv, RequestsTyped
<1>3. ASSUME NEW i \in DOMAIN reqs, Plans!Dispatch(i) PROVE RequestsInv'
  <2>1. PICK accepts \in BOOLEAN, lost \in BOOLEAN :
          /\ IF lost THEN Plans!Uses("failures") ELSE UNCHANGED orders
          /\ taken' = IF accepts THEN taken \cup {i} ELSE taken
          /\ reqs' = [reqs EXCEPT ![i].pc = "mark", ![i].heard = accepts /\ ~lost]
          /\ faulty' = IF lost THEN faulty \cup {i} ELSE faulty
    BY <1>3 DEF Plans!Dispatch
  <2>. DEFINE r == [reqs[i] EXCEPT !.pc = "mark", !.heard = accepts /\ ~lost]
  <2>2. /\ r \in Plans!PlanRequest /\ r.pc = "mark" /\ r.heard = (accepts /\ ~lost)
        /\ r.status = reqs[i].status /\ r.conv = reqs[i].conv
    BY <1>0 DEF Plans!PlanRequest
  <2>3. reqs' = [reqs EXCEPT ![i] = r]
    BY <2>1
  <2>. HIDE DEF r
  <2>4. orders'.admin = orders.admin
    BY <2>1, PlansUses
  <2>5. reqs[i].pc = "dispatch" /\ UNCHANGED <<posted, audited>>
    BY <1>3 DEF Plans!Dispatch
  <2>6. ASSUME reqs'[i] = r PROVE Request(i)'
    BY <1>0, <2>1, <2>2, <2>4, <2>5, <2>6 DEF Request
  <2>7. QED
    BY <2>1, <2>2, <2>3, <2>4, <2>5, <2>6, RequestMoves
<1>4. ASSUME NEW i \in DOMAIN reqs, Plans!Mark(i) PROVE RequestsInv'
  <2>. DEFINE status == IF reqs[i].heard THEN "DISPATCHED" ELSE "FAILED"
              r == [reqs[i] EXCEPT !.status = status, !.pc = "done"]
  <2>1. /\ reqs[i].pc = "mark" /\ UNCHANGED <<taken, posted, faulty, orders>>
        /\ reqs' = [reqs EXCEPT ![i] = r]
        /\ audited' = [audited EXCEPT ![i] = Append(audited[i], status)]
    BY <1>4 DEF Plans!Mark
  <2>2. /\ r \in Plans!PlanRequest /\ r.pc = "done" /\ r.heard = reqs[i].heard
        /\ r.status = status /\ r.conv = reqs[i].conv
    BY <1>0 DEF Plans!PlanRequest, Plans!Statuses
  <2>. HIDE DEF r
  <2>3. audited' = [audited EXCEPT ![i] = Append(audited[i], r.status)]
    BY <2>1, <2>2
  <2>5. ASSUME reqs'[i] = r PROVE Request(i)'
    <3>1. audited'[i] # <<>> /\ audited'[i][Len(audited'[i])] = r.status
      BY <2>1, <2>2, <2>3, RequestChanged DEF RequestsInv
    <3>2. QED
      BY <1>0, <2>1, <2>2, <2>5, <3>1 DEF Request
  <2>6. QED
    BY <2>1, <2>2, <2>3, <2>5, RequestMoves
<1>5. ASSUME NEW i \in DOMAIN reqs, Plans!FallbackToConversation(i) PROVE RequestsInv'
  <2>. DEFINE r == [reqs[i] EXCEPT !.pc = "refer", !.heard = TRUE]
  <2>1. /\ reqs[i].pc = "converse" /\ UNCHANGED <<taken, audited>>
        /\ reqs' = [reqs EXCEPT ![i] = r]
        /\ \/ posted' = posted \cup {i} /\ UNCHANGED <<faulty, orders>>
           \/ posted' = posted /\ faulty' = faulty \cup {i} /\ Plans!Uses("failures")
    BY <1>5 DEF Plans!FallbackToConversation
  <2>2. /\ r \in Plans!PlanRequest /\ r.pc = "refer" /\ r.heard = TRUE
        /\ r.status = reqs[i].status /\ r.conv = reqs[i].conv
    BY <1>0 DEF Plans!PlanRequest
  <2>. HIDE DEF r
  <2>3. orders'.admin = orders.admin
    BY <2>1, PlansUses
  <2>4. ASSUME reqs'[i] = r PROVE Request(i)'
    BY <1>0, <2>1, <2>2, <2>3, <2>4 DEF Request
  <2>5. QED
    BY <2>1, <2>2, <2>3, <2>4, RequestMoves
<1>6. ASSUME NEW i \in DOMAIN reqs, Plans!ConversationFails(i) PROVE RequestsInv'
  <2>. DEFINE r == [reqs[i] EXCEPT !.pc = "refer"]
  <2>1. /\ reqs[i].pc = "converse" /\ UNCHANGED <<taken, posted, faulty, audited>>
        /\ reqs' = [reqs EXCEPT ![i] = r] /\ Plans!Uses("failures")
    BY <1>6 DEF Plans!ConversationFails
  <2>2. /\ r \in Plans!PlanRequest /\ r.pc = "refer" /\ r.heard = reqs[i].heard
        /\ r.status = reqs[i].status /\ r.conv = reqs[i].conv
    BY <1>0 DEF Plans!PlanRequest
  <2>. HIDE DEF r
  <2>3. orders'.admin = orders.admin
    BY <2>1, PlansUses
  <2>4. ASSUME reqs'[i] = r PROVE Request(i)'
    BY <1>0, <2>1, <2>2, <2>3, <2>4 DEF Request
  <2>5. QED
    BY <2>1, <2>2, <2>3, <2>4, RequestMoves
<1>7. ASSUME NEW i \in DOMAIN reqs, Plans!Refer(i) PROVE RequestsInv'
  <2>. DEFINE r == [reqs[i] EXCEPT !.conv = reqs[i].heard, !.pc = "done"]
  <2>1. /\ reqs[i].pc = "refer" /\ UNCHANGED <<taken, posted, faulty, audited, orders>>
        /\ reqs' = [reqs EXCEPT ![i] = r]
    BY <1>7 DEF Plans!Refer
  <2>2. /\ r \in Plans!PlanRequest /\ r.pc = "done" /\ r.status = reqs[i].status /\ r.conv = reqs[i].heard
    BY <1>0 DEF Plans!PlanRequest
  <2>. HIDE DEF r
  <2>4. ASSUME reqs'[i] = r PROVE Request(i)'
    BY <1>0, <2>1, <2>2, <2>4 DEF Request
  <2>5. QED
    BY <2>1, <2>2, <2>4, RequestMoves
<1>8. ASSUME NEW i \in DOMAIN reqs, Plans!RequestDies(i) PROVE RequestsInv'
  <2>. DEFINE r == [reqs[i] EXCEPT !.pc = "done"]
  <2>1. /\ faulty' = faulty \cup {i} /\ UNCHANGED <<taken, posted, audited>>
        /\ reqs' = [reqs EXCEPT ![i] = r] /\ Plans!Uses("failures")
    BY <1>8 DEF Plans!RequestDies
  <2>2. /\ r \in Plans!PlanRequest /\ r.pc = "done" /\ r.status = reqs[i].status /\ r.conv = reqs[i].conv
    BY <1>0 DEF Plans!PlanRequest
  <2>. HIDE DEF r
  <2>3. orders'.admin = orders.admin
    BY <2>1, PlansUses
  <2>4. ASSUME reqs'[i] = r PROVE Request(i)'
    BY <1>0, <2>1, <2>2, <2>3, <2>4 DEF Request
  <2>5. QED
    BY <2>1, <2>2, <2>3, <2>4, RequestMoves
<1>9. CASE Plans!ChangePlan \/ Plans!Tick \/ Plans!Restart
  BY <1>1, <1>9, PlansUses DEF Plans!ChangePlan, Plans!Tick, Plans!Restart, Plans!requests
<1>10. ASSUME NEW r \in Readers, Plans!GetSubscription(r) PROVE RequestsInv'
  BY <1>1, <1>10, PlansUses DEF Plans!GetSubscription, Plans!requests
<1>11. ASSUME NEW q \in reads, Plans!ReadSource(q) \/ Plans!ReadSucceeds(q) \/ Plans!ReadFails(q) PROVE RequestsInv'
  BY <1>1, <1>11, PlansUses DEF Plans!ReadSource, Plans!ReadSucceeds, Plans!ReadFails, Plans!requests
<1>12. ASSUME NEW e \in DOMAIN hooks,
              Plans!Run(e) \/ Plans!OnCapApproaching(e) \/ Plans!MarkProcessed(e) \/ Plans!RunFails(e)
       PROVE  RequestsInv'
  BY <1>1, <1>12, PlansUses
     DEF Plans!Run, Plans!OnCapApproaching, Plans!MarkProcessed, Plans!RunFails, Plans!requests
<1>13. CASE UNCHANGED Plans!vars
  BY <1>1, <1>13 DEF Plans!vars
<1>14. QED
  BY <1>2, <1>3, <1>4, <1>5, <1>6, <1>7, <1>8, <1>9, <1>10, <1>11, <1>12, <1>13 DEF Plans!Next

\* The subscription: one read at a time, so what it brings is never older than what was told.
SubscriptionInv ==
  /\ plan \in Nat /\ instant \in Nat /\ newest \in 0..plan
  /\ cached \in Plans!Row /\ cached.v <= plan /\ (cached.there => cached.v = newest)
  /\ reads \subseteq Plans!SourceRead
  /\ \A q \in reads : q.v <= plan /\ q.prior.v <= plan /\ (q.v # 0 => newest <= q.v)
  /\ \A p, q \in reads : p = q
  /\ reader \in [Readers -> Plans!Reader]
  /\ \A r \in Readers : /\ reader[r].v <= plan /\ reader[r].since <= newest
                        /\ reader[r].told = "fresh" => reader[r].v >= reader[r].since

\* Everyone whom a read answers.
LEMMA ReadersAnswered ==
  ASSUME SubscriptionInv, NEW q, NEW how \in {"fresh", "stale", "none"}, NEW v \in Nat, v <= plan,
         how = "fresh" => newest <= v, Plans!Answered(q, how, v)
  PROVE  /\ reader' \in [Readers -> Plans!Reader]
         /\ \A r \in Readers : /\ reader'[r].v <= plan /\ reader'[r].since <= newest
                               /\ reader'[r].told = "fresh" => reader'[r].v >= reader'[r].since
<1>1. reader' = [r \in Readers |-> IF r \in q.for THEN [Plans!Told(how, v) EXCEPT !.since = reader[r].since]
                                   ELSE reader[r]]
  BY DEF Plans!Answered
<1>2. ASSUME NEW r \in Readers
      PROVE  /\ reader'[r] \in Plans!Reader
             /\ reader'[r].v <= plan /\ reader'[r].since <= newest
             /\ reader'[r].told = "fresh" => reader'[r].v >= reader'[r].since
  <2>. DEFINE new == [Plans!Told(how, v) EXCEPT !.since = reader[r].since]
  <2>1. reader[r] \in Plans!Reader /\ reader[r].since \in Nat /\ reader[r].since <= newest /\ newest \in Nat
    BY DEF SubscriptionInv, Plans!Reader
  <2>2. new \in Plans!Reader /\ new.v = v /\ new.since = reader[r].since /\ new.told = how
    BY <2>1 DEF Plans!Reader, Plans!Told
  <2>. HIDE DEF new
  <2>3. reader'[r] = new \/ reader'[r] = reader[r]
    BY <1>1 DEF new
  <2>4. QED
    BY <2>1, <2>2, <2>3 DEF SubscriptionInv
<1>3. QED
  BY <1>1, <1>2

\* No step brings a reader something older than what was told when it asked.
LEMMA SubscriptionStep ==
  ASSUME Plans!Stocked
  PROVE  SubscriptionInv /\ [Plans!Next]_(Plans!vars) => SubscriptionInv'
<1>. SUFFICES ASSUME SubscriptionInv, [Plans!Next]_(Plans!vars) PROVE SubscriptionInv'
  OBVIOUS
<1>1. ASSUME UNCHANGED Plans!subscription PROVE SubscriptionInv'
  BY <1>1 DEF SubscriptionInv, Plans!subscription
<1>2. CASE Plans!ChangePlan
  <2>1. /\ \A q \in reads : q.v \in Nat /\ q.prior.v \in Nat
        /\ cached.v \in Nat /\ \A r \in Readers : reader[r].v \in Nat
    BY DEF SubscriptionInv, Plans!SourceRead, Plans!Row, Plans!Reader
  <2>2. plan' = plan + 1 /\ UNCHANGED <<instant, cached, reads, reader, newest>>
    BY <1>2 DEF Plans!ChangePlan
  <2>3. QED
    BY <2>1, <2>2 DEF SubscriptionInv
<1>3. CASE Plans!Tick
  BY <1>3 DEF Plans!Tick, SubscriptionInv
<1>4. CASE Plans!Restart
  <2>1. /\ cached' = Plans!NoRow /\ reads' = {}
        /\ reader' = [r \in Readers |-> IF reader[r].waits THEN Plans!Quiet ELSE reader[r]]
        /\ UNCHANGED <<plan, instant, newest>>
    BY <1>4 DEF Plans!Restart
  <2>2. /\ Plans!Quiet \in Plans!Reader /\ Plans!Quiet.v = 0 /\ Plans!Quiet.since = 0 /\ Plans!Quiet.told = "nothing"
        /\ Plans!NoRow \in Plans!Row /\ Plans!NoRow.v = 0 /\ ~Plans!NoRow.there
    BY DEF Plans!Quiet, Plans!Reader, Plans!NoRow, Plans!Row
  <2>3. QED
    BY <2>1, <2>2 DEF SubscriptionInv
<1>5. ASSUME NEW r \in Readers, Plans!GetSubscription(r) PROVE SubscriptionInv'
  <2>1. UNCHANGED <<plan, instant, cached, newest>>
    BY <1>5 DEF Plans!GetSubscription
  <2>2. CASE Plans!Cached
    <3>. DEFINE new == Plans!Told("fresh", cached.v)
    <3>1. reader' = [reader EXCEPT ![r] = new] /\ reads' = reads
      BY <1>5, <2>2 DEF Plans!GetSubscription
    <3>2. cached.v = newest /\ newest \in Nat
      BY <2>2 DEF SubscriptionInv, Plans!Cached
    <3>3. new \in Plans!Reader /\ new.v = newest /\ new.since = newest
      BY <3>2 DEF Plans!Told, Plans!Reader
    <3>. HIDE DEF new
    <3>4. QED
      BY <2>1, <3>1, <3>3 DEF SubscriptionInv
  <2>3. CASE ~Plans!Cached
    <3>. DEFINE new == [Plans!Quiet EXCEPT !.waits = TRUE, !.since = newest]
                own == [for |-> {r}, v |-> 0, prior |-> cached]
    <3>1. /\ reader' = [reader EXCEPT ![r] = new]
          /\ \/ reads # {} /\ reads' = {[q EXCEPT !.for = @ \cup {r}] : q \in reads}
             \/ reads = {} /\ reads' = {own}
      BY <1>5, <2>3 DEF Plans!GetSubscription
    <3>0. newest \in Nat
      BY DEF SubscriptionInv
    <3>2. Plans!Quiet \in Plans!Reader /\ Plans!Quiet.told = "nothing" /\ Plans!Quiet.v = 0
      BY DEF Plans!Quiet, Plans!Reader
    <3>6. new \in Plans!Reader /\ new.v = 0 /\ new.since = newest /\ new.told = "nothing"
      BY <3>0, <3>2 DEF Plans!Reader
    <3>. HIDE DEF new
    <3>3. /\ reader' \in [Readers -> Plans!Reader]
          /\ \A s \in Readers : /\ reader'[s].v <= plan /\ reader'[s].since <= newest
                                /\ reader'[s].told = "fresh" => reader'[s].v >= reader'[s].since
      BY <3>0, <3>1, <3>6 DEF SubscriptionInv
    <3>4. /\ reads' \subseteq Plans!SourceRead
          /\ \A q \in reads' : q.v <= plan /\ q.prior.v <= plan /\ (q.v # 0 => newest <= q.v)
          /\ \A p, q \in reads' : p = q
      <4>1. CASE reads # {} /\ reads' = {[q EXCEPT !.for = @ \cup {r}] : q \in reads}
        <5>0. PICK q \in reads : TRUE
          BY <4>1
        <5>1. reads = {q}
          BY DEF SubscriptionInv
        <5>. DEFINE p == [q EXCEPT !.for = @ \cup {r}]
        <5>2. reads' = {p}
          BY <4>1, <5>1
        <5>3. p \in Plans!SourceRead /\ p.v = q.v /\ p.prior = q.prior
          BY <5>1 DEF SubscriptionInv, Plans!SourceRead
        <5>. HIDE DEF p
        <5>4. QED
          BY <5>1, <5>2, <5>3 DEF SubscriptionInv
      <4>2. CASE reads' = {own}
        BY <4>2 DEF SubscriptionInv, Plans!SourceRead
      <4>3. QED
        BY <3>1, <4>1, <4>2
    <3>5. QED
      BY <2>1, <3>3, <3>4 DEF SubscriptionInv
  <2>4. QED
    BY <2>2, <2>3
<1>6. ASSUME NEW q \in reads, Plans!ReadSource(q) PROVE SubscriptionInv'
  <2>. DEFINE p == [q EXCEPT !.v = plan]
  <2>1. reads' = {p} /\ UNCHANGED <<plan, instant, cached, reader, newest>>
    BY <1>6 DEF Plans!ReadSource, SubscriptionInv
  <2>2. p \in Plans!SourceRead /\ p.v = plan /\ p.prior = q.prior
    BY DEF SubscriptionInv, Plans!SourceRead
  <2>. HIDE DEF p
  <2>3. QED
    BY <2>1, <2>2 DEF SubscriptionInv
<1>7. ASSUME NEW q \in reads, Plans!ReadSucceeds(q) PROVE SubscriptionInv'
  <2>. DEFINE row == [there |-> TRUE, v |-> q.v, expires |-> instant + TTL]
  <2>1. /\ q.v # 0 /\ cached' = row /\ Plans!Answered(q, "fresh", q.v)
        /\ newest' = IF q.v > newest THEN q.v ELSE newest
        /\ reads' = reads \ {q} /\ UNCHANGED <<plan, instant>>
    BY <1>7 DEF Plans!ReadSucceeds
  <2>2. q.v \in Nat /\ newest <= q.v /\ q.v <= plan /\ newest \in Nat
    BY <2>1 DEF SubscriptionInv, Plans!SourceRead
  <2>3. row \in Plans!Row /\ row.v = q.v
    BY <2>2 DEF Plans!Row, Plans!Stocked, SubscriptionInv
  <2>4. newest' = q.v /\ reads' = {}
    BY <2>1, <2>2 DEF SubscriptionInv
  <2>5. /\ reader' \in [Readers -> Plans!Reader]
        /\ \A r \in Readers : /\ reader'[r].v <= plan /\ reader'[r].since <= newest
                              /\ reader'[r].told = "fresh" => reader'[r].v >= reader'[r].since
    BY <2>1, <2>2, ReadersAnswered
  <2>6. \A r \in Readers : reader'[r].since <= q.v
    BY <2>2, <2>5 DEF Plans!Reader
  <2>. HIDE DEF row
  <2>7. QED
    BY <2>1, <2>2, <2>3, <2>4, <2>5, <2>6 DEF SubscriptionInv
<1>8. ASSUME NEW q \in reads, Plans!ReadFails(q) PROVE SubscriptionInv'
  <2>. DEFINE how == IF q.prior.there THEN "stale" ELSE "none"
  <2>1. /\ Plans!Answered(q, how, q.prior.v) /\ reads' = reads \ {q}
        /\ UNCHANGED <<plan, instant, cached, newest>>
    BY <1>8 DEF Plans!ReadFails
  <2>2. q.prior.v \in Nat /\ q.prior.v <= plan
    BY DEF SubscriptionInv, Plans!SourceRead, Plans!Row
  <2>3. /\ reader' \in [Readers -> Plans!Reader]
        /\ \A r \in Readers : /\ reader'[r].v <= plan /\ reader'[r].since <= newest
                              /\ reader'[r].told = "fresh" => reader'[r].v >= reader'[r].since
    BY <2>1, <2>2, ReadersAnswered
  <2>4. QED
    BY <2>1, <2>3 DEF SubscriptionInv
<1>9. CASE Plans!Request
  BY <1>1, <1>9 DEF Plans!Request
<1>10. ASSUME NEW i \in DOMAIN reqs,
              \/ Plans!Dispatch(i) \/ Plans!Mark(i) \/ Plans!FallbackToConversation(i)
              \/ Plans!ConversationFails(i) \/ Plans!Refer(i) \/ Plans!RequestDies(i)
       PROVE  SubscriptionInv'
  BY <1>1, <1>10 DEF Plans!Dispatch, Plans!Mark, Plans!FallbackToConversation, Plans!ConversationFails,
                     Plans!Refer, Plans!RequestDies
<1>11. ASSUME NEW e \in DOMAIN hooks,
              Plans!Run(e) \/ Plans!OnCapApproaching(e) \/ Plans!MarkProcessed(e) \/ Plans!RunFails(e)
       PROVE  SubscriptionInv'
  BY <1>1, <1>11 DEF Plans!Run, Plans!OnCapApproaching, Plans!MarkProcessed, Plans!RunFails
<1>12. CASE UNCHANGED Plans!vars
  BY <1>1, <1>12 DEF Plans!vars, Plans!subscription
<1>13. QED
  BY <1>2, <1>3, <1>4, <1>5, <1>6, <1>7, <1>8, <1>9, <1>10, <1>11, <1>12 DEF Plans!Next

\* A cap event: every alert that a run raised is audited, and a run that is done has raised one.
CapEvent(h) ==
  /\ h \in Plans!CapEvent
  /\ h.alerts <= h.runs /\ h.audited = h.alerts
  /\ h.pc = "running" => h.alerts < h.runs
  /\ h.pc \in {"raised", "processed"} => h.alerts > 0

\* So it is with every event.
CapInv == hooks = [e \in DOMAIN hooks |-> hooks[e]] /\ \A e \in DOMAIN hooks : CapEvent(hooks[e])

\* No run of an event raises without auditing.
LEMMA CapStep == CapInv /\ [Plans!Next]_(Plans!vars) => CapInv'
<1>. SUFFICES ASSUME CapInv, [Plans!Next]_(Plans!vars) PROVE CapInv'
  OBVIOUS
<1>1. ASSUME NEW e \in DOMAIN hooks, NEW h, hooks' = [hooks EXCEPT ![e] = h], CapEvent(h) PROVE CapInv'
  BY <1>1 DEF CapInv
<1>2. ASSUME UNCHANGED hooks PROVE CapInv'
  BY <1>2 DEF CapInv
<1>3. \A e \in DOMAIN hooks : CapEvent(hooks[e]) /\ hooks[e] \in Plans!CapEvent
  BY DEF CapInv, CapEvent
<1>4. ASSUME NEW e \in DOMAIN hooks, Plans!Run(e) PROVE CapInv'
  <2>. DEFINE n == hooks[e].runs + 1
              h == [hooks[e] EXCEPT !.pc = "running", !.runs = n]
  <2>0. hooks[e].runs \in Nat /\ hooks[e].alerts \in Nat /\ n \in Nat
    BY <1>3 DEF Plans!CapEvent
  <2>1. hooks' = [hooks EXCEPT ![e] = h]
    BY <1>4 DEF Plans!Run
  <2>2. /\ h \in Plans!CapEvent /\ h.pc = "running" /\ h.runs = n
        /\ h.alerts = hooks[e].alerts /\ h.audited = hooks[e].audited
    <3>. HIDE DEF n
    <3>1. QED
      BY <1>3, <2>0 DEF Plans!CapEvent
  <2>3. hooks[e].alerts <= hooks[e].runs /\ hooks[e].audited = hooks[e].alerts
    BY <1>3 DEF CapEvent
  <2>. HIDE DEF h
  <2>4. CapEvent(h)
    BY <2>0, <2>2, <2>3 DEF CapEvent
  <2>5. QED
    BY <1>1, <2>1, <2>4
<1>5. ASSUME NEW e \in DOMAIN hooks, Plans!OnCapApproaching(e) PROVE CapInv'
  <2>. DEFINE a == hooks[e].alerts + 1
              n == hooks[e].audited + 1
              h == [hooks[e] EXCEPT !.pc = "raised", !.alerts = a, !.audited = n]
  <2>0. hooks[e].runs \in Nat /\ hooks[e].alerts \in Nat /\ a \in Nat /\ n \in Nat
    BY <1>3 DEF Plans!CapEvent
  <2>1. hooks' = [hooks EXCEPT ![e] = h] /\ hooks[e].pc = "running"
    BY <1>5 DEF Plans!OnCapApproaching
  <2>2. /\ h \in Plans!CapEvent /\ h.pc = "raised" /\ h.runs = hooks[e].runs
        /\ h.alerts = a /\ h.audited = n
    <3>. HIDE DEF a, n
    <3>1. QED
      BY <1>3, <2>0 DEF Plans!CapEvent
  <2>3. hooks[e].alerts < hooks[e].runs /\ hooks[e].audited = hooks[e].alerts
    BY <1>3, <2>1 DEF CapEvent
  <2>. HIDE DEF h
  <2>4. CapEvent(h)
    BY <2>0, <2>2, <2>3 DEF CapEvent
  <2>5. QED
    BY <1>1, <2>1, <2>4
<1>6. ASSUME NEW e \in DOMAIN hooks, Plans!MarkProcessed(e) PROVE CapInv'
  <2>. DEFINE h == [hooks[e] EXCEPT !.pc = "processed"]
  <2>1. hooks' = [hooks EXCEPT ![e] = h] /\ hooks[e].pc = "raised"
    BY <1>6 DEF Plans!MarkProcessed
  <2>2. CapEvent(h)
    BY <1>3, <2>1 DEF CapEvent, Plans!CapEvent
  <2>3. QED
    BY <1>1, <2>1, <2>2
<1>7. ASSUME NEW e \in DOMAIN hooks, Plans!RunFails(e) PROVE CapInv'
  <2>. DEFINE h == [hooks[e] EXCEPT !.pc = "waiting"]
  <2>1. hooks' = [hooks EXCEPT ![e] = h]
    BY <1>7 DEF Plans!RunFails
  <2>2. CapEvent(h)
    BY <1>3 DEF CapEvent, Plans!CapEvent
  <2>3. QED
    BY <1>1, <2>1, <2>2
<1>8. CASE Plans!Request \/ Plans!ChangePlan \/ Plans!Tick \/ Plans!Restart
  BY <1>2, <1>8 DEF Plans!Request, Plans!ChangePlan, Plans!Tick, Plans!Restart
<1>9. ASSUME NEW i \in DOMAIN reqs,
             \/ Plans!Dispatch(i) \/ Plans!Mark(i) \/ Plans!FallbackToConversation(i)
             \/ Plans!ConversationFails(i) \/ Plans!Refer(i) \/ Plans!RequestDies(i)
       PROVE  CapInv'
  BY <1>2, <1>9 DEF Plans!Dispatch, Plans!Mark, Plans!FallbackToConversation, Plans!ConversationFails,
                    Plans!Refer, Plans!RequestDies
<1>10. ASSUME NEW r \in Readers, Plans!GetSubscription(r) PROVE CapInv'
  BY <1>2, <1>10 DEF Plans!GetSubscription
<1>11. ASSUME NEW q \in reads, Plans!ReadSource(q) \/ Plans!ReadSucceeds(q) \/ Plans!ReadFails(q) PROVE CapInv'
  BY <1>2, <1>11 DEF Plans!ReadSource, Plans!ReadSucceeds, Plans!ReadFails
<1>12. CASE UNCHANGED Plans!vars
  BY <1>2, <1>12 DEF Plans!vars
<1>13. QED
  BY <1>4, <1>5, <1>6, <1>7, <1>8, <1>9, <1>10, <1>11, <1>12 DEF Plans!Next

\* Whatever calls fail, a plan request's audit trail ends with its status, and a request that has
\* ended says what became of it unless an answer was lost; no reader is shown as current a subscription
\* older than one that was shown before it asked; and the alerts of a cap event are audited, one at
\* least when it is processed and no more than its runs (PlanChangeService,
\* BillingService.getSubscription, BillingMonitor.onCapApproaching).
THEOREM PlansSafety ==
  ASSUME Plans!Stocked
  PROVE  Plans!Spec => [](Plans!TypeOK /\ Plans!PlansAreKnown)
<1>. DEFINE Inv == Plans!TypeOK /\ RequestsInv /\ SubscriptionInv /\ CapInv
<1>1. Plans!Init => Inv
  <2>. SUFFICES ASSUME Plans!Init PROVE Inv
    OBVIOUS
  <2>1. Plans!TypeOK
    BY PlansTypeInit
  <2>2. RequestsInv
    BY <2>1 DEF RequestsInv, RequestsTyped, Plans!TypeOK, Plans!Init
  <2>3. SubscriptionInv
    BY <2>1 DEF SubscriptionInv, Plans!TypeOK, Plans!Init, Plans!NoRow, Plans!Quiet
  <2>4. CapInv
    BY DEF CapInv, CapEvent, Plans!CapEvent, Plans!Init
  <2>5. QED
    BY <2>1, <2>2, <2>3, <2>4
<1>3. Plans!TypeOK /\ [Plans!Next]_(Plans!vars) => orders' \in Plans!Stock
  <2>. SUFFICES ASSUME Plans!TypeOK, [Plans!Next]_(Plans!vars),
                       \A what \in {"requests", "changes", "reads", "ticks", "failures", "runs"} : ~Plans!Uses(what)
                PROVE  UNCHANGED orders
    BY PlansUses DEF Plans!TypeOK
  <2>1. ASSUME NEW i \in DOMAIN reqs,
               \/ Plans!Dispatch(i) \/ Plans!Mark(i) \/ Plans!FallbackToConversation(i)
               \/ Plans!ConversationFails(i) \/ Plans!Refer(i) \/ Plans!RequestDies(i)
        PROVE  UNCHANGED orders
    BY <2>1 DEF Plans!Dispatch, Plans!Mark, Plans!FallbackToConversation, Plans!ConversationFails,
                Plans!Refer, Plans!RequestDies
  <2>2. ASSUME NEW q \in reads, Plans!ReadSource(q) \/ Plans!ReadSucceeds(q) \/ Plans!ReadFails(q)
        PROVE  UNCHANGED orders
    BY <2>2 DEF Plans!ReadSource, Plans!ReadSucceeds, Plans!ReadFails
  <2>3. ASSUME NEW e \in DOMAIN hooks,
               Plans!Run(e) \/ Plans!OnCapApproaching(e) \/ Plans!MarkProcessed(e) \/ Plans!RunFails(e)
        PROVE  UNCHANGED orders
    BY <2>3 DEF Plans!Run, Plans!OnCapApproaching, Plans!MarkProcessed, Plans!RunFails
  <2>4. QED
    BY <2>1, <2>2, <2>3 DEF Plans!Next, Plans!vars, Plans!Request, Plans!ChangePlan, Plans!Tick, Plans!Restart,
                            Plans!GetSubscription
<1>4. Inv /\ [Plans!Next]_(Plans!vars) => Inv'
  <2>. SUFFICES ASSUME Inv, [Plans!Next]_(Plans!vars) PROVE Inv'
    OBVIOUS
  <2>1. RequestsInv' /\ SubscriptionInv' /\ CapInv' /\ orders' \in Plans!Stock
    BY <1>3, RequestsStep, SubscriptionStep, CapStep
  <2>2. Plans!TypeOK'
    BY <2>1 DEF RequestsInv, RequestsTyped, SubscriptionInv, CapInv, CapEvent, Plans!TypeOK
  <2>3. QED
    BY <2>1, <2>2
<1>5. Inv => Plans!PlansAreKnown
  BY DEF RequestsInv, RequestsTyped, Request, SubscriptionInv, CapInv, CapEvent, Plans!TypeOK, Plans!PlansAreKnown
<1>6. QED
  BY <1>1, <1>4, <1>5, PTL DEF Plans!Spec

\* Plan changes among the console's parts: what a request, the cached subscription or the log of a
\* capped-amount event shows is so, unless a call or an answer was lost (PlanChangeService, BillingService).
THEOREM PlansAreKnownHolds == ConsoleSpec => []PlansAreKnown
<1>1. [ConsoleNext]_allVars => part' = part
  BY DEF ConsoleNext, allVars, Moves
<1>2. ConsoleInit /\ part = "plans" => Plans!Init
  BY DEF ConsoleInit
<1>3. [ConsoleNext]_allVars /\ part = "plans" => [Plans!Next]_(Plans!vars)
  BY DEF ConsoleNext, allVars, Plans!vars, plans, Moves
<1>4. Plans!Spec => [](Plans!TypeOK /\ Plans!PlansAreKnown)
  BY PlansSafety, ConstantsAssumption DEF ConstantsAssumption
<1>5. part = "plans" /\ part' = part => (part = "plans")'
  OBVIOUS
<1>6. part # "plans" /\ part' = part => (part # "plans")'
  OBVIOUS
<1>7. (part # "plans" => PlansAreKnown) /\ (Plans!TypeOK /\ Plans!PlansAreKnown => PlansAreKnown)
  BY DEF PlansAreKnown
<1>8. part = "plans" \/ part # "plans"
  OBVIOUS
<1>9. QED
  BY <1>1, <1>2, <1>3, <1>4, <1>5, <1>6, <1>7, <1>8, PTL DEF ConsoleSpec, Plans!Spec

-----------------------------------------------------------------------------
(* Growth: types.                                                          *)

Lifecycle == [kind : {"UNINSTALL", "REINSTALL"}, at : Nat]
Snapshot == [band : Growth!Bands, at : Nat]
Hook == [shop : Merchants, now : Nat \ {0}, pc : {"read", "write"}]
Started == [pc : {"next"}, now : Nat \ {0}, todo : SUBSET Merchants, was : SUBSET Merchants, atRisk : Nat]
Underway ==
  [pc : {"next", "prior", "persist", "lookup", "reinstall"}, now : Nat \ {0}, todo : SUBSET Merchants, shop : Merchants,
   was : SUBSET Merchants, atRisk : Nat, prior : Growth!Bands \cup {"none"}, band : Growth!Bands]
Rolling == {Growth!Idle} \cup Started \cup Underway
Count == [at : Nat, got : BOOLEAN, active : Nat, ever : SUBSET Nat]

\* A rollup in progress, the shops it has yet to score, and those it may yet record as reinstalled.
Busy(j) == rolls[j].pc # "idle"
Unscored(j) == rolls[j].todo \cup {s \in Merchants : rolls[j].pc \in {"prior", "persist"} /\ s = rolls[j].shop}
Owed(j) == rolls[j].todo \cup {s \in Merchants : rolls[j].pc # "next" /\ s = rolls[j].shop}

GrowthTypes ==
  /\ active \subseteq Merchants /\ listed \subseteq Merchants /\ deliverable \subseteq Merchants
  /\ world \in Growth!Stock /\ scores \in [world.shops -> Signals]
  /\ events \in [Merchants -> Seq(Lifecycle)] /\ \A s \in Merchants : \A i \in DOMAIN events[s] : events[s][i].at <= day
  /\ snaps \in [Merchants -> Seq(Snapshot)] /\ \A s \in Merchants : \A i \in DOMAIN snaps[s] : snaps[s][i].at <= day
  /\ banded \in [Merchants -> Growth!Bands \cup {"none"}]
  /\ uninstalls \subseteq Hook
  /\ rolls \in [Jobs -> Rolling]
  /\ \A j \in Jobs : Busy(j) =>
       /\ rolls[j].pc # "next" => rolls[j].shop \notin rolls[j].todo
       /\ rolls[j].atRisk + Cardinality(Unscored(j)) <= Cardinality(Merchants)
  /\ gauges \in [at : Nat, churned : 0 .. Cardinality(Merchants), atRisk : 0 .. Cardinality(Merchants)]
  /\ kpis \in [at : Nat, active : SUBSET Nat, shown : Nat]
  /\ counting \subseteq Count
  /\ day \in Nat
  /\ mixed \in [raced : SUBSET Merchants, gone : SUBSET Merchants, overlapped : BOOLEAN]

\* The module counts as we do.
LEMMA SameCount == \A S : Growth!Cardinality(S) = Cardinality(S)
BY DEF Growth!Cardinality, Cardinality

\* The merchants are counted.
LEMMA Counted ==
  ASSUME Growth!Stocked
  PROVE  /\ IsFiniteSet(Merchants) /\ Cardinality(Merchants) \in Nat
         /\ \A t : t \subseteq Merchants => IsFiniteSet(t) /\ Cardinality(t) \in Nat /\ Cardinality(t) <= Cardinality(Merchants)
<1>1. IsFiniteSet(Merchants)
  BY DEF Growth!Stocked, Growth!IsFiniteSet, IsFiniteSet
<1>2. QED
  BY <1>1, FS_CardinalityType, FS_Subset

\* Nothing is recorded yet.
LEMMA GrowthTypeInit == Growth!Stocked /\ Growth!Init => GrowthTypes
<1>. SUFFICES ASSUME Growth!Stocked, Growth!Init PROVE GrowthTypes
  OBVIOUS
<1>1. world \in Growth!Stock /\ active = world.shops /\ listed = active /\ active \subseteq Merchants /\ deliverable = {}
  BY DEF Growth!Stocked, Growth!Init, Growth!Stock
<1>2. events \in [Merchants -> Seq(Lifecycle)] /\ \A s \in Merchants : events[s] = <<>>
  BY DEF Growth!Init
<1>3. snaps \in [Merchants -> Seq(Snapshot)] /\ \A s \in Merchants : snaps[s] = <<>>
  BY DEF Growth!Init
<1>4. rolls \in [Jobs -> Rolling] /\ \A j \in Jobs : ~Busy(j)
  BY DEF Growth!Init, Rolling, Busy, Growth!Idle
<1>5. gauges \in [at : Nat, churned : 0 .. Cardinality(Merchants), atRisk : 0 .. Cardinality(Merchants)]
  BY Counted DEF Growth!Init
<1>6. kpis \in [at : Nat, active : SUBSET Nat, shown : Nat]
  <2>1. PICK n : n = Cardinality(active)
    OBVIOUS
  <2>2. n \in Nat
    BY <1>1, <2>1, Counted
  <2>3. kpis = [at |-> 0, active |-> {n}, shown |-> n]
    BY <2>1, SameCount DEF Growth!Init
  <2>4. QED
    BY <2>2, <2>3
<1>7. scores \in [world.shops -> Signals] /\ banded \in [Merchants -> Growth!Bands \cup {"none"}]
  BY DEF Growth!Init
<1>8. mixed \in [raced : SUBSET Merchants, gone : SUBSET Merchants, overlapped : BOOLEAN]
  BY DEF Growth!Init
<1>9. uninstalls = {} /\ counting = {} /\ day = 0
  BY DEF Growth!Init
<1>10. QED
  BY <1>1, <1>2, <1>3, <1>4, <1>5, <1>6, <1>7, <1>8, <1>9 DEF GrowthTypes

\* A bound that is used up by one step is still a bound.
LEMMA GrowthUses ==
  ASSUME world \in Growth!Stock,
         \/ Growth!Uses("world") \/ Growth!Uses("deliveries") \/ Growth!Uses("rollups") \/ Growth!Uses("kpis")
         \/ Growth!Uses("failures")
  PROVE  world' \in Growth!Stock /\ world'.shops = world.shops
<1>1. world'.shops = world.shops
  BY DEF Growth!Stock, Growth!Uses
<1>2. world' \in Growth!Stock
  BY DEF Growth!Stock, Growth!Uses
<1>3. QED
  BY <1>1, <1>2

\* A set of natural numbers has a least one.
LEMMA LeastNatural == ASSUME NEW T, T \subseteq Nat, T # {} PROVE \E m \in T : \A k \in T : m <= k
<1>1. PICK m \in T : \A k \in T : <<k, m>> \notin OpToRel(<, Nat)
  BY NatLessThanWellFounded, WFMin
<1>2. \A k \in T : ~(k < m)
  BY <1>1 DEF OpToRel
<1>3. QED
  BY <1>2

\* A row is the newest.
LEMMA NewestIs ==
  ASSUME NEW rows1, NEW none, NEW n \in Nat, NEW S, rows1 \in Seq(S),
         \A i \in DOMAIN rows1 : rows1[i].at \in Nat /\ rows1[i].at <= n
  PROVE  /\ rows1 = <<>> => Growth!Newest(rows1, none) = none
         /\ rows1 # <<>> => \E i \in DOMAIN rows1 : /\ Growth!Newest(rows1, none) = rows1[i]
                                                  /\ \A j \in DOMAIN rows1 : rows1[j].at <= rows1[i].at
<1>1. CASE rows1 # <<>>
  <2>1. DOMAIN rows1 # {}
    BY <1>1, LenProperties, EmptySeq
  <2>2. PICK T : T = {n - rows1[i].at : i \in DOMAIN rows1}
    OBVIOUS
  <2>3. T \subseteq Nat /\ T # {}
    BY <2>1, <2>2
  <2>4. PICK m \in T : \A k \in T : m <= k
    BY <2>3, LeastNatural
  <2>5. PICK i \in DOMAIN rows1 : m = n - rows1[i].at
    BY <2>2
  <2>6. \A j \in DOMAIN rows1 : rows1[j].at <= rows1[i].at
    <3>1. \A j \in DOMAIN rows1 : n - rows1[i].at <= n - rows1[j].at
      BY <2>2, <2>4, <2>5
    <3>2. QED
      BY <3>1
  <2>7. QED
    BY <1>1, <2>6 DEF Growth!Newest
<1>2. CASE rows1 = <<>>
  BY <1>2 DEF Growth!Newest
<1>3. QED
  BY <1>1, <1>2

\* Rows that were appended in the order of their times.
Ordered(rows1) == \A i, j \in DOMAIN rows1 : i < j => rows1[i].at < rows1[j].at

\* Then the newest is the last ...
LEMMA NewestIsLast ==
  ASSUME NEW rows1, NEW none, NEW n \in Nat, NEW S, rows1 \in Seq(S), rows1 # <<>>, Ordered(rows1),
         \A i \in DOMAIN rows1 : rows1[i].at \in Nat /\ rows1[i].at <= n
  PROVE  /\ Len(rows1) \in DOMAIN rows1 /\ Growth!Newest(rows1, none) = rows1[Len(rows1)]
         /\ \A i \in DOMAIN rows1 : rows1[i].at <= rows1[Len(rows1)].at
<1>1. DOMAIN rows1 = 1 .. Len(rows1) /\ Len(rows1) \in Nat /\ Len(rows1) # 0
  BY LenProperties, EmptySeq
<1>2. PICK i \in DOMAIN rows1 : /\ Growth!Newest(rows1, none) = rows1[i]
                               /\ \A j \in DOMAIN rows1 : rows1[j].at <= rows1[i].at
  BY NewestIs
<1>3. PICK l : l = Len(rows1)
  OBVIOUS
<1>4. l \in DOMAIN rows1
  BY <1>1, <1>3
<1>5. i = l
  <2>1. ~(i < l)
    <3>1. rows1[l].at <= rows1[i].at /\ rows1[l].at \in Nat /\ rows1[i].at \in Nat
      BY <1>2, <1>4
    <3>2. i < l => rows1[i].at < rows1[l].at
      BY <1>2, <1>4 DEF Ordered
    <3>3. QED
      BY <3>1, <3>2
  <2>2. i <= l /\ i \in Nat /\ l \in Nat
    BY <1>1, <1>2, <1>3
  <2>3. QED
    BY <2>1, <2>2
<1>6. QED
  BY <1>2, <1>3, <1>4, <1>5

\* ... and an appended one with a later time is the newest.
LEMMA Appended ==
  ASSUME NEW S, NEW rows1 \in Seq(S), NEW r \in S, NEW none, NEW n \in Nat, Ordered(rows1),
         \A i \in DOMAIN rows1 : rows1[i].at \in Nat /\ rows1[i].at < r.at,
         r.at \in Nat, r.at <= n
  PROVE  /\ Ordered(Append(rows1, r)) /\ Growth!Newest(Append(rows1, r), none) = r
<1>1. PICK more, l : more = Append(rows1, r) /\ l = Len(rows1) + 1
  OBVIOUS
<1>2. /\ more \in Seq(S) /\ Len(more) = l /\ DOMAIN rows1 = 1 .. Len(rows1) /\ Len(rows1) \in Nat
      /\ DOMAIN more = 1 .. l /\ \A i \in DOMAIN rows1 : more[i] = rows1[i]
      /\ more[l] = r
  <2>1. more \in Seq(S) /\ Len(more) = l /\ \A i \in 1 .. Len(rows1) : more[i] = rows1[i]
    BY <1>1, AppendProperties
  <2>2. more[l] = r
    BY <1>1, AppendProperties
  <2>3. QED
    BY <2>1, <2>2, LenProperties
<1>3. DOMAIN more = DOMAIN rows1 \cup {l} /\ \A i \in DOMAIN rows1 : i < l
  BY <1>1, <1>2
<1>4. Ordered(more)
  <2>1. SUFFICES ASSUME NEW i \in DOMAIN more, NEW j \in DOMAIN more, i < j PROVE more[i].at < more[j].at
    BY DEF Ordered
  <2>2. i # l
    BY <1>1, <1>2, <2>1
  <2>3. i \in DOMAIN rows1
    BY <1>3, <2>2
  <2>4. CASE j = l
    BY <1>2, <2>3, <2>4
  <2>5. CASE j \in DOMAIN rows1
    BY <1>2, <2>1, <2>3, <2>5 DEF Ordered
  <2>6. QED
    BY <1>3, <2>4, <2>5
<1>5. \A i \in DOMAIN more : more[i].at \in Nat /\ more[i].at <= n
  <2>1. SUFFICES ASSUME NEW i \in DOMAIN more PROVE more[i].at \in Nat /\ more[i].at <= n
    OBVIOUS
  <2>2. CASE i = l
    BY <1>2, <2>2
  <2>3. CASE i \in DOMAIN rows1
    <3>1. more[i] = rows1[i] /\ rows1[i].at \in Nat /\ rows1[i].at < r.at
      BY <1>2, <2>3
    <3>2. QED
      BY <3>1
  <2>4. QED
    BY <1>3, <2>2, <2>3
<1>6. more # <<>>
  <2>1. Len(more) # 0
    BY <1>1, <1>2
  <2>2. QED
    BY <2>1
<1>7. Growth!Newest(more, none) = more[Len(more)]
  BY <1>2, <1>4, <1>5, <1>6, NewestIsLast
<1>8. QED
  BY <1>1, <1>2, <1>4, <1>7

\* One rollup goes on; the others stay.
Turns(j, r) == rolls' \in [Jobs -> Rolling] /\ rolls'[j] = r /\ \A i \in Jobs : i # j => rolls'[i] = rolls[i]

\* An update of one entry is a turn of that rollup.
LEMMA TurnsIs ==
  ASSUME rolls \in [Jobs -> Rolling], NEW j \in Jobs, NEW r \in Rolling, rolls' = [rolls EXCEPT ![j] = r]
  PROVE  Turns(j, r)
BY DEF Turns

\* A rollup in progress is a record with a time.
LEMMA BusyTyped ==
  ASSUME GrowthTypes, NEW j \in Jobs, Busy(j)
  PROVE  /\ rolls[j].now \in Nat \ {0} /\ rolls[j].todo \subseteq Merchants /\ rolls[j].atRisk \in Nat
         /\ rolls[j].was \subseteq Merchants
         /\ rolls[j].pc \in {"next", "prior", "persist", "lookup", "reinstall"}
         /\ rolls[j].pc # "next" => rolls[j] \in Underway
<1>1. rolls[j] \in Rolling /\ rolls[j].pc # "idle"
  BY DEF GrowthTypes, Busy
<1>2. rolls[j] \in Started \/ rolls[j] \in Underway
  BY <1>1 DEF Rolling, Growth!Idle
<1>3. QED
  BY <1>2 DEF Started, Underway

\* It starts with all shops and a moment of its own.
LEMMA StartedTyped ==
  ASSUME GrowthTypes, NEW j \in Jobs, Growth!RunRollup(j)
  PROVE  \E r \in Rolling : /\ Turns(j, r) /\ r.pc = "next" /\ r.now = day + 1 /\ r.todo = world.shops /\ r.atRisk = 0
<1>1. PICK r : r = [pc |-> "next", now |-> day + 1, todo |-> world.shops, was |-> listed, atRisk |-> 0]
  OBVIOUS
<1>2. day + 1 \in Nat \ {0} /\ world.shops \subseteq Merchants /\ listed \subseteq Merchants
  BY DEF GrowthTypes, Growth!Stock
<1>3. r \in Rolling /\ r.pc = "next" /\ r.now = day + 1 /\ r.todo = world.shops /\ r.atRisk = 0
  BY <1>1, <1>2 DEF Rolling, Started
<1>4. rolls' = [rolls EXCEPT ![j] = r]
  BY <1>1 DEF Growth!RunRollup, Growth!Now
<1>5. Turns(j, r)
  BY <1>3, <1>4, TurnsIs DEF GrowthTypes
<1>6. QED
  BY <1>3, <1>5

\* It takes up a shop.
LEMMA GatheredTyped ==
  ASSUME GrowthTypes, NEW j \in Jobs, Growth!GatherSignals(j)
  PROVE  /\ rolls[j].pc = "next"
         /\ \E s \in rolls[j].todo, r \in Rolling :
              /\ Turns(j, r) /\ r.pc = "prior" /\ r.now = rolls[j].now /\ r.todo = rolls[j].todo \ {s} /\ r.shop = s
              /\ r.atRisk = rolls[j].atRisk
<1>1. rolls[j].pc = "next"
  BY DEF Growth!GatherSignals
<1>2. /\ rolls[j].now \in Nat \ {0} /\ rolls[j].todo \subseteq Merchants /\ rolls[j].atRisk \in Nat
      /\ rolls[j].was \subseteq Merchants
  BY <1>1, BusyTyped DEF Busy
<1>3. PICK s \in rolls[j].todo, b \in Growth!Bands :
        rolls' = [rolls EXCEPT ![j] = [pc |-> "prior", now |-> rolls[j].now, todo |-> rolls[j].todo \ {s}, shop |-> s,
                   was |-> rolls[j].was, atRisk |-> rolls[j].atRisk, prior |-> "none", band |-> b]]
  BY DEF Growth!GatherSignals, Growth!ScoreHealth, Growth!Bands
<1>4. PICK r : r = [pc |-> "prior", now |-> rolls[j].now, todo |-> rolls[j].todo \ {s}, shop |-> s,
                    was |-> rolls[j].was, atRisk |-> rolls[j].atRisk, prior |-> "none", band |-> b]
  OBVIOUS
<1>5. /\ r \in Rolling /\ r.pc = "prior" /\ r.now = rolls[j].now /\ r.todo = rolls[j].todo \ {s} /\ r.shop = s
      /\ r.atRisk = rolls[j].atRisk
  BY <1>2, <1>4 DEF Rolling, Underway
<1>6. Turns(j, r)
  BY <1>3, <1>4, <1>5, TurnsIs DEF GrowthTypes
<1>7. QED
  BY <1>1, <1>5, <1>6

\* It goes on with a shop.
LEMMA UnderwayTyped ==
  ASSUME GrowthTypes, NEW j \in Jobs,
         \/ Growth!FindPrior(j) \/ Growth!Persist(j) \/ Growth!FindChurned(j) \/ Growth!RecordReinstall(j)
  PROVE  /\ rolls[j] \in Underway
         /\ \E r \in Underway :
              /\ Turns(j, r) /\ r.now = rolls[j].now /\ r.todo = rolls[j].todo /\ r.shop = rolls[j].shop
              /\ r.band = rolls[j].band
              /\ r.atRisk = rolls[j].atRisk
                   + (IF Growth!Persist(j) /\ rolls[j].band # "HEALTHY" THEN 1 ELSE 0)
              /\ Growth!FindPrior(j) => /\ rolls[j].pc = "prior" /\ r.pc = "persist"
                                        /\ r.prior = Growth!Newest(snaps[rolls[j].shop], [band |-> "none", at |-> 0]).band
              /\ Growth!Persist(j) => rolls[j].pc = "persist" /\ r.pc = "lookup"
              /\ Growth!FindChurned(j) => rolls[j].pc = "lookup" /\ r.pc \in {"reinstall", "next"}
              /\ Growth!RecordReinstall(j) => rolls[j].pc = "reinstall" /\ r.pc = "next"
<1>1. rolls[j] \in Underway
  <2>1. rolls[j].pc \in {"prior", "persist", "lookup", "reinstall"}
    BY DEF Growth!FindPrior, Growth!Persist, Growth!FindChurned, Growth!RecordReinstall
  <2>2. QED
    BY <2>1, BusyTyped DEF Busy
<1>2. \A r \in Underway : r \in Rolling
  BY DEF Rolling
<1>3. PICK q : q = rolls[j]
  OBVIOUS
<1>4. CASE Growth!FindPrior(j)
  <2>1. PICK b : b = Growth!Newest(snaps[q.shop], [band |-> "none", at |-> 0]).band
    OBVIOUS
  <2>2. q.shop \in Merchants /\ q \in Underway /\ q.pc = "prior"
    BY <1>1, <1>3, <1>4 DEF Underway, Growth!FindPrior
  <2>3. b \in Growth!Bands \cup {"none"}
    <3>1. PICK rows1 : rows1 = snaps[q.shop]
      OBVIOUS
    <3>2. rows1 \in Seq(Snapshot) /\ \A i \in DOMAIN rows1 : rows1[i] \in Snapshot /\ rows1[i].at <= day
      <4>1. rows1 \in Seq(Snapshot) /\ \A i \in DOMAIN rows1 : rows1[i].at <= day
        BY <2>2, <3>1 DEF GrowthTypes
      <4>2. QED
        BY <4>1, ElementOfSeq, LenProperties
    <3>3. \A i \in DOMAIN rows1 : rows1[i].at \in Nat /\ rows1[i].at <= day
      BY <3>2 DEF Snapshot
    <3>4. PICK none, n : none = [band |-> "none", at |-> 0] /\ n = day
      OBVIOUS
    <3>5. none.band = "none" /\ n \in Nat
      BY <3>4 DEF GrowthTypes
    <3>6. Growth!Newest(rows1, none) \in Snapshot \/ Growth!Newest(rows1, none) = none
      BY <3>2, <3>3, <3>4, <3>5, NewestIs
    <3>7. QED
      BY <2>1, <3>1, <3>4, <3>5, <3>6 DEF Snapshot
  <2>4. PICK r : r = [q EXCEPT !.pc = "persist", !.prior = b]
    OBVIOUS
  <2>5. /\ r \in Underway /\ r.now = q.now /\ r.todo = q.todo /\ r.shop = q.shop /\ r.band = q.band /\ r.atRisk = q.atRisk
        /\ r.pc = "persist" /\ r.prior = b
    BY <2>2, <2>3, <2>4 DEF Underway
  <2>6. rolls' = [rolls EXCEPT ![j] = r]
    BY <1>3, <1>4, <2>1, <2>4 DEF Growth!FindPrior
  <2>7. Turns(j, r)
    BY <1>2, <2>5, <2>6, TurnsIs DEF GrowthTypes
  <2>8. ~Growth!Persist(j) /\ ~Growth!FindChurned(j) /\ ~Growth!RecordReinstall(j)
    BY <1>3, <2>2 DEF Growth!Persist, Growth!FindChurned, Growth!RecordReinstall
  <2>9. r.atRisk = q.atRisk + 0
    BY <2>2, <2>5 DEF Underway
  <2>10. QED
    BY <1>1, <1>3, <2>1, <2>2, <2>5, <2>7, <2>8, <2>9
<1>5. CASE Growth!Persist(j)
  <2>1. PICK n : n = q.atRisk + (IF q.band # "HEALTHY" THEN 1 ELSE 0)
    OBVIOUS
  <2>2. q \in Underway /\ q.pc = "persist" /\ q.atRisk \in Nat
    BY <1>1, <1>3, <1>5 DEF Underway, Growth!Persist
  <2>3. n \in Nat /\ n = IF q.band = "HEALTHY" THEN q.atRisk ELSE q.atRisk + 1
    BY <2>1, <2>2
  <2>4. PICK r : r = [q EXCEPT !.pc = "lookup", !.atRisk = n]
    OBVIOUS
  <2>5. /\ r \in Underway /\ r.now = q.now /\ r.todo = q.todo /\ r.shop = q.shop /\ r.band = q.band /\ r.atRisk = n
        /\ r.pc = "lookup"
    BY <2>2, <2>3, <2>4 DEF Underway
  <2>6. rolls' = [rolls EXCEPT ![j] = r]
    BY <1>3, <1>5, <2>3, <2>4 DEF Growth!Persist
  <2>7. Turns(j, r)
    BY <1>2, <2>5, <2>6, TurnsIs DEF GrowthTypes
  <2>8. ~Growth!FindPrior(j) /\ ~Growth!FindChurned(j) /\ ~Growth!RecordReinstall(j)
    BY <1>3, <2>2 DEF Growth!FindPrior, Growth!FindChurned, Growth!RecordReinstall
  <2>10. QED
    BY <1>1, <1>3, <1>5, <2>1, <2>2, <2>5, <2>7, <2>8
<1>6. CASE Growth!FindChurned(j) \/ Growth!RecordReinstall(j)
  <2>1. q \in Underway /\ q.pc \in {"lookup", "reinstall"} /\ q.atRisk \in Nat
    BY <1>1, <1>3, <1>6 DEF Underway, Growth!FindChurned, Growth!RecordReinstall
  <2>2. PICK p \in {"reinstall", "next"} :
          /\ rolls' = [rolls EXCEPT ![j] = [q EXCEPT !.pc = p]]
          /\ Growth!RecordReinstall(j) => p = "next" /\ q.pc = "reinstall"
          /\ Growth!FindChurned(j) => q.pc = "lookup"
    <3>1. CASE Growth!FindChurned(j)
      BY <1>3, <3>1 DEF Growth!FindChurned, Growth!RecordReinstall
    <3>2. CASE Growth!RecordReinstall(j)
      BY <1>3, <3>2 DEF Growth!FindChurned, Growth!RecordReinstall
    <3>3. QED
      BY <1>6, <3>1, <3>2
  <2>3. PICK r : r = [q EXCEPT !.pc = p]
    OBVIOUS
  <2>4. /\ r \in Underway /\ r.now = q.now /\ r.todo = q.todo /\ r.shop = q.shop /\ r.band = q.band /\ r.atRisk = q.atRisk
        /\ r.pc = p
    BY <2>1, <2>3 DEF Underway
  <2>5. rolls' = [rolls EXCEPT ![j] = r]
    BY <2>2, <2>3
  <2>7. Turns(j, r)
    BY <1>2, <2>4, <2>5, TurnsIs DEF GrowthTypes
  <2>8. ~Growth!FindPrior(j) /\ ~Growth!Persist(j)
    BY <1>3, <2>1 DEF Growth!FindPrior, Growth!Persist
  <2>9. r.atRisk = q.atRisk + 0
    BY <2>1, <2>4
  <2>10. QED
    BY <1>1, <1>3, <2>1, <2>2, <2>4, <2>7, <2>8, <2>9
<1>7. QED
  BY <1>4, <1>5, <1>6

\* It ends, or fails.
LEMMA EndedTyped ==
  ASSUME GrowthTypes, NEW j \in Jobs, Growth!AppendGauges(j) \/ Growth!RollupFails(j)
  PROVE  rolls' \in [Jobs -> Rolling] /\ rolls'[j].pc = "idle" /\ \A i \in Jobs : i # j => rolls'[i] = rolls[i]
<1>1. Growth!Idle \in Rolling /\ Growth!Idle.pc = "idle"
  BY DEF Rolling, Growth!Idle
<1>2. rolls' = [rolls EXCEPT ![j] = Growth!Idle]
  BY DEF Growth!AppendGauges, Growth!RollupFails
<1>3. QED
  BY <1>1, <1>2 DEF GrowthTypes

\* Who changes what.
LEMMA GrowthMoves ==
  ASSUME GrowthTypes, [Growth!Next]_(Growth!vars)
  PROVE  /\ \/ events' = events
            \/ \E h \in uninstalls : Growth!RecordUninstall(h)
            \/ \E j \in Jobs : Growth!RecordReinstall(j)
         /\ \/ snaps' = snaps /\ banded' = banded
            \/ \E j \in Jobs : Growth!Persist(j)
         /\ gauges' = gauges \/ \E j \in Jobs : Growth!AppendGauges(j)
         /\ \/ uninstalls' \subseteq uninstalls
            \/ \E s \in world.shops : Growth!Deliver(s)
            \/ \E h \in uninstalls : Growth!FindLatest(h)
         /\ \/ rolls' = rolls
            \/ \E j \in Jobs : \/ Growth!RunRollup(j) \/ Growth!GatherSignals(j) \/ Growth!FindPrior(j) \/ Growth!Persist(j)
                               \/ Growth!FindChurned(j) \/ Growth!RecordReinstall(j) \/ Growth!AppendGauges(j)
                               \/ Growth!RollupFails(j)
         /\ \/ mixed' = mixed
            \/ \E h \in uninstalls : Growth!FindLatest(h)
            \/ \E j \in Jobs : Growth!RunRollup(j) \/ Growth!FindChurned(j) \/ Growth!RecordReinstall(j)
         /\ day' \in {day, day + 1}
<1>1. CASE UNCHANGED Growth!vars
  BY <1>1 DEF Growth!vars
<1>2. CASE Growth!Next
  <2>1. CASE \E s \in world.shops : Growth!Uninstall(s) \/ Growth!Reinstall(s) \/ Growth!SignalsChange(s)
    BY <2>1 DEF Growth!Uninstall, Growth!Reinstall, Growth!SignalsChange, Growth!scores
  <2>2. CASE \E s \in world.shops : Growth!Deliver(s)
    BY <2>2 DEF Growth!Deliver, Growth!scores, Growth!Now
  <2>3. CASE Growth!Sync \/ Growth!KpiRollup
    BY <2>3 DEF Growth!Sync, Growth!KpiRollup, Growth!scores, Growth!Counts, Growth!Now
  <2>4. CASE \E h \in uninstalls : Growth!FindLatest(h)
    BY <2>4 DEF Growth!FindLatest, Growth!scores
  <2>5. CASE \E h \in uninstalls : Growth!RecordUninstall(h)
    BY <2>5 DEF Growth!RecordUninstall, Growth!scores, Growth!Counts, Growth!Now
  <2>6. CASE \E h \in uninstalls : Growth!HandlerDies(h)
    BY <2>6 DEF Growth!HandlerDies, Growth!scores
  <2>7. CASE \E j \in Jobs : Growth!RunRollup(j) \/ Growth!GatherSignals(j) \/ Growth!FindPrior(j)
    BY <2>7 DEF Growth!RunRollup, Growth!GatherSignals, Growth!FindPrior, Growth!scores, Growth!Now
  <2>8. CASE \E j \in Jobs : Growth!Persist(j) \/ Growth!FindChurned(j)
    BY <2>8 DEF Growth!Persist, Growth!FindChurned, Growth!scores
  <2>9. CASE \E j \in Jobs : Growth!RecordReinstall(j) \/ Growth!AppendGauges(j) \/ Growth!RollupFails(j)
    BY <2>9 DEF Growth!RecordReinstall, Growth!AppendGauges, Growth!RollupFails, Growth!scores
  <2>10. CASE \E c \in counting : Growth!ComputeKpis(c) \/ Growth!AppendKpis(c) \/ Growth!KpiFails(c)
    BY <2>10 DEF Growth!ComputeKpis, Growth!AppendKpis, Growth!KpiFails, Growth!scores
  <2>11. QED
    BY <1>2, <2>1, <2>2, <2>3, <2>4, <2>5, <2>6, <2>7, <2>8, <2>9, <2>10 DEF Growth!Next
<1>3. QED
  BY <1>1, <1>2

\* An event is recorded.
LEMMA RecordedTyped ==
  ASSUME GrowthTypes, NEW t \in Merchants, NEW e \in Lifecycle,
         events' = [events EXCEPT ![t] = Append(events[t], e)]
  PROVE  /\ events' \in [Merchants -> Seq(Lifecycle)] /\ events'[t] = Append(events[t], e)
         /\ \A s \in Merchants : s # t => events'[s] = events[s]
         /\ \A s \in Merchants : \A i \in DOMAIN events'[s] :
              (i \in DOMAIN events[s] /\ events'[s][i] = events[s][i]) \/ (s = t /\ events'[s][i] = e)
<1>1. events[t] \in Seq(Lifecycle)
  BY DEF GrowthTypes
<1>2. PICK rows1 : rows1 = Append(events[t], e)
  OBVIOUS
<1>3. rows1 \in Seq(Lifecycle) /\ \A i \in DOMAIN rows1 : (i \in DOMAIN events[t] /\ rows1[i] = events[t][i]) \/ rows1[i] = e
  <2>1. /\ rows1 \in Seq(Lifecycle) /\ Len(rows1) = Len(events[t]) + 1 /\ \A i \in 1 .. Len(events[t]) : rows1[i] = events[t][i]
        /\ rows1[Len(events[t]) + 1] = e
    BY <1>1, <1>2, AppendProperties
  <2>2. DOMAIN rows1 = 1 .. Len(events[t]) + 1 /\ DOMAIN events[t] = 1 .. Len(events[t]) /\ Len(events[t]) \in Nat
    BY <1>1, <2>1, LenProperties
  <2>3. QED
    BY <2>1, <2>2
<1>4. events' \in [Merchants -> Seq(Lifecycle)] /\ events'[t] = rows1 /\ \A s \in Merchants : s # t => events'[s] = events[s]
  BY <1>2, <1>3 DEF GrowthTypes
<1>5. QED
  BY <1>2, <1>3, <1>4

\* What the handler records.
LEMMA UninstalledTyped ==
  ASSUME GrowthTypes, NEW h \in uninstalls, Growth!RecordUninstall(h)
  PROVE  \E e \in Lifecycle : /\ e.kind = "UNINSTALL" /\ e.at = h.now /\ h.shop \in Merchants
                              /\ events' = [events EXCEPT ![h.shop] = Append(events[h.shop], e)]
                              /\ h.pc = "write" /\ uninstalls' = uninstalls \ {h}
<1>1. h.shop \in Merchants /\ h.now \in Nat
  BY DEF GrowthTypes, Hook
<1>2. PICK e : e = [kind |-> "UNINSTALL", at |-> h.now]
  OBVIOUS
<1>3. e \in Lifecycle /\ e.kind = "UNINSTALL" /\ e.at = h.now
  BY <1>1, <1>2 DEF Lifecycle
<1>4. QED
  BY <1>1, <1>2, <1>3 DEF Growth!RecordUninstall

\* What a rollup records of a shop that is back.
LEMMA ReinstalledTyped ==
  ASSUME GrowthTypes, NEW j \in Jobs, Growth!RecordReinstall(j)
  PROVE  \E e \in Lifecycle : /\ e.kind = "REINSTALL" /\ e.at = rolls[j].now /\ rolls[j].shop \in Merchants
                              /\ events' = [events EXCEPT ![rolls[j].shop] = Append(events[rolls[j].shop], e)]
                              /\ rolls[j].pc = "reinstall" /\ UNCHANGED uninstalls
<1>1. rolls[j].shop \in Merchants /\ rolls[j].now \in Nat
  <2>1. rolls[j] \in Underway
    BY UnderwayTyped
  <2>2. QED
    BY <2>1 DEF Underway
<1>2. PICK e : e = [kind |-> "REINSTALL", at |-> rolls[j].now]
  OBVIOUS
<1>3. e \in Lifecycle /\ e.kind = "REINSTALL" /\ e.at = rolls[j].now
  BY <1>1, <1>2 DEF Lifecycle
<1>4. QED
  BY <1>1, <1>2, <1>3 DEF Growth!RecordReinstall

\* A snapshot is stored, and the audit row if the band is another ...
KeepsScore(j, s, e) ==
  /\ s = rolls[j].shop /\ e.band = rolls[j].band /\ e.at = rolls[j].now
  /\ snaps' \in [Merchants -> Seq(Snapshot)] /\ snaps'[s] = Append(snaps[s], e)
  /\ \A t \in Merchants : t # s => snaps'[t] = snaps[t] /\ banded'[t] = banded[t]
  /\ \A i \in DOMAIN snaps'[s] : (i \in DOMAIN snaps[s] /\ snaps'[s][i] = snaps[s][i]) \/ snaps'[s][i] = e
  /\ \A i \in DOMAIN snaps[s] : i \in DOMAIN snaps'[s] /\ snaps'[s][i] = snaps[s][i]
  /\ \E i \in DOMAIN snaps'[s] : snaps'[s][i] = e
  /\ banded' \in [Merchants -> Growth!Bands \cup {"none"}]
  /\ banded'[s] = IF rolls[j].prior # e.band THEN e.band ELSE banded[s]

\* ... by a rollup that has come to it.
LEMMA PersistedTyped ==
  ASSUME GrowthTypes, NEW j \in Jobs, Growth!Persist(j)
  PROVE  \E e \in Snapshot, s \in Merchants : KeepsScore(j, s, e)
<1>1. PICK q : q = rolls[j]
  OBVIOUS
<1>2. q \in Underway /\ q.shop \in Merchants /\ q.band \in Growth!Bands /\ q.now \in Nat
  <2>1. q \in Underway
    BY <1>1, UnderwayTyped
  <2>2. QED
    BY <2>1 DEF Underway
<1>3. PICK e, s : e = [band |-> q.band, at |-> q.now] /\ s = q.shop
  OBVIOUS
<1>4. e \in Snapshot /\ e.band = q.band /\ e.at = q.now /\ s \in Merchants
  BY <1>2, <1>3 DEF Snapshot
<1>5. snaps' = [snaps EXCEPT ![s] = Append(snaps[s], e)]
  BY <1>1, <1>3 DEF Growth!Persist
<1>6. banded' = IF q.prior # e.band THEN [banded EXCEPT ![s] = e.band] ELSE banded
  BY <1>1, <1>3, <1>4 DEF Growth!Persist
<1>7. PICK rows1, old : old = snaps[s] /\ rows1 = Append(old, e)
  OBVIOUS
<1>8. /\ rows1 \in Seq(Snapshot) /\ \A i \in DOMAIN rows1 : (i \in DOMAIN old /\ rows1[i] = old[i]) \/ rows1[i] = e
      /\ \A i \in DOMAIN old : i \in DOMAIN rows1 /\ rows1[i] = old[i]
      /\ \E i \in DOMAIN rows1 : rows1[i] = e
  <2>1. old \in Seq(Snapshot)
    BY <1>4, <1>7 DEF GrowthTypes
  <2>2. /\ rows1 \in Seq(Snapshot) /\ Len(rows1) = Len(old) + 1 /\ \A i \in 1 .. Len(old) : rows1[i] = old[i]
        /\ rows1[Len(old) + 1] = e
    BY <1>4, <1>7, <2>1, AppendProperties
  <2>3. DOMAIN rows1 = 1 .. Len(old) + 1 /\ DOMAIN old = 1 .. Len(old) /\ Len(old) \in Nat
    BY <2>1, <2>2, LenProperties
  <2>4. QED
    BY <2>2, <2>3
<1>9. /\ snaps' \in [Merchants -> Seq(Snapshot)] /\ snaps'[s] = rows1
      /\ \A t \in Merchants : t # s => snaps'[t] = snaps[t]
  BY <1>4, <1>5, <1>7, <1>8 DEF GrowthTypes
<1>10. /\ banded' \in [Merchants -> Growth!Bands \cup {"none"}] /\ banded'[s] = IF q.prior # e.band THEN e.band ELSE banded[s]
       /\ \A t \in Merchants : t # s => banded'[t] = banded[t]
  BY <1>2, <1>4, <1>6 DEF GrowthTypes
<1>11. /\ s = rolls[j].shop /\ e.band = rolls[j].band /\ e.at = rolls[j].now
       /\ snaps' \in [Merchants -> Seq(Snapshot)] /\ snaps'[s] = Append(snaps[s], e)
       /\ \A t \in Merchants : t # s => snaps'[t] = snaps[t] /\ banded'[t] = banded[t]
  BY <1>1, <1>3, <1>4, <1>7, <1>9, <1>10
<1>12. /\ \A i \in DOMAIN snaps'[s] : (i \in DOMAIN snaps[s] /\ snaps'[s][i] = snaps[s][i]) \/ snaps'[s][i] = e
       /\ \A i \in DOMAIN snaps[s] : i \in DOMAIN snaps'[s] /\ snaps'[s][i] = snaps[s][i]
       /\ \E i \in DOMAIN snaps'[s] : snaps'[s][i] = e
  BY <1>7, <1>8, <1>9
<1>13. /\ banded' \in [Merchants -> Growth!Bands \cup {"none"}]
       /\ banded'[s] = IF rolls[j].prior # e.band THEN e.band ELSE banded[s]
  BY <1>1, <1>10
<1>14. QED
  BY <1>4, <1>11, <1>12, <1>13 DEF KeepsScore

\* How a rollup goes on: from one shop to the next, and with one shop by turns.
LEMMA RollGoes ==
  ASSUME GrowthTypes, [Growth!Next]_(Growth!vars), NEW j \in Jobs, Busy(j)'
  PROVE  \/ /\ Growth!RunRollup(j) /\ ~Busy(j) /\ rolls'[j].now = day + 1 /\ rolls'[j].atRisk = 0 /\ rolls'[j].pc = "next"
            /\ rolls'[j].todo \subseteq Merchants /\ Unscored(j)' = rolls'[j].todo
         \/ /\ Busy(j) /\ rolls'[j].now = rolls[j].now /\ Owed(j)' \subseteq Owed(j)
            /\ \/ rolls'[j] = rolls[j] /\ Unscored(j)' = Unscored(j)
               \/ /\ Growth!GatherSignals(j) /\ Unscored(j)' = Unscored(j) /\ rolls'[j].pc = "prior"
                  /\ rolls'[j].atRisk = rolls[j].atRisk /\ rolls'[j].shop \notin rolls'[j].todo
               \/ /\ Growth!FindPrior(j) /\ Unscored(j)' = Unscored(j) /\ rolls[j].pc = "prior" /\ rolls'[j].pc = "persist"
                  /\ rolls'[j].atRisk = rolls[j].atRisk /\ rolls'[j].shop = rolls[j].shop /\ rolls'[j].todo = rolls[j].todo
                  /\ rolls'[j].prior = Growth!Newest(snaps[rolls[j].shop], [band |-> "none", at |-> 0]).band
               \/ /\ Growth!Persist(j) /\ Unscored(j)' = rolls[j].todo /\ Unscored(j) = rolls[j].todo \cup {rolls[j].shop}
                  /\ rolls[j].pc = "persist" /\ rolls'[j].pc = "lookup" /\ rolls'[j].shop = rolls[j].shop
                  /\ rolls'[j].todo = rolls[j].todo /\ rolls'[j].atRisk = rolls[j].atRisk + (IF rolls[j].band # "HEALTHY" THEN 1 ELSE 0)
               \/ /\ Growth!FindChurned(j) \/ Growth!RecordReinstall(j)
                  /\ Unscored(j)' = Unscored(j) /\ rolls'[j].pc \in {"reinstall", "next"} /\ rolls[j].pc # "next"
                  /\ rolls'[j].atRisk = rolls[j].atRisk /\ rolls'[j].shop = rolls[j].shop /\ rolls'[j].todo = rolls[j].todo
<1>1. CASE rolls'[j] = rolls[j]
  BY <1>1 DEF Busy, Owed, Unscored
<1>2. CASE rolls'[j] # rolls[j]
  <2>1. PICK i \in Jobs : \/ Growth!RunRollup(i) \/ Growth!GatherSignals(i) \/ Growth!FindPrior(i) \/ Growth!Persist(i)
                          \/ Growth!FindChurned(i) \/ Growth!RecordReinstall(i) \/ Growth!AppendGauges(i)
                          \/ Growth!RollupFails(i)
    BY <1>2, GrowthMoves
  <2>2. CASE Growth!RunRollup(i)
    <3>1. PICK r \in Rolling : Turns(i, r) /\ r.pc = "next" /\ r.now = day + 1 /\ r.todo = world.shops /\ r.atRisk = 0
      BY <2>2, StartedTyped
    <3>2. i = j /\ rolls'[j] = r
      BY <1>2, <3>1 DEF Turns
    <3>3. ~Busy(j) /\ world.shops \subseteq Merchants
      BY <2>2, <3>2 DEF Busy, Growth!RunRollup, GrowthTypes, Growth!Stock
    <3>4. Unscored(j)' = rolls'[j].todo
      BY <3>1, <3>2 DEF Unscored
    <3>5. QED
      BY <2>2, <3>1, <3>2, <3>3, <3>4
  <2>3. CASE Growth!GatherSignals(i)
    <3>1. PICK s \in rolls[i].todo, r \in Rolling :
            /\ Turns(i, r) /\ r.pc = "prior" /\ r.now = rolls[i].now /\ r.todo = rolls[i].todo \ {s} /\ r.shop = s
            /\ r.atRisk = rolls[i].atRisk
      BY <2>3, GatheredTyped
    <3>2. i = j /\ rolls'[j] = r /\ rolls[j].pc = "next" /\ Busy(j)
      BY <1>2, <2>3, <3>1, GatheredTyped DEF Turns, Busy
    <3>3. s \in Merchants /\ rolls[j].todo \subseteq Merchants
      BY <3>1, <3>2, BusyTyped
    <3>4. Unscored(j)' = Unscored(j) /\ Owed(j)' \subseteq Owed(j)
      BY <3>1, <3>2, <3>3 DEF Unscored, Owed
    <3>5. QED
      BY <2>3, <3>1, <3>2, <3>4
  <2>4. CASE Growth!FindPrior(i) \/ Growth!Persist(i) \/ Growth!FindChurned(i) \/ Growth!RecordReinstall(i)
    <3>1. PICK r \in Underway :
            /\ Turns(i, r) /\ r.now = rolls[i].now /\ r.todo = rolls[i].todo /\ r.shop = rolls[i].shop
            /\ r.band = rolls[i].band
            /\ r.atRisk = rolls[i].atRisk
                 + (IF Growth!Persist(i) /\ rolls[i].band # "HEALTHY" THEN 1 ELSE 0)
            /\ Growth!FindPrior(i) => /\ rolls[i].pc = "prior" /\ r.pc = "persist"
                                      /\ r.prior = Growth!Newest(snaps[rolls[i].shop], [band |-> "none", at |-> 0]).band
            /\ Growth!Persist(i) => rolls[i].pc = "persist" /\ r.pc = "lookup"
            /\ Growth!FindChurned(i) => rolls[i].pc = "lookup" /\ r.pc \in {"reinstall", "next"}
            /\ Growth!RecordReinstall(i) => rolls[i].pc = "reinstall" /\ r.pc = "next"
      BY <2>4, UnderwayTyped
    <3>2. i = j /\ rolls'[j] = r
      BY <1>2, <3>1 DEF Turns
    <3>3. rolls[j] \in Underway
      BY <2>4, <3>2, UnderwayTyped
    <3>4. rolls[j].shop \in Merchants /\ rolls[j].atRisk \in Nat
      BY <3>3 DEF Underway
    <3>5. CASE Growth!FindPrior(j)
      <4>1. rolls[j].pc = "prior" /\ r.pc = "persist" /\ ~Growth!Persist(j)
        BY <3>1, <3>2, <3>5 DEF Growth!Persist
      <4>2. Unscored(j)' = Unscored(j) /\ Owed(j)' \subseteq Owed(j) /\ Busy(j)
        BY <3>1, <3>2, <4>1 DEF Unscored, Owed, Busy
      <4>3. r.atRisk = rolls[j].atRisk
        BY <3>1, <3>2, <3>4, <4>1
      <4>4. QED
        BY <3>1, <3>2, <3>5, <4>1, <4>2, <4>3
    <3>6. CASE Growth!Persist(j)
      <4>1. rolls[j].pc = "persist" /\ r.pc = "lookup"
        BY <3>1, <3>2, <3>6
      <4>2. Unscored(j)' = rolls[j].todo /\ Owed(j)' \subseteq Owed(j) /\ Busy(j)
        BY <3>1, <3>2, <4>1 DEF Unscored, Owed, Busy
      <4>3. Unscored(j) = rolls[j].todo \cup {rolls[j].shop}
        BY <3>4, <4>1 DEF Unscored
      <4>4. QED
        BY <3>1, <3>2, <3>6, <4>1, <4>2, <4>3
    <3>7. CASE Growth!FindChurned(j) \/ Growth!RecordReinstall(j)
      <4>1. rolls[j].pc \in {"lookup", "reinstall"} /\ r.pc \in {"reinstall", "next"} /\ ~Growth!Persist(j)
        BY <3>1, <3>2, <3>7 DEF Growth!Persist
      <4>2. Unscored(j)' = Unscored(j) /\ Owed(j)' \subseteq Owed(j) /\ Busy(j)
        BY <3>1, <3>2, <4>1 DEF Unscored, Owed, Busy
      <4>3. r.atRisk = rolls[j].atRisk
        BY <3>1, <3>2, <3>4, <4>1
      <4>4. QED
        BY <3>1, <3>2, <3>7, <4>1, <4>2, <4>3
    <3>8. QED
      BY <2>4, <3>2, <3>5, <3>6, <3>7
  <2>5. CASE Growth!AppendGauges(i) \/ Growth!RollupFails(i)
    <3>1. rolls'[i].pc = "idle" /\ (i # j => rolls'[j] = rolls[j])
      BY <2>5, EndedTyped
    <3>2. QED
      BY <1>2, <3>1 DEF Busy
  <2>6. QED
    BY <2>1, <2>2, <2>3, <2>4, <2>5
<1>3. QED
  BY <1>1, <1>2

\* Rollups keep their types; the merchants at risk and those to be scored are no more than there are.
LEMMA RollTypeStep ==
  ASSUME Growth!Stocked, GrowthTypes, [Growth!Next]_(Growth!vars)
  PROVE  /\ rolls' \in [Jobs -> Rolling]
         /\ \A j \in Jobs : Busy(j)' =>
              /\ rolls'[j].pc # "next" => rolls'[j].shop \notin rolls'[j].todo
              /\ rolls'[j].atRisk + Cardinality(Unscored(j)') <= Cardinality(Merchants)
<1>1. rolls' \in [Jobs -> Rolling]
  <2>1. CASE rolls' = rolls
    BY <2>1 DEF GrowthTypes
  <2>2. CASE rolls' # rolls
    <3>1. PICK i \in Jobs : \/ Growth!RunRollup(i) \/ Growth!GatherSignals(i) \/ Growth!FindPrior(i) \/ Growth!Persist(i)
                            \/ Growth!FindChurned(i) \/ Growth!RecordReinstall(i) \/ Growth!AppendGauges(i)
                            \/ Growth!RollupFails(i)
      BY <2>2, GrowthMoves
    <3>2. CASE Growth!RunRollup(i)
      BY <3>2, StartedTyped DEF Turns
    <3>3. CASE Growth!GatherSignals(i)
      BY <3>3, GatheredTyped DEF Turns
    <3>4. CASE Growth!FindPrior(i) \/ Growth!Persist(i) \/ Growth!FindChurned(i) \/ Growth!RecordReinstall(i)
      BY <3>4, UnderwayTyped DEF Turns
    <3>5. CASE Growth!AppendGauges(i) \/ Growth!RollupFails(i)
      BY <3>5, EndedTyped
    <3>6. QED
      BY <3>1, <3>2, <3>3, <3>4, <3>5
  <2>3. QED
    BY <2>1, <2>2
<1>2. ASSUME NEW j \in Jobs, Busy(j)'
      PROVE  /\ rolls'[j].pc # "next" => rolls'[j].shop \notin rolls'[j].todo
             /\ rolls'[j].atRisk + Cardinality(Unscored(j)') <= Cardinality(Merchants)
  <2>1. CASE Growth!RunRollup(j) /\ ~Busy(j)
    <3>1. /\ rolls'[j].atRisk = 0 /\ rolls'[j].pc = "next"
          /\ rolls'[j].todo \subseteq Merchants /\ Unscored(j)' = rolls'[j].todo
      BY <1>2, <2>1, RollGoes
    <3>2. PICK t : t = Unscored(j)'
      OBVIOUS
    <3>3. Cardinality(t) \in Nat /\ Cardinality(t) <= Cardinality(Merchants)
      BY <3>1, <3>2, Counted
    <3>4. QED
      BY <3>1, <3>2, <3>3
  <2>2. CASE Busy(j)
    <3>1. /\ rolls[j].pc # "next" => rolls[j].shop \notin rolls[j].todo
          /\ rolls[j].atRisk + Cardinality(Unscored(j)) <= Cardinality(Merchants)
      BY <2>2 DEF GrowthTypes
    <3>2. \/ rolls'[j] = rolls[j] /\ Unscored(j)' = Unscored(j)
          \/ /\ Unscored(j)' = Unscored(j) /\ rolls'[j].atRisk = rolls[j].atRisk
             /\ \/ rolls'[j].shop \notin rolls'[j].todo
                \/ rolls[j].pc # "next" /\ rolls'[j].shop = rolls[j].shop /\ rolls'[j].todo = rolls[j].todo
          \/ /\ Unscored(j)' = rolls[j].todo /\ Unscored(j) = rolls[j].todo \cup {rolls[j].shop}
             /\ rolls[j].pc = "persist" /\ rolls'[j].shop = rolls[j].shop /\ rolls'[j].todo = rolls[j].todo
             /\ rolls'[j].atRisk = rolls[j].atRisk + (IF rolls[j].band # "HEALTHY" THEN 1 ELSE 0)
      BY <1>2, <2>2, RollGoes
    <3>3. CASE rolls'[j] = rolls[j] /\ Unscored(j)' = Unscored(j)
      BY <3>1, <3>3
    <3>4. CASE /\ Unscored(j)' = Unscored(j) /\ rolls'[j].atRisk = rolls[j].atRisk
               /\ \/ rolls'[j].shop \notin rolls'[j].todo
                  \/ rolls[j].pc # "next" /\ rolls'[j].shop = rolls[j].shop /\ rolls'[j].todo = rolls[j].todo
      BY <3>1, <3>4
    <3>5. CASE /\ Unscored(j)' = rolls[j].todo /\ Unscored(j) = rolls[j].todo \cup {rolls[j].shop}
               /\ rolls[j].pc = "persist" /\ rolls'[j].shop = rolls[j].shop /\ rolls'[j].todo = rolls[j].todo
               /\ rolls'[j].atRisk = rolls[j].atRisk + (IF rolls[j].band # "HEALTHY" THEN 1 ELSE 0)
      <4>1. rolls[j].todo \subseteq Merchants /\ rolls[j].atRisk \in Nat
        BY <2>2, BusyTyped
      <4>2. IsFiniteSet(rolls[j].todo) /\ Cardinality(rolls[j].todo) \in Nat
        BY <4>1, Counted
      <4>3. Cardinality(Unscored(j)) = Cardinality(rolls[j].todo) + 1
        BY <3>1, <3>5, <4>2, FS_AddElement
      <4>4. rolls'[j].atRisk <= rolls[j].atRisk + 1 /\ rolls'[j].atRisk \in Nat
        BY <3>5, <4>1
      <4>5. Cardinality(Merchants) \in Nat
        BY Counted
      <4>6. QED
        BY <3>1, <3>5, <4>1, <4>2, <4>3, <4>4, <4>5
    <3>6. QED
      BY <3>2, <3>3, <3>4, <3>5
  <2>3. QED
    BY <1>2, <2>1, <2>2, RollGoes
<1>3. QED
  BY <1>1, <1>2

\* A handler in progress is new, or was in progress, perhaps a step behind.
LEMMA HooksGo ==
  ASSUME GrowthTypes, [Growth!Next]_(Growth!vars), NEW g \in uninstalls'
  PROVE  /\ g \in Hook
         /\ \/ g.now = day + 1 /\ g.pc = "read" /\ day' = day + 1 /\ uninstalls' = uninstalls \cup {g} /\ UNCHANGED <<events, rolls>>
            \/ g \in uninstalls
            \/ \E h \in uninstalls :
                 /\ Growth!FindLatest(h) /\ h.pc = "read" /\ g.pc = "write" /\ g.now = h.now /\ g.shop = h.shop
                 /\ uninstalls' = (uninstalls \ {h}) \cup {g} /\ UNCHANGED <<events, rolls, day>>
                 /\ Growth!Latest(h.shop).kind # "UNINSTALL" /\ mixed' = Growth!Race(h.shop, h.now)
<1>1. CASE g \in uninstalls
  BY <1>1 DEF GrowthTypes
<1>2. CASE g \notin uninstalls
  <2>1. CASE \E s \in world.shops : Growth!Deliver(s)
    <3>1. PICK s \in world.shops : Growth!Deliver(s)
      BY <2>1
    <3>2. g = [shop |-> s, now |-> day + 1, pc |-> "read"] /\ uninstalls' = uninstalls \cup {g} /\ day' = day + 1
      BY <1>2, <3>1 DEF Growth!Deliver, Growth!Now
    <3>3. s \in Merchants /\ day \in Nat
      BY <3>1 DEF GrowthTypes, Growth!Stock
    <3>4. g \in Hook /\ g.now = day + 1 /\ g.pc = "read"
      BY <3>2, <3>3 DEF Hook
    <3>5. UNCHANGED <<events, rolls>>
      BY <3>1 DEF Growth!Deliver
    <3>6. QED
      BY <3>2, <3>4, <3>5
  <2>2. CASE \E h \in uninstalls : Growth!FindLatest(h)
    <3>1. PICK h \in uninstalls : Growth!FindLatest(h)
      BY <2>2
    <3>2. /\ Growth!Latest(h.shop).kind # "UNINSTALL" /\ uninstalls' = (uninstalls \ {h}) \cup {[h EXCEPT !.pc = "write"]}
          /\ mixed' = Growth!Race(h.shop, h.now) /\ h.pc = "read" /\ UNCHANGED <<events, rolls, day>>
      BY <1>2, <3>1 DEF Growth!FindLatest
    <3>3. g = [h EXCEPT !.pc = "write"]
      BY <1>2, <3>2
    <3>4. h \in Hook
      BY DEF GrowthTypes
    <3>5. g \in Hook /\ g.pc = "write" /\ g.now = h.now /\ g.shop = h.shop
      BY <3>3, <3>4 DEF Hook
    <3>6. QED
      BY <3>1, <3>2, <3>3, <3>5
  <2>3. QED
    BY <1>2, <2>1, <2>2, GrowthMoves
<1>3. QED
  BY <1>1, <1>2

-----------------------------------------------------------------------------
(* Growth: each call has a moment of its own, and writes it at most once.  *)

\* No other handler in progress has the moment of a handler, and no event.
HookOwn(h) ==
  /\ h.now <= day
  /\ \A g \in uninstalls : g.now = h.now => g = h
  /\ \A s \in Merchants : \A i \in DOMAIN events[s] : events[s][i].at # h.now

\* Nor that of a rollup, as far as it has got.
RollOwn(j) ==
  /\ rolls[j].now <= day
  /\ \A i \in Jobs : Busy(i) /\ rolls[i].now = rolls[j].now => i = j
  /\ \A h \in uninstalls : h.now # rolls[j].now
  /\ \A s \in Owed(j) : \A i \in DOMAIN events[s] : events[s][i].at # rolls[j].now

ClockInv == (\A h \in uninstalls : HookOwn(h)) /\ \A j \in Jobs : Busy(j) => RollOwn(j)

\* The times of what is recorded are those of the call that records it.
LEMMA EventsGo ==
  ASSUME GrowthTypes, ClockInv, [Growth!Next]_(Growth!vars), NEW s \in Merchants, NEW i \in DOMAIN events'[s]
  PROVE  \/ i \in DOMAIN events[s] /\ events'[s][i] = events[s][i]
         \/ \E h \in uninstalls : /\ Growth!RecordUninstall(h) /\ events'[s][i].at = h.now /\ uninstalls' = uninstalls \ {h}
                                  /\ events'[s][i] \in Lifecycle
         \/ \E j \in Jobs : /\ Growth!RecordReinstall(j) /\ events'[s][i].at = rolls[j].now /\ s = rolls[j].shop
                            /\ events'[s][i] \in Lifecycle
<1>1. CASE events' = events
  BY <1>1
<1>2. CASE \E h \in uninstalls : Growth!RecordUninstall(h)
  <2>1. PICK h \in uninstalls : Growth!RecordUninstall(h)
    BY <1>2
  <2>2. PICK e \in Lifecycle : /\ e.kind = "UNINSTALL" /\ e.at = h.now /\ h.shop \in Merchants
                               /\ events' = [events EXCEPT ![h.shop] = Append(events[h.shop], e)]
                               /\ h.pc = "write" /\ uninstalls' = uninstalls \ {h}
    BY <2>1, UninstalledTyped
  <2>3. (i \in DOMAIN events[s] /\ events'[s][i] = events[s][i]) \/ (s = h.shop /\ events'[s][i] = e)
    BY <2>2, RecordedTyped
  <2>4. QED
    BY <2>1, <2>2, <2>3
<1>3. CASE \E j \in Jobs : Growth!RecordReinstall(j)
  <2>1. PICK j \in Jobs : Growth!RecordReinstall(j)
    BY <1>3
  <2>2. PICK e \in Lifecycle : /\ e.kind = "REINSTALL" /\ e.at = rolls[j].now /\ rolls[j].shop \in Merchants
                               /\ events' = [events EXCEPT ![rolls[j].shop] = Append(events[rolls[j].shop], e)]
    BY <2>1, ReinstalledTyped
  <2>3. (i \in DOMAIN events[s] /\ events'[s][i] = events[s][i]) \/ (s = rolls[j].shop /\ events'[s][i] = e)
    BY <2>2, RecordedTyped
  <2>4. QED
    BY <2>1, <2>2, <2>3
<1>4. QED
  BY <1>1, <1>2, <1>3, GrowthMoves

\* A rollup that has recorded a shop as reinstalled does not owe it any more.
LEMMA ReinstalledOwes ==
  ASSUME GrowthTypes, NEW j \in Jobs, Growth!RecordReinstall(j)
  PROVE  /\ Owed(j)' = rolls[j].todo /\ rolls[j].shop \notin rolls[j].todo /\ rolls[j].shop \in Owed(j) /\ Busy(j)
         /\ uninstalls' = uninstalls
<1>1. /\ rolls[j] \in Underway /\ rolls[j].pc = "reinstall" /\ rolls'[j].pc = "next" /\ rolls'[j].todo = rolls[j].todo
  BY UnderwayTyped DEF Turns
<1>2. rolls[j].shop \notin rolls[j].todo /\ Busy(j)
  BY <1>1 DEF GrowthTypes, Busy
<1>3. rolls[j].shop \in Merchants
  BY <1>1 DEF Underway
<1>4. Owed(j)' = rolls[j].todo /\ rolls[j].shop \in Owed(j)
  BY <1>1, <1>3 DEF Owed
<1>5. QED
  BY <1>2, <1>4 DEF Growth!RecordReinstall

\* What is owed is shops.
LEMMA OwedTyped == ASSUME GrowthTypes, NEW j \in Jobs, Busy(j) PROVE Owed(j) \subseteq Merchants
BY BusyTyped DEF Owed

\* Nobody is at work.
LEMMA ClockInit == Growth!Init => ClockInv
<1>1. Growth!Init => uninstalls = {} /\ \A j \in Jobs : ~Busy(j)
  BY DEF Growth!Init, Busy, Growth!Idle
<1>2. QED
  BY <1>1 DEF ClockInv

\* A new call takes a later moment; a call that writes is gone, or past that shop.
LEMMA ClockStep == GrowthTypes /\ ClockInv /\ [Growth!Next]_(Growth!vars) => ClockInv'
<1>. SUFFICES ASSUME GrowthTypes, ClockInv, [Growth!Next]_(Growth!vars) PROVE ClockInv'
  OBVIOUS
<1>1. day \in Nat /\ day' \in Nat /\ day <= day'
  BY GrowthMoves DEF GrowthTypes
<1>2. \A h \in uninstalls : HookOwn(h) /\ h.now \in Nat
  BY DEF ClockInv, GrowthTypes, Hook
<1>3. \A s \in Merchants : \A i \in DOMAIN events[s] : events[s][i].at \in Nat /\ events[s][i].at <= day
  <2>1. SUFFICES ASSUME NEW s \in Merchants, NEW i \in DOMAIN events[s] PROVE events[s][i].at \in Nat /\ events[s][i].at <= day
    OBVIOUS
  <2>2. events[s] \in Seq(Lifecycle) /\ events[s][i].at <= day
    BY DEF GrowthTypes
  <2>3. events[s][i] \in Lifecycle
    BY <2>2, ElementOfSeq, LenProperties
  <2>4. QED
    BY <2>2, <2>3 DEF Lifecycle
<1>4. ASSUME NEW g \in uninstalls' PROVE HookOwn(g)'
  <2>1. g.now <= day'
    <3>1. (g.now = day + 1 /\ day' = day + 1) \/ \E h \in uninstalls : g.now = h.now
      BY HooksGo
    <3>2. \A h \in uninstalls : h.now <= day /\ h.now \in Nat
      BY <1>2 DEF HookOwn
    <3>3. QED
      BY <1>1, <3>1, <3>2
  <2>2. ASSUME NEW f \in uninstalls', f.now = g.now PROVE f = g
    <3>1. CASE g \in uninstalls /\ f \in uninstalls
      BY <1>2, <2>2, <3>1 DEF HookOwn
    <3>2. CASE g \notin uninstalls
      BY <1>1, <1>2, <2>2, <3>2, HooksGo DEF HookOwn
    <3>3. CASE f \notin uninstalls
      BY <1>1, <1>2, <2>2, <3>3, HooksGo DEF HookOwn
    <3>4. QED
      BY <3>1, <3>2, <3>3
  <2>3. ASSUME NEW s \in Merchants, NEW i \in DOMAIN events'[s] PROVE events'[s][i].at # g.now
    <3>1. CASE g \notin uninstalls
      BY <1>1, <1>2, <1>3, <3>1, HooksGo DEF HookOwn
    <3>2. CASE g \in uninstalls
      <4>1. CASE i \in DOMAIN events[s] /\ events'[s][i] = events[s][i]
        BY <1>2, <3>2, <4>1 DEF HookOwn
      <4>2. CASE \E h \in uninstalls : events'[s][i].at = h.now /\ uninstalls' = uninstalls \ {h}
        BY <1>2, <3>2, <4>2 DEF HookOwn
      <4>3. CASE \E j \in Jobs : Growth!RecordReinstall(j) /\ events'[s][i].at = rolls[j].now
        BY <3>2, <4>3, ReinstalledOwes DEF ClockInv, RollOwn
      <4>4. QED
        BY <2>3, <4>1, <4>2, <4>3, EventsGo
    <3>3. QED
      BY <3>1, <3>2
  <2>4. QED
    BY <2>1, <2>2, <2>3 DEF HookOwn
<1>5. ASSUME NEW j \in Jobs, Busy(j)' PROVE RollOwn(j)'
  <2>1. \A i \in Jobs : Busy(i) => RollOwn(i) /\ rolls[i].now \in Nat
    BY BusyTyped DEF ClockInv
  <2>2. \A i \in Jobs : Busy(i)' => \/ /\ Growth!RunRollup(i) /\ rolls'[i].now = day + 1 /\ day' = day + 1
                                       /\ UNCHANGED <<events, uninstalls>>
                                    \/ Busy(i) /\ rolls'[i].now = rolls[i].now /\ Owed(i)' \subseteq Owed(i)
    <3>1. SUFFICES ASSUME NEW i \in Jobs, Busy(i)'
                   PROVE  \/ /\ Growth!RunRollup(i) /\ rolls'[i].now = day + 1 /\ day' = day + 1
                             /\ UNCHANGED <<events, uninstalls>>
                          \/ Busy(i) /\ rolls'[i].now = rolls[i].now /\ Owed(i)' \subseteq Owed(i)
      OBVIOUS
    <3>2. Growth!RunRollup(i) => day' = day + 1 /\ UNCHANGED <<events, uninstalls>>
      BY DEF Growth!RunRollup, Growth!Now
    <3>3. QED
      BY <3>1, <3>2, RollGoes
  <2>3. rolls'[j].now <= day'
    BY <1>1, <1>5, <2>1, <2>2 DEF RollOwn
  <2>4. ASSUME NEW i \in Jobs, Busy(i)', rolls'[i].now = rolls'[j].now PROVE i = j
    <3>1. CASE Busy(i) /\ Busy(j) /\ rolls'[i].now = rolls[i].now /\ rolls'[j].now = rolls[j].now
      BY <2>1, <2>4, <3>1 DEF RollOwn
    <3>2. CASE Growth!RunRollup(i) /\ rolls'[i].now = day + 1
      <4>1. i # j => rolls'[j] = rolls[j]
        BY <3>2, StartedTyped DEF Turns
      <4>2. i # j => Busy(j)
        BY <1>5, <4>1 DEF Busy
      <4>3. ASSUME i # j PROVE FALSE
        <5>1. rolls[j].now = day + 1 /\ rolls[j].now <= day /\ rolls[j].now \in Nat
          BY <2>1, <2>4, <3>2, <4>1, <4>2, <4>3 DEF RollOwn
        <5>2. QED
          BY <1>1, <5>1
      <4>4. QED
        BY <4>3
    <3>3. CASE Growth!RunRollup(j) /\ rolls'[j].now = day + 1
      <4>1. i # j => rolls'[i] = rolls[i]
        BY <3>3, StartedTyped DEF Turns
      <4>2. i # j => Busy(i)
        BY <2>4, <4>1 DEF Busy
      <4>3. ASSUME i # j PROVE FALSE
        <5>1. rolls[i].now = day + 1 /\ rolls[i].now <= day /\ rolls[i].now \in Nat
          BY <2>1, <2>4, <3>3, <4>1, <4>2, <4>3 DEF RollOwn
        <5>2. QED
          BY <1>1, <5>1
      <4>4. QED
        BY <4>3
    <3>4. QED
      BY <1>5, <2>2, <2>4, <3>1, <3>2, <3>3
  <2>5. ASSUME NEW g \in uninstalls' PROVE g.now # rolls'[j].now
    <3>1. CASE Growth!RunRollup(j) /\ rolls'[j].now = day + 1 /\ UNCHANGED <<events, uninstalls>>
      BY <1>1, <1>2, <3>1 DEF HookOwn
    <3>2. CASE Busy(j) /\ rolls'[j].now = rolls[j].now
      <4>1. CASE g.now = day + 1
        BY <1>1, <2>1, <3>2, <4>1 DEF RollOwn
      <4>2. CASE \E h \in uninstalls : g.now = h.now
        BY <2>1, <3>2, <4>2 DEF RollOwn
      <4>3. QED
        BY <4>1, <4>2, HooksGo
    <3>3. QED
      BY <1>5, <2>2, <3>1, <3>2
  <2>6. ASSUME NEW s \in Owed(j)', NEW i \in DOMAIN events'[s] PROVE events'[s][i].at # rolls'[j].now
    <3>1. CASE Growth!RunRollup(j) /\ rolls'[j].now = day + 1 /\ UNCHANGED <<events, uninstalls>>
      <4>1. s \in Merchants
        <5>1. rolls'[j].pc = "next" /\ rolls'[j].todo \subseteq Merchants
          BY <3>1, StartedTyped DEF Turns, GrowthTypes, Growth!Stock
        <5>2. QED
          BY <5>1, <2>6 DEF Owed
      <4>2. QED
        BY <1>1, <1>3, <2>6, <3>1, <4>1
    <3>2. CASE Busy(j) /\ rolls'[j].now = rolls[j].now /\ Owed(j)' \subseteq Owed(j)
      <4>1. s \in Owed(j) /\ s \in Merchants
        BY <2>6, <3>2, OwedTyped
      <4>2. CASE i \in DOMAIN events[s] /\ events'[s][i] = events[s][i]
        BY <2>1, <3>2, <4>1, <4>2 DEF RollOwn
      <4>3. CASE \E h \in uninstalls : events'[s][i].at = h.now
        BY <2>1, <3>2, <4>3 DEF RollOwn
      <4>4. CASE \E k \in Jobs : Growth!RecordReinstall(k) /\ events'[s][i].at = rolls[k].now /\ s = rolls[k].shop
        BY <2>1, <2>6, <3>2, <4>4, ReinstalledOwes DEF RollOwn
      <4>5. QED
        BY <2>6, <4>1, <4>2, <4>3, <4>4, EventsGo
    <3>3. QED
      BY <1>5, <2>2, <3>1, <3>2
  <2>7. QED
    BY <2>3, <2>4, <2>5, <2>6 DEF RollOwn
<1>6. QED
  BY <1>4, <1>5 DEF ClockInv

-----------------------------------------------------------------------------
(* Growth: the steps keep the types.                                       *)

\* What is recorded is recorded with its time.
LEMMA EventsTyped ==
  ASSUME GrowthTypes, NEW s \in Merchants
  PROVE  /\ events[s] \in Seq(Lifecycle)
         /\ \A i \in DOMAIN events[s] : events[s][i] \in Lifecycle /\ events[s][i].at \in Nat /\ events[s][i].at <= day
<1>1. events[s] \in Seq(Lifecycle) /\ \A i \in DOMAIN events[s] : events[s][i].at <= day
  BY DEF GrowthTypes
<1>2. \A i \in DOMAIN events[s] : events[s][i] \in Lifecycle
  BY <1>1, ElementOfSeq, LenProperties
<1>3. QED
  BY <1>1, <1>2 DEF Lifecycle

\* ... and so is what is scored.
LEMMA SnapsTyped ==
  ASSUME GrowthTypes, NEW s \in Merchants
  PROVE  /\ snaps[s] \in Seq(Snapshot)
         /\ \A i \in DOMAIN snaps[s] : /\ snaps[s][i] \in Snapshot /\ snaps[s][i].band \in Growth!Bands
                                       /\ snaps[s][i].at \in Nat /\ snaps[s][i].at <= day
<1>1. snaps[s] \in Seq(Snapshot) /\ \A i \in DOMAIN snaps[s] : snaps[s][i].at <= day
  BY DEF GrowthTypes
<1>2. \A i \in DOMAIN snaps[s] : snaps[s][i] \in Snapshot
  BY <1>1, ElementOfSeq, LenProperties
<1>3. QED
  BY <1>1, <1>2 DEF Snapshot

\* The world and the bounds.
LEMMA WorldTypeStep ==
  ASSUME GrowthTypes, [Growth!Next]_(Growth!vars)
  PROVE  /\ active' \subseteq Merchants /\ listed' \subseteq Merchants /\ deliverable' \subseteq Merchants
         /\ world' \in Growth!Stock /\ scores' \in [world'.shops -> Signals]
<1>0. /\ active \subseteq Merchants /\ listed \subseteq Merchants /\ deliverable \subseteq Merchants
      /\ world \in Growth!Stock /\ scores \in [world.shops -> Signals] /\ world.shops \subseteq Merchants
  BY DEF GrowthTypes, Growth!Stock
<1>1. CASE UNCHANGED Growth!vars
  BY <1>0, <1>1 DEF Growth!vars
<1>2. CASE Growth!Next
  <2>1. CASE \E s \in world.shops : Growth!Uninstall(s) \/ Growth!Reinstall(s)
    <3>1. PICK s \in world.shops : Growth!Uninstall(s) \/ Growth!Reinstall(s)
      BY <2>1
    <3>2. world' \in Growth!Stock /\ world'.shops = world.shops
      BY <1>0, <3>1, GrowthUses DEF Growth!Uninstall, Growth!Reinstall
    <3>3. active' \subseteq Merchants /\ deliverable' \subseteq Merchants /\ listed' = listed /\ scores' = scores
      BY <1>0, <3>1 DEF Growth!Uninstall, Growth!Reinstall
    <3>4. QED
      BY <1>0, <3>2, <3>3
  <2>2. CASE \E s \in world.shops : Growth!SignalsChange(s)
    <3>1. PICK s \in world.shops : Growth!SignalsChange(s)
      BY <2>2
    <3>2. world' \in Growth!Stock /\ world'.shops = world.shops
      BY <1>0, <3>1, GrowthUses DEF Growth!SignalsChange
    <3>3. active' = active /\ deliverable' = deliverable /\ listed' = listed /\ scores' \in [world.shops -> Signals]
      BY <1>0, <3>1 DEF Growth!SignalsChange
    <3>4. QED
      BY <1>0, <3>2, <3>3
  <2>3. CASE \E s \in world.shops : Growth!Deliver(s)
    <3>1. world' \in Growth!Stock /\ world'.shops = world.shops /\ UNCHANGED Growth!world
      BY <1>0, <2>3, GrowthUses DEF Growth!Deliver
    <3>2. QED
      BY <1>0, <3>1 DEF Growth!world
  <2>4. CASE Growth!Sync
    BY <1>0, <2>4 DEF Growth!Sync
  <2>5. CASE Growth!KpiRollup
    <3>1. world' \in Growth!Stock /\ world'.shops = world.shops /\ UNCHANGED Growth!world
      BY <1>0, <2>5, GrowthUses DEF Growth!KpiRollup, Growth!Counts
    <3>2. QED
      BY <1>0, <3>1 DEF Growth!world
  <2>6. CASE \E h \in uninstalls : Growth!FindLatest(h) \/ Growth!RecordUninstall(h) \/ Growth!HandlerDies(h)
    <3>1. PICK h \in uninstalls : Growth!FindLatest(h) \/ Growth!RecordUninstall(h) \/ Growth!HandlerDies(h)
      BY <2>6
    <3>2. /\ UNCHANGED Growth!world
          /\ UNCHANGED world \/ Growth!Uses("kpis") \/ Growth!Uses("failures")
      BY <3>1 DEF Growth!FindLatest, Growth!RecordUninstall, Growth!HandlerDies, Growth!Counts
    <3>3. world' \in Growth!Stock /\ world'.shops = world.shops
      BY <1>0, <3>2, GrowthUses
    <3>4. QED
      BY <1>0, <3>2, <3>3 DEF Growth!world
  <2>7. CASE \E j \in Jobs :
               \/ Growth!RunRollup(j) \/ Growth!GatherSignals(j) \/ Growth!FindPrior(j) \/ Growth!Persist(j)
               \/ Growth!FindChurned(j) \/ Growth!RecordReinstall(j) \/ Growth!AppendGauges(j) \/ Growth!RollupFails(j)
    <3>1. /\ UNCHANGED Growth!world
          /\ UNCHANGED world \/ Growth!Uses("rollups") \/ Growth!Uses("failures")
      BY <2>7 DEF Growth!RunRollup, Growth!GatherSignals, Growth!FindPrior, Growth!Persist, Growth!FindChurned,
           Growth!RecordReinstall, Growth!AppendGauges, Growth!RollupFails
    <3>2. world' \in Growth!Stock /\ world'.shops = world.shops
      BY <1>0, <3>1, GrowthUses
    <3>3. QED
      BY <1>0, <3>1, <3>2 DEF Growth!world
  <2>8. CASE \E c \in counting : Growth!ComputeKpis(c) \/ Growth!AppendKpis(c) \/ Growth!KpiFails(c)
    BY <1>0, <2>8 DEF Growth!ComputeKpis, Growth!AppendKpis, Growth!KpiFails, Growth!world
  <2>9. QED
    BY <1>2, <2>1, <2>2, <2>3, <2>4, <2>5, <2>6, <2>7, <2>8 DEF Growth!Next
<1>3. QED
  BY <1>1, <1>2

\* Events and handlers.
LEMMA EventTypeStep ==
  ASSUME GrowthTypes, ClockInv, [Growth!Next]_(Growth!vars)
  PROVE  /\ events' \in [Merchants -> Seq(Lifecycle)]
         /\ \A s \in Merchants : \A i \in DOMAIN events'[s] : events'[s][i].at <= day'
         /\ uninstalls' \subseteq Hook /\ day' \in Nat
<1>1. day \in Nat /\ day' \in Nat /\ day <= day'
  BY GrowthMoves DEF GrowthTypes
<1>2. events' \in [Merchants -> Seq(Lifecycle)]
  <2>1. CASE events' = events
    BY <2>1 DEF GrowthTypes
  <2>2. CASE \E h \in uninstalls : Growth!RecordUninstall(h)
    BY <2>2, UninstalledTyped, RecordedTyped
  <2>3. CASE \E j \in Jobs : Growth!RecordReinstall(j)
    BY <2>3, ReinstalledTyped, RecordedTyped
  <2>4. QED
    BY <2>1, <2>2, <2>3, GrowthMoves
<1>3. ASSUME NEW s \in Merchants, NEW i \in DOMAIN events'[s] PROVE events'[s][i].at <= day'
  <2>1. CASE i \in DOMAIN events[s] /\ events'[s][i] = events[s][i]
    BY <1>1, <2>1, EventsTyped
  <2>2. CASE \E h \in uninstalls : events'[s][i].at = h.now
    <3>1. \A h \in uninstalls : h.now <= day /\ h.now \in Nat
      BY DEF ClockInv, HookOwn, GrowthTypes, Hook
    <3>2. QED
      BY <1>1, <2>2, <3>1
  <2>3. CASE \E j \in Jobs : Growth!RecordReinstall(j) /\ events'[s][i].at = rolls[j].now
    <3>1. PICK j \in Jobs : Growth!RecordReinstall(j) /\ events'[s][i].at = rolls[j].now
      BY <2>3
    <3>2. rolls[j].now <= day /\ rolls[j].now \in Nat
      BY <3>1, ReinstalledOwes, BusyTyped DEF ClockInv, RollOwn
    <3>3. QED
      BY <1>1, <3>1, <3>2
  <2>4. QED
    BY <1>3, <2>1, <2>2, <2>3, EventsGo
<1>4. uninstalls' \subseteq Hook
  BY HooksGo
<1>5. QED
  BY <1>1, <1>2, <1>3, <1>4

\* Snapshots, the bands audited, and the gauges.
LEMMA ScoreTypeStep ==
  ASSUME Growth!Stocked, GrowthTypes, ClockInv, [Growth!Next]_(Growth!vars)
  PROVE  /\ snaps' \in [Merchants -> Seq(Snapshot)]
         /\ \A s \in Merchants : \A i \in DOMAIN snaps'[s] : snaps'[s][i].at <= day'
         /\ banded' \in [Merchants -> Growth!Bands \cup {"none"}]
         /\ gauges' \in [at : Nat, churned : 0 .. Cardinality(Merchants), atRisk : 0 .. Cardinality(Merchants)]
<1>1. day \in Nat /\ day' \in Nat /\ day <= day'
  BY GrowthMoves DEF GrowthTypes
<1>2. /\ snaps' \in [Merchants -> Seq(Snapshot)]
      /\ \A s \in Merchants : \A i \in DOMAIN snaps'[s] : snaps'[s][i].at <= day'
      /\ banded' \in [Merchants -> Growth!Bands \cup {"none"}]
  <2>1. CASE snaps' = snaps /\ banded' = banded
    <3>1. \A s \in Merchants : \A i \in DOMAIN snaps[s] : snaps[s][i].at <= day'
      BY <1>1, SnapsTyped
    <3>2. QED
      BY <2>1, <3>1 DEF GrowthTypes
  <2>2. CASE \E j \in Jobs : Growth!Persist(j)
    <3>1. PICK j \in Jobs : Growth!Persist(j)
      BY <2>2
    <3>2. PICK e \in Snapshot, s \in Merchants : KeepsScore(j, s, e)
      BY <3>1, PersistedTyped
    <3>3. rolls[j].now \in Nat /\ rolls[j].now <= day
      <4>1. Busy(j)
        BY <3>1 DEF Busy, Growth!Persist
      <4>2. QED
        BY <4>1, BusyTyped DEF ClockInv, RollOwn
    <3>4. ASSUME NEW t \in Merchants, NEW i \in DOMAIN snaps'[t] PROVE snaps'[t][i].at <= day'
      <4>1. CASE i \in DOMAIN snaps[t] /\ snaps'[t][i] = snaps[t][i]
        BY <1>1, <4>1, SnapsTyped
      <4>2. CASE snaps'[t][i] = e
        BY <1>1, <3>2, <3>3, <4>2 DEF KeepsScore
      <4>3. QED
        BY <3>2, <3>4, <4>1, <4>2 DEF KeepsScore
    <3>5. QED
      BY <3>2, <3>4 DEF KeepsScore
  <2>3. QED
    BY <2>1, <2>2, GrowthMoves
<1>3. gauges' \in [at : Nat, churned : 0 .. Cardinality(Merchants), atRisk : 0 .. Cardinality(Merchants)]
  <2>1. CASE gauges' = gauges
    BY <2>1 DEF GrowthTypes
  <2>2. CASE \E j \in Jobs : Growth!AppendGauges(j)
    <3>1. PICK j \in Jobs : Growth!AppendGauges(j)
      BY <2>2
    <3>2. Busy(j) /\ rolls[j].pc = "next" /\ rolls[j].todo = {}
      BY <3>1 DEF Busy, Growth!AppendGauges
    <3>3. Unscored(j) = {}
      BY <3>2 DEF Unscored
    <3>4. rolls[j].now \in Nat /\ rolls[j].atRisk \in Nat /\ rolls[j].atRisk <= Cardinality(Merchants)
      <4>1. rolls[j].atRisk + Cardinality(Unscored(j)) <= Cardinality(Merchants)
        BY <3>2 DEF GrowthTypes
      <4>2. Cardinality({}) = 0 /\ Cardinality(Merchants) \in Nat
        BY FS_EmptySet, Counted
      <4>3. QED
        BY <3>2, <3>3, <4>1, <4>2, BusyTyped
    <3>5. PICK n : n = Growth!Cardinality(Growth!ChurnedShops)
      OBVIOUS
    <3>6. n \in 0 .. Cardinality(Merchants)
      <4>1. PICK t : t = Growth!ChurnedShops
        OBVIOUS
      <4>2. t \subseteq Merchants
        BY <4>1 DEF Growth!ChurnedShops
      <4>3. n = Cardinality(t)
        BY <3>5, <4>1, SameCount
      <4>4. QED
        BY <4>2, <4>3, Counted
    <3>7. gauges' = gauges \/ gauges' = [at |-> rolls[j].now, churned |-> n, atRisk |-> rolls[j].atRisk]
      BY <3>1, <3>5 DEF Growth!AppendGauges
    <3>8. QED
      BY <3>4, <3>6, <3>7, Counted DEF GrowthTypes
  <2>3. QED
    BY <2>1, <2>2, GrowthMoves
<1>4. QED
  BY <1>2, <1>3

\* What is observed of the races.
LEMMA MixedTypeStep ==
  ASSUME GrowthTypes, [Growth!Next]_(Growth!vars)
  PROVE  mixed' \in [raced : SUBSET Merchants, gone : SUBSET Merchants, overlapped : BOOLEAN]
<1>0. mixed \in [raced : SUBSET Merchants, gone : SUBSET Merchants, overlapped : BOOLEAN]
  BY DEF GrowthTypes
<1>1. \A s \in Merchants : \A n : Growth!Race(s, n) \in [raced : SUBSET Merchants, gone : SUBSET Merchants, overlapped : BOOLEAN]
  BY <1>0 DEF Growth!Race
<1>2. CASE \E h \in uninstalls : Growth!FindLatest(h)
  <2>1. PICK h \in uninstalls : Growth!FindLatest(h)
    BY <1>2
  <2>2. h.shop \in Merchants
    BY DEF GrowthTypes, Hook
  <2>3. mixed' = mixed \/ mixed' = Growth!Race(h.shop, h.now)
    BY <2>1 DEF Growth!FindLatest
  <2>4. QED
    BY <1>0, <1>1, <2>2, <2>3
<1>3. CASE \E j \in Jobs : Growth!FindChurned(j) \/ Growth!RecordReinstall(j)
  <2>1. PICK j \in Jobs : Growth!FindChurned(j) \/ Growth!RecordReinstall(j)
    BY <1>3
  <2>2. rolls[j].shop \in Merchants
    BY <2>1, UnderwayTyped DEF Underway
  <2>3. \/ mixed' = mixed \/ mixed' = Growth!Race(rolls[j].shop, rolls[j].now)
        \/ mixed' = [mixed EXCEPT !.gone = @ \cup {rolls[j].shop}]
    BY <2>1 DEF Growth!FindChurned, Growth!RecordReinstall
  <2>4. QED
    BY <1>0, <1>1, <2>2, <2>3
<1>4. CASE \E j \in Jobs : Growth!RunRollup(j)
  <2>1. PICK b \in BOOLEAN : mixed' = [mixed EXCEPT !.overlapped = b]
    BY <1>0, <1>4 DEF Growth!RunRollup
  <2>2. QED
    BY <1>0, <2>1
<1>5. QED
  BY <1>0, <1>2, <1>3, <1>4, GrowthMoves

-----------------------------------------------------------------------------
(* Growth: the number of active merchants is one the replica had.          *)

KpiInv ==
  /\ kpis.shown \in kpis.active
  /\ \A c \in counting : IF c.got THEN c.active \in c.ever ELSE Cardinality(listed) \in c.ever

\* The first number is that of the replica.
LEMMA KpiInit == Growth!Init => KpiInv
<1>. SUFFICES ASSUME Growth!Init PROVE KpiInv
  OBVIOUS
<1>1. PICK n : n = Growth!Cardinality(active)
  OBVIOUS
<1>2. kpis = [at |-> 0, active |-> {n}, shown |-> n] /\ counting = {}
  BY <1>1 DEF Growth!Init
<1>3. QED
  BY <1>2 DEF KpiInv

\* A rollup collects what the replica has while it runs, and reads one of these.
LEMMA KpiStep ==
  ASSUME Growth!Stocked, GrowthTypes, KpiInv, [Growth!Next]_(Growth!vars)
  PROVE  kpis' \in [at : Nat, active : SUBSET Nat, shown : Nat] /\ counting' \subseteq Count /\ KpiInv'
<1>0. /\ kpis \in [at : Nat, active : SUBSET Nat, shown : Nat] /\ counting \subseteq Count /\ day \in Nat
      /\ active \subseteq Merchants /\ listed \subseteq Merchants
  BY DEF GrowthTypes
<1>1. CASE UNCHANGED <<kpis, counting, listed>>
  BY <1>0, <1>1 DEF KpiInv
<1>2. CASE Growth!Sync
  <2>1. PICK n : n = Growth!Cardinality(listed')
    OBVIOUS
  <2>2. n = Cardinality(listed') /\ n \in Nat
    <3>1. listed' \subseteq Merchants
      BY <1>0, <1>2 DEF Growth!Sync
    <3>2. PICK t : t = listed'
      OBVIOUS
    <3>3. n = Cardinality(t)
      BY <2>1, <3>2, SameCount
    <3>4. QED
      BY <3>1, <3>2, <3>3, Counted
  <2>3. counting' = {[c EXCEPT !.ever = @ \cup {n}] : c \in counting} /\ kpis' = kpis
    BY <1>2, <2>1 DEF Growth!Sync, Growth!Seen
  <2>4. ASSUME NEW d \in counting' PROVE d \in Count /\ IF d.got THEN d.active \in d.ever ELSE n \in d.ever
    <3>1. PICK c \in counting : d = [c EXCEPT !.ever = @ \cup {n}]
      BY <2>3
    <3>2. c \in Count /\ (c.got => c.active \in c.ever)
      BY <1>0 DEF KpiInv
    <3>3. d \in Count /\ d.got = c.got /\ d.active = c.active /\ d.ever = c.ever \cup {n}
      BY <2>2, <3>1, <3>2 DEF Count
    <3>4. QED
      BY <3>2, <3>3
  <2>5. QED
    BY <1>0, <2>2, <2>3, <2>4 DEF KpiInv
<1>3. CASE Growth!Counts /\ UNCHANGED <<kpis, listed>>
  <2>1. PICK n : n = Growth!Cardinality(listed)
    OBVIOUS
  <2>2. n = Cardinality(listed) /\ n \in Nat
    <3>1. PICK t : t = listed
      OBVIOUS
    <3>2. n = Cardinality(t)
      BY <2>1, <3>1, SameCount
    <3>3. QED
      BY <1>0, <3>1, <3>2, Counted
  <2>2a. n = Cardinality(listed')
    BY <1>3, <2>2
  <2>3. PICK d : d = [at |-> day + 1, got |-> FALSE, active |-> 0, ever |-> {n}]
    OBVIOUS
  <2>4. d \in Count /\ d.got = FALSE /\ n \in d.ever
    BY <1>0, <2>2, <2>3 DEF Count
  <2>5. counting' = counting \cup {d}
    BY <1>3, <2>1, <2>3 DEF Growth!Counts, Growth!Counting, Growth!Now
  <2>6. \A c \in counting : IF c.got THEN c.active \in c.ever ELSE n \in c.ever
    BY <2>2 DEF KpiInv
  <2>7. \A c \in counting' : IF c.got THEN c.active \in c.ever ELSE Cardinality(listed') \in c.ever
    BY <2>2a, <2>4, <2>5, <2>6
  <2>8. QED
    BY <1>0, <1>3, <2>4, <2>5, <2>7 DEF KpiInv
<1>4. CASE \E c \in counting : Growth!ComputeKpis(c)
  <2>1. PICK c \in counting : Growth!ComputeKpis(c)
    BY <1>4
  <2>2. PICK n : n = Growth!Cardinality(listed)
    OBVIOUS
  <2>3. n = Cardinality(listed) /\ n \in Nat
    <3>1. PICK t : t = listed
      OBVIOUS
    <3>2. n = Cardinality(t)
      BY <2>2, <3>1, SameCount
    <3>3. QED
      BY <1>0, <3>1, <3>2, Counted
  <2>4. PICK d : d = [c EXCEPT !.got = TRUE, !.active = n]
    OBVIOUS
  <2>5. counting' = (counting \ {c}) \cup {d} /\ UNCHANGED <<kpis, listed>> /\ ~c.got
    BY <2>1, <2>2, <2>4 DEF Growth!ComputeKpis, Growth!world
  <2>6. n \in c.ever
    BY <2>3, <2>5 DEF KpiInv
  <2>7. d \in Count /\ d.got = TRUE /\ d.active \in d.ever
    BY <1>0, <2>3, <2>4, <2>6 DEF Count
  <2>8. QED
    BY <1>0, <2>5, <2>7 DEF KpiInv
<1>5. CASE \E c \in counting : Growth!AppendKpis(c)
  <2>1. PICK c \in counting : Growth!AppendKpis(c)
    BY <1>5
  <2>2. c.active \in c.ever /\ c \in Count
    BY <1>0, <2>1 DEF KpiInv, Growth!AppendKpis
  <2>3. /\ kpis' = kpis \/ kpis' = [at |-> c.at, active |-> c.ever, shown |-> c.active]
        /\ counting' = counting \ {c} /\ listed' = listed
    BY <2>1 DEF Growth!AppendKpis, Growth!world
  <2>4. kpis' \in [at : Nat, active : SUBSET Nat, shown : Nat] /\ kpis'.shown \in kpis'.active
    BY <1>0, <2>2, <2>3 DEF Count, KpiInv
  <2>5. QED
    BY <1>0, <2>3, <2>4 DEF KpiInv
<1>6. CASE \E c \in counting : Growth!KpiFails(c)
  BY <1>0, <1>6 DEF Growth!KpiFails, Growth!world, KpiInv
<1>7. \/ UNCHANGED <<kpis, counting, listed>> \/ Growth!Sync \/ (Growth!Counts /\ UNCHANGED <<kpis, listed>>)
      \/ \E c \in counting : Growth!ComputeKpis(c) \/ Growth!AppendKpis(c) \/ Growth!KpiFails(c)
  <2>1. CASE UNCHANGED Growth!vars
    BY <2>1 DEF Growth!vars
  <2>2. CASE Growth!Next
    <3>1. CASE \E s \in world.shops :
                 Growth!Uninstall(s) \/ Growth!Reinstall(s) \/ Growth!SignalsChange(s) \/ Growth!Deliver(s)
      BY <3>1 DEF Growth!Uninstall, Growth!Reinstall, Growth!SignalsChange, Growth!Deliver, Growth!counts, Growth!world
    <3>2. CASE Growth!Sync \/ Growth!KpiRollup
      BY <3>2 DEF Growth!KpiRollup, Growth!world
    <3>3. CASE \E h \in uninstalls : Growth!FindLatest(h) \/ Growth!RecordUninstall(h) \/ Growth!HandlerDies(h)
      BY <3>3 DEF Growth!FindLatest, Growth!RecordUninstall, Growth!HandlerDies, Growth!counts, Growth!world
    <3>4. CASE \E j \in Jobs :
               \/ Growth!RunRollup(j) \/ Growth!GatherSignals(j) \/ Growth!FindPrior(j) \/ Growth!Persist(j)
               \/ Growth!FindChurned(j) \/ Growth!RecordReinstall(j) \/ Growth!AppendGauges(j) \/ Growth!RollupFails(j)
      BY <3>4 DEF Growth!RunRollup, Growth!GatherSignals, Growth!FindPrior, Growth!Persist, Growth!FindChurned,
           Growth!RecordReinstall, Growth!AppendGauges, Growth!RollupFails, Growth!counts, Growth!world
    <3>5. QED
      BY <2>2, <3>1, <3>2, <3>3, <3>4 DEF Growth!Next
  <2>3. QED
    BY <2>1, <2>2
<1>8. QED
  BY <1>1, <1>2, <1>3, <1>4, <1>5, <1>6, <1>7

\* The types, together.
LEMMA GrowthTypeStep ==
  ASSUME Growth!Stocked, GrowthTypes, ClockInv, KpiInv, [Growth!Next]_(Growth!vars)
  PROVE  GrowthTypes'
<1>1. /\ active' \subseteq Merchants /\ listed' \subseteq Merchants /\ deliverable' \subseteq Merchants
      /\ world' \in Growth!Stock /\ scores' \in [world'.shops -> Signals]
  BY WorldTypeStep
<1>2. /\ events' \in [Merchants -> Seq(Lifecycle)]
      /\ \A s \in Merchants : \A i \in DOMAIN events'[s] : events'[s][i].at <= day'
      /\ uninstalls' \subseteq Hook /\ day' \in Nat
  BY EventTypeStep
<1>3. /\ snaps' \in [Merchants -> Seq(Snapshot)]
      /\ \A s \in Merchants : \A i \in DOMAIN snaps'[s] : snaps'[s][i].at <= day'
      /\ banded' \in [Merchants -> Growth!Bands \cup {"none"}]
      /\ gauges' \in [at : Nat, churned : 0 .. Cardinality(Merchants), atRisk : 0 .. Cardinality(Merchants)]
  BY ScoreTypeStep
<1>4. /\ rolls' \in [Jobs -> Rolling]
      /\ \A j \in Jobs : Busy(j)' =>
           /\ rolls'[j].pc # "next" => rolls'[j].shop \notin rolls'[j].todo
           /\ rolls'[j].atRisk + Cardinality(Unscored(j)') <= Cardinality(Merchants)
  BY RollTypeStep
<1>5. kpis' \in [at : Nat, active : SUBSET Nat, shown : Nat] /\ counting' \subseteq Count
  BY KpiStep
<1>6. mixed' \in [raced : SUBSET Merchants, gone : SUBSET Merchants, overlapped : BOOLEAN]
  BY MixedTypeStep
<1>7. QED
  BY <1>1, <1>2, <1>3, <1>4, <1>5, <1>6 DEF GrowthTypes

-----------------------------------------------------------------------------
(* Growth: uninstalled and reinstalled by turns.                           *)

\* A call has a shop in hand.
Marked(h, s) == h.shop = s /\ h.pc = "write"
Back(j, s) == rolls[j].pc = "reinstall" /\ rolls[j].shop = s

\* Unless two calls had a shop in hand at once, one has it at most, and what it read of the shop is still so.
ByTurns(s) ==
  /\ Ordered(events[s])
  /\ \A i \in DOMAIN events[s] : events[s][i].kind = IF i % 2 = 1 THEN "UNINSTALL" ELSE "REINSTALL"
OneHand(s) ==
  /\ \A g, h \in uninstalls : Marked(g, s) /\ Marked(h, s) => g = h
  /\ \A i, j \in Jobs : Back(i, s) /\ Back(j, s) => i = j
  /\ \A h \in uninstalls, j \in Jobs : ~(Marked(h, s) /\ Back(j, s))
StillSo(s) ==
  /\ \A h \in uninstalls : Marked(h, s) => Growth!Latest(s).kind # "UNINSTALL" /\ Growth!Latest(s).at < h.now
  /\ \A j \in Jobs : Back(j, s) => Growth!Latest(s).kind = "UNINSTALL" /\ Growth!Latest(s).at < rolls[j].now

TurnInv == \A s \in Merchants \ mixed.raced : ByTurns(s) /\ OneHand(s) /\ StillSo(s)

\* No events, no calls.
LEMMA TurnInit == Growth!Init => TurnInv
<1>. SUFFICES ASSUME Growth!Init PROVE TurnInv
  OBVIOUS
<1>1. uninstalls = {} /\ (\A j \in Jobs : rolls[j].pc = "idle") /\ \A s \in Merchants : events[s] = <<>>
  BY DEF Growth!Init, Growth!Idle
<1>2. QED
  BY <1>1 DEF TurnInv, ByTurns, Ordered, OneHand, StillSo, Back

\* What is latest.
LEMMA LatestIs ==
  ASSUME GrowthTypes, NEW s \in Merchants
  PROVE  \/ events[s] = <<>> /\ Growth!Latest(s).kind = "none" /\ Growth!Latest(s).at = 0
         \/ events[s] # <<>> /\ \E i \in DOMAIN events[s] : /\ Growth!Latest(s) = events[s][i]
                                                          /\ \A j \in DOMAIN events[s] : events[s][j].at <= events[s][i].at
<1>1. /\ events[s] \in Seq(Lifecycle) /\ day \in Nat
      /\ \A i \in DOMAIN events[s] : events[s][i].at \in Nat /\ events[s][i].at <= day
  BY EventsTyped DEF GrowthTypes
<1>2. PICK none : none = [kind |-> "none", at |-> 0]
  OBVIOUS
<1>3. PICK n, rows1 : n = day /\ rows1 = events[s]
  OBVIOUS
<1>4. Growth!Latest(s) = Growth!Newest(rows1, none)
  BY <1>2, <1>3 DEF Growth!Latest
<1>5. /\ rows1 = <<>> => Growth!Newest(rows1, none) = none
      /\ rows1 # <<>> => \E i \in DOMAIN rows1 : /\ Growth!Newest(rows1, none) = rows1[i]
                                               /\ \A j \in DOMAIN rows1 : rows1[j].at <= rows1[i].at
  BY <1>1, <1>3, NewestIs
<1>6. QED
  BY <1>2, <1>3, <1>4, <1>5

\* What is observed as a race stays so.
LEMMA RacedGrows ==
  ASSUME GrowthTypes, [Growth!Next]_(Growth!vars)
  PROVE  mixed.raced \subseteq mixed'.raced /\ (mixed.overlapped => mixed'.overlapped)
<1>0. mixed \in [raced : SUBSET Merchants, gone : SUBSET Merchants, overlapped : BOOLEAN]
  BY DEF GrowthTypes
<1>1. \A s, n : mixed.raced \subseteq Growth!Race(s, n).raced /\ Growth!Race(s, n).overlapped = mixed.overlapped
  BY <1>0 DEF Growth!Race
<1>2. CASE \E h \in uninstalls : Growth!FindLatest(h)
  <2>1. PICK h \in uninstalls : Growth!FindLatest(h)
    BY <1>2
  <2>2. mixed' = mixed \/ mixed' = Growth!Race(h.shop, h.now)
    BY <2>1 DEF Growth!FindLatest
  <2>3. QED
    BY <1>1, <2>2
<1>3. CASE \E j \in Jobs : Growth!FindChurned(j) \/ Growth!RecordReinstall(j)
  <2>1. PICK j \in Jobs : Growth!FindChurned(j) \/ Growth!RecordReinstall(j)
    BY <1>3
  <2>2. \/ mixed' = mixed \/ mixed' = Growth!Race(rolls[j].shop, rolls[j].now)
        \/ mixed' = [mixed EXCEPT !.gone = @ \cup {rolls[j].shop}]
    BY <2>1 DEF Growth!FindChurned, Growth!RecordReinstall
  <2>3. QED
    BY <1>0, <1>1, <2>2
<1>4. CASE \E j \in Jobs : Growth!RunRollup(j)
  BY <1>0, <1>4 DEF Growth!RunRollup
<1>5. QED
  BY <1>2, <1>3, <1>4, GrowthMoves

\* A call that takes a shop in hand has read it last, and no other has it.
LEMMA NewlyMarked ==
  ASSUME GrowthTypes, ClockInv, [Growth!Next]_(Growth!vars), NEW s \in Merchants, s \notin mixed'.raced,
         NEW g \in uninstalls', g \notin uninstalls, Marked(g, s)
  PROVE  /\ \A h \in uninstalls : ~Marked(h, s)
         /\ \A j \in Jobs : ~Back(j, s)
         /\ \A h \in uninstalls' : h \in uninstalls \/ h = g
         /\ UNCHANGED <<events, rolls>>
         /\ Growth!Latest(s).kind # "UNINSTALL" /\ Growth!Latest(s).at < g.now
<1>1. PICK h \in uninstalls :
        /\ Growth!FindLatest(h) /\ h.pc = "read" /\ g.pc = "write" /\ g.now = h.now /\ g.shop = h.shop
        /\ uninstalls' = (uninstalls \ {h}) \cup {g} /\ UNCHANGED <<events, rolls, day>>
        /\ Growth!Latest(h.shop).kind # "UNINSTALL" /\ mixed' = Growth!Race(h.shop, h.now)
  BY HooksGo DEF Marked
<1>2. h.shop = s
  BY <1>1 DEF Marked
<1>3. ~Growth!InHand(s) /\ ~(h.now < Growth!Latest(s).at)
  <2>1. mixed \in [raced : SUBSET Merchants, gone : SUBSET Merchants, overlapped : BOOLEAN]
    BY DEF GrowthTypes
  <2>2. QED
    BY <1>1, <1>2, <2>1 DEF Growth!Race
<1>4. Growth!Latest(s).at < h.now
  <2>1. h.now \in Nat \ {0}
    BY DEF GrowthTypes, Hook
  <2>2. \A i \in DOMAIN events[s] : events[s][i].at # h.now /\ events[s][i].at \in Nat
    BY EventsTyped DEF ClockInv, HookOwn
  <2>3. QED
    BY <1>3, <2>1, <2>2, LatestIs
<1>5. (\A f \in uninstalls : ~Marked(f, s)) /\ \A j \in Jobs : ~Back(j, s)
  BY <1>3 DEF Growth!InHand, Marked, Back
<1>6. QED
  BY <1>1, <1>2, <1>4, <1>5

\* The same of a rollup.
LEMMA NewlyBack ==
  ASSUME GrowthTypes, ClockInv, [Growth!Next]_(Growth!vars), NEW s \in Merchants, s \notin mixed'.raced,
         NEW j \in Jobs, Back(j, s)', ~Back(j, s)
  PROVE  /\ \A h \in uninstalls : ~Marked(h, s)
         /\ \A i \in Jobs : ~Back(i, s) /\ (i # j => rolls'[i] = rolls[i])
         /\ UNCHANGED <<events, uninstalls>>
         /\ Growth!Latest(s).kind = "UNINSTALL" /\ Growth!Latest(s).at < rolls'[j].now
<1>1. Busy(j)' /\ rolls'[j].pc = "reinstall" /\ rolls'[j].shop = s
  BY DEF Back, Busy
<1>2. /\ Busy(j) /\ rolls'[j].now = rolls[j].now /\ (Growth!FindChurned(j) \/ Growth!RecordReinstall(j))
      /\ rolls[j].pc # "next" /\ rolls'[j].shop = rolls[j].shop
  BY <1>1, RollGoes DEF Back
<1>3. Growth!FindChurned(j)
  <2>1. ~Growth!RecordReinstall(j)
    BY <1>1, UnderwayTyped DEF Turns
  <2>2. QED
    BY <1>2, <2>1
<1>4. /\ Growth!Latest(s).kind = "UNINSTALL" /\ mixed' = Growth!Race(s, rolls[j].now) /\ UNCHANGED <<events, uninstalls>>
      /\ \A i \in Jobs : i # j => rolls'[i] = rolls[i]
  <2>1. rolls \in [Jobs -> Rolling] /\ rolls[j] \in Underway
    BY <1>3, UnderwayTyped DEF GrowthTypes
  <2>2. PICK q : q = rolls[j]
    OBVIOUS
  <2>3. PICK p : p = IF Growth!Latest(s).kind = "UNINSTALL" THEN "reinstall" ELSE "next"
    OBVIOUS
  <2>4. rolls' = [rolls EXCEPT ![j] = [q EXCEPT !.pc = p]]
    BY <1>1, <1>2, <1>3, <2>2, <2>3 DEF Growth!FindChurned
  <2>5. p = "reinstall"
    BY <1>1, <2>1, <2>2, <2>4 DEF Underway
  <2>6. Growth!Latest(s).kind = "UNINSTALL" /\ \A i \in Jobs : i # j => rolls'[i] = rolls[i]
    BY <2>1, <2>3, <2>4, <2>5
  <2>7. QED
    BY <1>1, <1>2, <1>3, <2>6 DEF Growth!FindChurned
<1>5. ~Growth!InHand(s) /\ ~(rolls[j].now < Growth!Latest(s).at)
  <2>1. mixed \in [raced : SUBSET Merchants, gone : SUBSET Merchants, overlapped : BOOLEAN]
    BY DEF GrowthTypes
  <2>2. QED
    BY <1>4, <2>1 DEF Growth!Race
<1>6. Growth!Latest(s).at < rolls[j].now
  <2>1. rolls[j].now \in Nat \ {0}
    BY <1>2, BusyTyped
  <2>2. s \in Owed(j)
    BY <1>1, <1>2 DEF Owed
  <2>3. \A i \in DOMAIN events[s] : events[s][i].at # rolls[j].now /\ events[s][i].at \in Nat
    BY <1>2, <2>2, EventsTyped DEF ClockInv, RollOwn
  <2>4. QED
    BY <1>5, <2>1, <2>3, LatestIs
<1>7. (\A f \in uninstalls : ~Marked(f, s)) /\ \A i \in Jobs : ~Back(i, s)
  BY <1>5 DEF Growth!InHand, Marked, Back
<1>8. QED
  BY <1>2, <1>4, <1>6, <1>7

\* An event of the other kind, later than the latest, goes on by turns.
LEMMA NextTurn ==
  ASSUME GrowthTypes, NEW s \in Merchants, ByTurns(s), NEW e \in Lifecycle, Growth!Latest(s).at < e.at,
         e.kind = IF Growth!Latest(s).kind = "UNINSTALL" THEN "REINSTALL" ELSE "UNINSTALL",
         events'[s] = Append(events[s], e)
  PROVE  ByTurns(s)'
<1>1. PICK rows1, none, n, l : rows1 = events[s] /\ none = [kind |-> "none", at |-> 0] /\ n = day /\ l = Len(events[s])
  OBVIOUS
<1>2. /\ rows1 \in Seq(Lifecycle) /\ n \in Nat
      /\ \A i \in DOMAIN rows1 : rows1[i].at \in Nat /\ rows1[i].at <= n
  BY <1>1, EventsTyped DEF GrowthTypes
<1>3. /\ Ordered(rows1)
      /\ \A i \in DOMAIN rows1 : rows1[i].kind = IF i % 2 = 1 THEN "UNINSTALL" ELSE "REINSTALL"
  BY <1>1 DEF ByTurns
<1>4. e.at \in Nat
  BY DEF Lifecycle
<1>5. \A i \in DOMAIN rows1 : rows1[i].at \in Nat /\ rows1[i].at < e.at
  BY <1>1, <1>2, <1>4, LatestIs
<1>6. PICK m \in Nat : e.at <= m
  BY <1>4
<1>7. Ordered(Append(rows1, e)) /\ Growth!Newest(Append(rows1, e), none) = e
  BY <1>2, <1>3, <1>4, <1>5, <1>6, Appended
<1>8. /\ l \in Nat /\ DOMAIN rows1 = 1 .. l
      /\ e.kind = IF (l + 1) % 2 = 1 THEN "UNINSTALL" ELSE "REINSTALL"
  <2>1. l \in Nat /\ DOMAIN rows1 = 1 .. l /\ (rows1 = <<>> => l = 0) /\ l = Len(rows1)
    BY <1>1, <1>2, LenProperties, EmptySeq
  <2>2. (l + 1) % 2 = IF l % 2 = 1 THEN 0 ELSE 1
    BY <2>1
  <2>3. CASE rows1 = <<>>
    <3>1. Growth!Latest(s).kind = "none" /\ l = 0
      BY <1>1, <2>1, <2>3, LatestIs
    <3>2. QED
      BY <2>1, <2>2, <3>1
  <2>4. CASE rows1 # <<>>
    <3>1. l \in DOMAIN rows1 /\ Growth!Newest(rows1, none) = rows1[l]
      BY <1>2, <1>3, <2>1, <2>4, NewestIsLast
    <3>2. Growth!Latest(s) = rows1[l]
      BY <1>1, <3>1 DEF Growth!Latest
    <3>3. Growth!Latest(s).kind = IF l % 2 = 1 THEN "UNINSTALL" ELSE "REINSTALL"
      BY <1>3, <3>1, <3>2
    <3>4. QED
      BY <2>1, <2>2, <3>3
  <2>5. QED
    BY <2>1, <2>3, <2>4
<1>9. PICK more : more = Append(rows1, e)
  OBVIOUS
<1>10. DOMAIN more = 1 .. l + 1 /\ more[l + 1] = e /\ \A i \in 1 .. l : more[i] = rows1[i]
  <2>1. /\ more \in Seq(Lifecycle) /\ Len(more) = Len(rows1) + 1 /\ \A i \in 1 .. Len(rows1) : more[i] = rows1[i]
        /\ more[Len(rows1) + 1] = e
    BY <1>2, <1>9, AppendProperties
  <2>2. Len(rows1) = l
    BY <1>1
  <2>3. QED
    BY <2>1, <2>2, LenProperties
<1>11. ASSUME NEW i \in DOMAIN more PROVE more[i].kind = IF i % 2 = 1 THEN "UNINSTALL" ELSE "REINSTALL"
  <2>1. CASE i = l + 1
    BY <1>8, <1>10, <2>1
  <2>2. CASE i \in 1 .. l
    BY <1>3, <1>8, <1>10, <2>2
  <2>3. QED
    BY <1>8, <1>10, <2>1, <2>2
<1>12. events'[s] = more /\ Ordered(more)
  BY <1>1, <1>7, <1>9
<1>13. QED
  BY <1>11, <1>12 DEF ByTurns

\* Each event is of the other kind: the call that writes it has read the latest, and no other had the shop in hand.
LEMMA TurnStep ==
  ASSUME GrowthTypes, ClockInv, TurnInv, [Growth!Next]_(Growth!vars)
  PROVE  TurnInv'
<1>. SUFFICES ASSUME NEW s \in Merchants, s \notin mixed'.raced PROVE ByTurns(s)' /\ OneHand(s)' /\ StillSo(s)'
  BY DEF TurnInv
<1>1. ByTurns(s) /\ OneHand(s) /\ StillSo(s)
  BY RacedGrows DEF TurnInv
<1>2. CASE events'[s] = events[s]
  <2>1. ByTurns(s)' /\ Growth!Latest(s)' = Growth!Latest(s)
    BY <1>1, <1>2 DEF ByTurns, Growth!Latest
  <2>2. PICK k, n : k = Growth!Latest(s).kind /\ n = Growth!Latest(s).at
    OBVIOUS
  <2>3. Growth!Latest(s)'.kind = k /\ Growth!Latest(s)'.at = n
    BY <2>1, <2>2
  <2>4. ASSUME NEW g \in uninstalls', Marked(g, s) PROVE k # "UNINSTALL" /\ n < g.now
    <3>1. CASE g \in uninstalls
      BY <1>1, <2>2, <2>4, <3>1 DEF StillSo
    <3>2. CASE g \notin uninstalls
      BY <2>2, <2>4, <3>2, NewlyMarked
    <3>3. QED
      BY <3>1, <3>2
  <2>5. ASSUME NEW j \in Jobs, Back(j, s)' PROVE k = "UNINSTALL" /\ n < rolls'[j].now
    <3>1. CASE Back(j, s)
      <4>1. Busy(j)' /\ Busy(j)
        BY <2>5, <3>1 DEF Back, Busy
      <4>2. rolls'[j].now = rolls[j].now
        BY <4>1, RollGoes
      <4>3. QED
        BY <1>1, <2>2, <3>1, <4>2 DEF StillSo
    <3>2. CASE ~Back(j, s)
      BY <2>2, <2>5, <3>2, NewlyBack
    <3>3. QED
      BY <3>1, <3>2
  <2>6. ASSUME NEW g \in uninstalls', NEW h \in uninstalls', Marked(g, s), Marked(h, s) PROVE g = h
    <3>1. CASE g \in uninstalls /\ h \in uninstalls
      BY <1>1, <2>6, <3>1 DEF OneHand
    <3>2. CASE g \notin uninstalls
      BY <2>6, <3>2, NewlyMarked
    <3>3. CASE h \notin uninstalls
      BY <2>6, <3>3, NewlyMarked
    <3>4. QED
      BY <3>1, <3>2, <3>3
  <2>7. ASSUME NEW i \in Jobs, NEW j \in Jobs, Back(i, s)', Back(j, s)' PROVE i = j
    <3>1. CASE Back(i, s) /\ Back(j, s)
      BY <1>1, <3>1 DEF OneHand
    <3>2. CASE ~Back(i, s)
      <4>1. ~Back(j, s) /\ (j # i => rolls'[j] = rolls[j])
        BY <2>7, <3>2, NewlyBack
      <4>2. QED
        BY <2>7, <4>1 DEF Back
    <3>3. CASE ~Back(j, s)
      <4>1. ~Back(i, s) /\ (i # j => rolls'[i] = rolls[i])
        BY <2>7, <3>3, NewlyBack
      <4>2. QED
        BY <2>7, <4>1 DEF Back
    <3>4. QED
      BY <3>1, <3>2, <3>3
  <2>8. ASSUME NEW g \in uninstalls', NEW j \in Jobs, Marked(g, s), Back(j, s)' PROVE FALSE
    <3>1. CASE g \in uninstalls /\ Back(j, s)
      BY <1>1, <2>8, <3>1 DEF OneHand
    <3>2. CASE g \notin uninstalls
      <4>1. ~Back(j, s) /\ rolls' = rolls
        BY <2>8, <3>2, NewlyMarked
      <4>2. QED
        BY <2>8, <4>1 DEF Back
    <3>3. CASE ~Back(j, s)
      <4>1. uninstalls' = uninstalls /\ \A h \in uninstalls : ~Marked(h, s)
        BY <2>8, <3>3, NewlyBack
      <4>2. QED
        BY <2>8, <4>1
    <3>4. QED
      BY <3>1, <3>2, <3>3
  <2>9. OneHand(s)'
    BY <2>6, <2>7, <2>8 DEF OneHand, Marked
  <2>10. StillSo(s)'
    BY <2>3, <2>4, <2>5 DEF StillSo, Marked
  <2>11. QED
    BY <2>1, <2>9, <2>10
<1>3. CASE \E h \in uninstalls : Growth!RecordUninstall(h) /\ h.shop = s
  <2>1. PICK h \in uninstalls : Growth!RecordUninstall(h) /\ h.shop = s
    BY <1>3
  <2>2. PICK e \in Lifecycle : /\ e.kind = "UNINSTALL" /\ e.at = h.now /\ h.shop \in Merchants
                               /\ events' = [events EXCEPT ![h.shop] = Append(events[h.shop], e)]
                               /\ h.pc = "write" /\ uninstalls' = uninstalls \ {h}
    BY <2>1, UninstalledTyped
  <2>3. Marked(h, s) /\ events'[s] = Append(events[s], e) /\ rolls' = rolls
    BY <2>1, <2>2, RecordedTyped DEF Marked, Growth!RecordUninstall
  <2>4. ByTurns(s)'
    BY <1>1, <2>2, <2>3, NextTurn DEF StillSo
  <2>5. (\A g \in uninstalls' : ~Marked(g, s)) /\ \A j \in Jobs : ~Back(j, s)'
    BY <1>1, <2>2, <2>3 DEF OneHand, Back
  <2>6. QED
    BY <2>4, <2>5 DEF OneHand, StillSo, Marked
<1>4. CASE \E j \in Jobs : Growth!RecordReinstall(j) /\ rolls[j].shop = s
  <2>1. PICK j \in Jobs : Growth!RecordReinstall(j) /\ rolls[j].shop = s
    BY <1>4
  <2>2. PICK e \in Lifecycle : /\ e.kind = "REINSTALL" /\ e.at = rolls[j].now /\ rolls[j].shop \in Merchants
                               /\ events' = [events EXCEPT ![rolls[j].shop] = Append(events[rolls[j].shop], e)]
                               /\ rolls[j].pc = "reinstall" /\ UNCHANGED uninstalls
    BY <2>1, ReinstalledTyped
  <2>3. Back(j, s) /\ events'[s] = Append(events[s], e)
    BY <2>1, <2>2, RecordedTyped DEF Back
  <2>4. ByTurns(s)'
    BY <1>1, <2>2, <2>3, NextTurn DEF StillSo
  <2>5. rolls'[j].pc = "next" /\ \A i \in Jobs : i # j => rolls'[i] = rolls[i]
    BY <2>1, UnderwayTyped DEF Turns
  <2>6. (\A g \in uninstalls' : ~Marked(g, s)) /\ \A i \in Jobs : ~Back(i, s)'
    BY <1>1, <2>2, <2>3, <2>5 DEF OneHand, Back
  <2>7. QED
    BY <2>4, <2>6 DEF OneHand, StillSo, Marked
<1>5. QED
  <2>1. CASE events' = events
    BY <1>2, <2>1
  <2>2. CASE \E h \in uninstalls : Growth!RecordUninstall(h)
    <3>1. PICK h \in uninstalls : Growth!RecordUninstall(h)
      BY <2>2
    <3>2. CASE h.shop # s
      BY <1>2, <3>1, <3>2, UninstalledTyped, RecordedTyped
    <3>3. QED
      BY <1>3, <3>1, <3>2
  <2>3. CASE \E j \in Jobs : Growth!RecordReinstall(j)
    <3>1. PICK j \in Jobs : Growth!RecordReinstall(j)
      BY <2>3
    <3>2. CASE rolls[j].shop # s
      BY <1>2, <3>1, <3>2, ReinstalledTyped, RecordedTyped
    <3>3. QED
      BY <1>4, <3>1, <3>2
  <2>4. QED
    BY <2>1, <2>2, <2>3, GrowthMoves

-----------------------------------------------------------------------------
(* Growth: while no two rollups overlap, scores, audit rows and gauges     *)
(* agree.                                                                  *)

NewestBand(s) == Growth!Newest(snaps[s], [band |-> "none", at |-> 0]).band
AtRiskAt(n) == {s \in Merchants : \E i \in DOMAIN snaps[s] : snaps[s][i].at = n /\ snaps[s][i].band # "HEALTHY"}

Banded(s) == Ordered(snaps[s]) /\ (snaps[s] # <<>> => banded[s] = NewestBand(s))
Gauged == gauges.at <= day /\ (gauges.at # 0 => gauges.atRisk = Cardinality(AtRiskAt(gauges.at)))

\* What a rollup has stored so far, and counted.
Scoring(j) ==
  /\ gauges.at < rolls[j].now
  /\ \A s \in Merchants : \A i \in DOMAIN snaps[s] : snaps[s][i].at <= rolls[j].now
  /\ \A s \in Unscored(j) : \A i \in DOMAIN snaps[s] : snaps[s][i].at # rolls[j].now
  /\ rolls[j].pc = "persist" => rolls[j].prior = NewestBand(rolls[j].shop)
  /\ rolls[j].atRisk = Cardinality(AtRiskAt(rolls[j].now))

ScoreInv ==
  ~mixed.overlapped =>
    /\ \A i, j \in Jobs : Busy(i) /\ Busy(j) => i = j
    /\ \A s \in Merchants : Banded(s)
    /\ Gauged
    /\ \A j \in Jobs : Busy(j) => Scoring(j)

\* Nothing is scored.
LEMMA ScoreInit == Growth!Init => ScoreInv
<1>. SUFFICES ASSUME Growth!Init PROVE ScoreInv
  OBVIOUS
<1>1. (\A j \in Jobs : ~Busy(j)) /\ \A s \in Merchants : snaps[s] = <<>>
  BY DEF Growth!Init, Growth!Idle, Busy
<1>2. gauges.at = 0 /\ day = 0
  BY DEF Growth!Init
<1>3. QED
  BY <1>1, <1>2 DEF ScoreInv, Banded, Ordered, Gauged

\* Who is at risk by the snapshots of a moment, when one more is stored.
LEMMA AtRiskGrows ==
  ASSUME NEW j \in Jobs, NEW s \in Merchants, NEW e \in Snapshot, KeepsScore(j, s, e)
  PROVE  /\ \A n : n # e.at => AtRiskAt(n)' = AtRiskAt(n)
         /\ AtRiskAt(e.at)' = AtRiskAt(e.at) \cup {t \in {s} : e.band # "HEALTHY"}
<1>1. /\ \A t \in Merchants : t # s => snaps'[t] = snaps[t]
      /\ \A i \in DOMAIN snaps'[s] : (i \in DOMAIN snaps[s] /\ snaps'[s][i] = snaps[s][i]) \/ snaps'[s][i] = e
      /\ \A i \in DOMAIN snaps[s] : i \in DOMAIN snaps'[s] /\ snaps'[s][i] = snaps[s][i]
      /\ \E i \in DOMAIN snaps'[s] : snaps'[s][i] = e
  BY DEF KeepsScore
<1>2. ASSUME NEW n, n # e.at PROVE AtRiskAt(n)' = AtRiskAt(n)
  BY <1>1, <1>2 DEF AtRiskAt
<1>3. AtRiskAt(e.at)' = AtRiskAt(e.at) \cup {t \in {s} : e.band # "HEALTHY"}
  BY <1>1 DEF AtRiskAt
<1>4. QED
  BY <1>2, <1>3

\* A rollup that stores a snapshot.
LEMMA ScorePersist ==
  ASSUME Growth!Stocked, GrowthTypes, ClockInv, ScoreInv, [Growth!Next]_(Growth!vars), ~mixed.overlapped,
         NEW j \in Jobs, Growth!Persist(j)
  PROVE  /\ \A t \in Merchants : Banded(t)'
         /\ Gauged' /\ Scoring(j)'
<1>1. Busy(j) /\ rolls[j].pc = "persist" /\ gauges' = gauges /\ day' = day
  BY DEF Growth!Persist, Busy
<1>2. Scoring(j) /\ Gauged /\ \A t \in Merchants : Banded(t)
  BY <1>1 DEF ScoreInv
<1>3. PICK e \in Snapshot, s \in Merchants : KeepsScore(j, s, e)
  BY PersistedTyped
<1>4. /\ s = rolls[j].shop /\ e.band = rolls[j].band /\ e.at = rolls[j].now
      /\ snaps'[s] = Append(snaps[s], e)
      /\ \A t \in Merchants : t # s => snaps'[t] = snaps[t] /\ banded'[t] = banded[t]
      /\ \A i \in DOMAIN snaps'[s] : (i \in DOMAIN snaps[s] /\ snaps'[s][i] = snaps[s][i]) \/ snaps'[s][i] = e
      /\ banded'[s] = IF rolls[j].prior # e.band THEN e.band ELSE banded[s]
  BY <1>3 DEF KeepsScore
<1>5. /\ Unscored(j)' = rolls[j].todo /\ Unscored(j) = rolls[j].todo \cup {rolls[j].shop}
      /\ rolls'[j].pc = "lookup" /\ rolls'[j].now = rolls[j].now
      /\ rolls'[j].atRisk = rolls[j].atRisk + (IF rolls[j].band # "HEALTHY" THEN 1 ELSE 0)
  <2>1. /\ rolls'[j].pc = "lookup" /\ rolls'[j].now = rolls[j].now /\ rolls'[j].todo = rolls[j].todo
        /\ rolls'[j].atRisk = rolls[j].atRisk + (IF rolls[j].band # "HEALTHY" THEN 1 ELSE 0)
    BY UnderwayTyped DEF Turns
  <2>2. Unscored(j)' = rolls[j].todo
    BY <2>1 DEF Unscored
  <2>3. Unscored(j) = rolls[j].todo \cup {rolls[j].shop}
    BY <1>1, <1>3, <1>4 DEF Unscored
  <2>4. QED
    BY <2>1, <2>2, <2>3
<1>6. s \notin rolls[j].todo /\ rolls[j].todo \subseteq Merchants /\ rolls[j].now \in Nat /\ rolls[j].atRisk \in Nat
  BY <1>1, <1>4, BusyTyped DEF GrowthTypes
<1>7. PICK old, none, n : old = snaps[s] /\ none = [band |-> "none", at |-> 0] /\ n = rolls[j].now
  OBVIOUS
<1>8. /\ old \in Seq(Snapshot) /\ \A i \in DOMAIN old : old[i].at \in Nat /\ old[i].at < n
      /\ n \in Nat /\ e.at = n
  <2>1. s \in Unscored(j)
    BY <1>4, <1>5
  <2>2. \A i \in DOMAIN snaps[s] : snaps[s][i].at <= rolls[j].now /\ snaps[s][i].at # rolls[j].now
    BY <1>2, <2>1 DEF Scoring
  <2>3. QED
    BY <1>4, <1>6, <1>7, <2>2, SnapsTyped
<1>9. Ordered(Append(old, e)) /\ Growth!Newest(Append(old, e), none) = e
  <2>1. Ordered(old)
    BY <1>2, <1>7 DEF Banded
  <2>2. PICK m \in Nat : e.at <= m
    BY <1>8
  <2>3. QED
    BY <1>8, <2>1, <2>2, Appended
<1>10. Ordered(snaps'[s]) /\ NewestBand(s)' = e.band
  BY <1>4, <1>7, <1>9 DEF NewestBand
<1>11. banded'[s] = e.band
  <2>1. CASE rolls[j].prior # e.band
    BY <1>4, <2>1
  <2>2. CASE rolls[j].prior = e.band
    <3>1. NewestBand(s) = e.band
      BY <1>1, <1>2, <1>4, <2>2 DEF Scoring
    <3>2. e.band # "none"
      BY DEF Snapshot, Growth!Bands
    <3>3. snaps[s] # <<>>
      <4>1. snaps[s] = <<>> => Growth!Newest(snaps[s], none) = none
        BY DEF Growth!Newest
      <4>2. NewestBand(s) = Growth!Newest(snaps[s], none).band /\ none.band = "none"
        BY <1>7 DEF NewestBand
      <4>3. QED
        BY <3>1, <3>2, <4>1, <4>2
    <3>4. QED
      BY <1>2, <1>4, <2>2, <3>1, <3>3 DEF Banded
  <2>3. QED
    BY <2>1, <2>2
<1>12. ASSUME NEW t \in Merchants PROVE Banded(t)'
  <2>1. CASE t = s
    BY <1>10, <1>11, <2>1 DEF Banded
  <2>2. CASE t # s
    <3>1. snaps'[t] = snaps[t] /\ banded'[t] = banded[t] /\ Banded(t)
      BY <1>2, <1>4, <2>2
    <3>2. NewestBand(t)' = NewestBand(t)
      BY <3>1 DEF NewestBand
    <3>3. QED
      BY <3>1, <3>2 DEF Banded
  <2>3. QED
    BY <2>1, <2>2
<1>13. Gauged'
  <2>1. gauges.at < n /\ gauges.at \in Nat
    BY <1>2, <1>7 DEF Scoring, GrowthTypes
  <2>2. PICK g : g = gauges.at
    OBVIOUS
  <2>3. g # e.at
    BY <1>8, <2>1, <2>2
  <2>4. AtRiskAt(g)' = AtRiskAt(g)
    BY <1>3, <2>3, AtRiskGrows
  <2>5. gauges'.at = g
    BY <1>1, <2>2
  <2>6. AtRiskAt(gauges.at)' = AtRiskAt(gauges.at)
    BY <2>2, <2>4, <2>5 DEF AtRiskAt
  <2>7. QED
    BY <1>1, <1>2, <2>6 DEF Gauged
<1>14. rolls'[j].atRisk = Cardinality(AtRiskAt(n)')
  <2>1. AtRiskAt(n)' = AtRiskAt(n) \cup {t \in {s} : e.band # "HEALTHY"}
    <3>1. AtRiskAt(e.at)' = AtRiskAt(e.at) \cup {t \in {s} : e.band # "HEALTHY"}
      BY <1>3, AtRiskGrows
    <3>2. QED
      BY <1>8, <3>1
  <2>2. PICK risky, more : risky = AtRiskAt(n) /\ more = AtRiskAt(n)'
    OBVIOUS
  <2>3. s \notin risky /\ risky \subseteq Merchants
    BY <1>7, <1>8, <2>2 DEF AtRiskAt
  <2>4. IsFiniteSet(risky) /\ Cardinality(risky) \in Nat
    BY <2>3, Counted
  <2>5. rolls[j].atRisk = Cardinality(risky)
    BY <1>2, <1>7, <2>2 DEF Scoring
  <2>6. CASE e.band # "HEALTHY"
    <3>1. more = risky \cup {s}
      BY <2>1, <2>2, <2>6
    <3>2. Cardinality(more) = Cardinality(risky) + 1
      BY <2>3, <2>4, <3>1, FS_AddElement
    <3>3. QED
      BY <1>4, <1>5, <2>2, <2>5, <2>6, <3>2
  <2>7. CASE e.band = "HEALTHY"
    <3>1. more = risky
      BY <2>1, <2>2, <2>7
    <3>2. QED
      BY <1>4, <1>5, <2>2, <2>4, <2>5, <2>7, <3>1
  <2>8. QED
    BY <2>6, <2>7
<1>15. Scoring(j)'
  <2>1. gauges'.at < rolls'[j].now
    BY <1>1, <1>2, <1>5 DEF Scoring
  <2>2. ASSUME NEW t \in Merchants, NEW i \in DOMAIN snaps'[t] PROVE snaps'[t][i].at <= rolls'[j].now
    <3>1. CASE i \in DOMAIN snaps[t] /\ snaps'[t][i] = snaps[t][i]
      BY <1>2, <1>5, <3>1 DEF Scoring
    <3>2. CASE snaps'[t][i] = e
      BY <1>5, <1>7, <1>8, <3>2
    <3>3. QED
      BY <1>4, <2>2, <3>1, <3>2
  <2>3. ASSUME NEW t \in Unscored(j)', NEW i \in DOMAIN snaps'[t] PROVE snaps'[t][i].at # rolls'[j].now
    <3>1. t \in Merchants /\ t # s /\ t \in Unscored(j)
      BY <1>5, <1>6, <2>3
    <3>2. QED
      BY <1>2, <1>4, <1>5, <2>3, <3>1 DEF Scoring
  <2>4. AtRiskAt(rolls[j].now)' = AtRiskAt(n)'
    BY <1>5, <1>7 DEF AtRiskAt
  <2>5. rolls'[j].pc # "persist"
    BY <1>5
  <2>6. QED
    BY <1>14, <2>1, <2>2, <2>3, <2>4, <2>5 DEF Scoring
<1>16. QED
  BY <1>12, <1>13, <1>15

\* A rollup that starts, with nothing of its moment stored.
LEMMA ScoreStart ==
  ASSUME Growth!Stocked, GrowthTypes, ScoreInv, [Growth!Next]_(Growth!vars), ~mixed'.overlapped,
         NEW j \in Jobs, Growth!RunRollup(j)
  PROVE  /\ Scoring(j)' /\ UNCHANGED <<snaps, banded, gauges>> /\ day' = day + 1
         /\ \A i \in Jobs : Busy(i)' => i = j
<1>1. UNCHANGED <<snaps, banded, gauges>> /\ day' = day + 1
  BY DEF Growth!RunRollup, Growth!scores, Growth!Now
<1>2. PICK r \in Rolling : Turns(j, r) /\ r.pc = "next" /\ r.now = day + 1 /\ r.todo = world.shops /\ r.atRisk = 0
  BY StartedTyped
<1>3. \A i \in Jobs : rolls[i].pc = "idle"
  <2>1. mixed \in [raced : SUBSET Merchants, gone : SUBSET Merchants, overlapped : BOOLEAN]
    BY DEF GrowthTypes
  <2>2. PICK b : b = (\E i \in Jobs : rolls[i].pc # "idle")
    OBVIOUS
  <2>3. mixed' = [mixed EXCEPT !.overlapped = @ \/ b]
    BY <2>2 DEF Growth!RunRollup
  <2>4. ~b
    BY <2>1, <2>3
  <2>5. QED
    BY <2>2, <2>4
<1>4. \A i \in Jobs : Busy(i)' => i = j
  BY <1>2, <1>3 DEF Turns, Busy
<1>5. Scoring(j)'
  <2>1. /\ rolls'[j].now = day + 1 /\ rolls'[j].pc = "next" /\ rolls'[j].atRisk = 0 /\ day \in Nat
        /\ rolls'[j].todo \subseteq Merchants
    BY <1>2 DEF Turns, GrowthTypes, Growth!Stock
  <2>2. gauges'.at < rolls'[j].now
    <3>1. ~mixed.overlapped
      BY RacedGrows
    <3>2. gauges.at <= day /\ gauges.at \in Nat
      BY <3>1 DEF ScoreInv, Gauged, GrowthTypes
    <3>3. QED
      BY <1>1, <2>1, <3>2
  <2>3. \A t \in Merchants : \A i \in DOMAIN snaps[t] : snaps[t][i].at < day + 1 /\ snaps[t][i].at \in Nat
    BY <2>1, SnapsTyped
  <2>4. \A t \in Merchants : \A i \in DOMAIN snaps'[t] : snaps'[t][i].at <= rolls'[j].now /\ snaps'[t][i].at # rolls'[j].now
    BY <1>1, <2>1, <2>3
  <2>5. AtRiskAt(rolls[j].now)' = {}
    BY <2>4 DEF AtRiskAt
  <2>6. Unscored(j)' \subseteq Merchants
    BY <2>1 DEF Unscored
  <2>7. QED
    BY <2>1, <2>2, <2>4, <2>5, <2>6, FS_EmptySet DEF Scoring
<1>6. QED
  BY <1>1, <1>4, <1>5

\* Only one rollup stores, counts and closes; the others keep what is stored.
LEMMA ScoreStep ==
  ASSUME Growth!Stocked, GrowthTypes, ClockInv, ScoreInv, [Growth!Next]_(Growth!vars)
  PROVE  ScoreInv'
<1>. SUFFICES ASSUME ~mixed'.overlapped
              PROVE  /\ \A i, j \in Jobs : Busy(i)' /\ Busy(j)' => i = j
                     /\ \A s \in Merchants : Banded(s)'
                     /\ Gauged'
                     /\ \A j \in Jobs : Busy(j)' => Scoring(j)'
  BY DEF ScoreInv
<1>1. ~mixed.overlapped
  BY RacedGrows
<1>2. /\ \A i, j \in Jobs : Busy(i) /\ Busy(j) => i = j
      /\ \A s \in Merchants : Banded(s)
      /\ Gauged
      /\ \A j \in Jobs : Busy(j) => Scoring(j)
  BY <1>1 DEF ScoreInv
<1>3. day \in Nat /\ day' \in Nat /\ day <= day' /\ gauges.at \in Nat
  BY GrowthMoves DEF GrowthTypes
<1>4. ASSUME snaps' = snaps, banded' = banded PROVE \A s \in Merchants : Banded(s)'
  <2>1. ASSUME NEW s \in Merchants PROVE Banded(s)'
    <3>1. NewestBand(s)' = NewestBand(s) /\ Banded(s)
      BY <1>2, <1>4 DEF NewestBand
    <3>2. QED
      BY <1>4, <3>1 DEF Banded
  <2>2. QED
    BY <2>1
<1>5. ASSUME snaps' = snaps, gauges' = gauges PROVE Gauged'
  <2>1. PICK g : g = gauges.at
    OBVIOUS
  <2>2. AtRiskAt(gauges.at)' = AtRiskAt(g)
    BY <1>5, <2>1 DEF AtRiskAt
  <2>3. QED
    BY <1>2, <1>3, <1>5, <2>1, <2>2 DEF Gauged
<1>6. CASE \E j \in Jobs : Growth!RunRollup(j)
  <2>1. PICK j \in Jobs : Growth!RunRollup(j)
    BY <1>6
  <2>2. Scoring(j)' /\ snaps' = snaps /\ banded' = banded /\ gauges' = gauges /\ \A i \in Jobs : Busy(i)' => i = j
    BY <2>1, ScoreStart
  <2>3. QED
    BY <1>4, <1>5, <2>2
<1>7. CASE \E j \in Jobs : Growth!Persist(j)
  <2>1. PICK j \in Jobs : Growth!Persist(j)
    BY <1>7
  <2>2. (\A t \in Merchants : Banded(t)') /\ Gauged' /\ Scoring(j)'
    BY <1>1, <2>1, ScorePersist
  <2>3. \A i \in Jobs : Busy(i)' => i = j
    <3>1. Busy(j)
      BY <2>1 DEF Growth!Persist, Busy
    <3>2. \A i \in Jobs : i # j => rolls'[i] = rolls[i]
      BY <2>1, UnderwayTyped DEF Turns
    <3>3. QED
      BY <1>2, <3>1, <3>2 DEF Busy
  <2>4. QED
    BY <2>2, <2>3
<1>8. CASE \E j \in Jobs : Growth!AppendGauges(j)
  <2>1. PICK j \in Jobs : Growth!AppendGauges(j)
    BY <1>8
  <2>2. Busy(j) /\ snaps' = snaps /\ banded' = banded /\ day' = day
    BY <2>1 DEF Growth!AppendGauges, Busy
  <2>3. \A i \in Jobs : ~Busy(i)'
    <3>1. rolls'[j].pc = "idle" /\ \A i \in Jobs : i # j => rolls'[i] = rolls[i]
      BY <2>1, EndedTyped
    <3>2. QED
      BY <1>2, <2>2, <3>1 DEF Busy
  <2>4. Scoring(j) /\ rolls[j].now \in Nat /\ rolls[j].now <= day
    BY <1>2, <2>2, BusyTyped DEF ClockInv, RollOwn
  <2>5. PICK k, c, n : k = gauges.at /\ c = Growth!Cardinality(Growth!ChurnedShops) /\ n = rolls[j].now
    OBVIOUS
  <2>6. gauges' = [at |-> n, churned |-> c, atRisk |-> rolls[j].atRisk]
    BY <1>3, <2>1, <2>4, <2>5 DEF Growth!AppendGauges, Scoring
  <2>7. gauges'.at = n /\ gauges'.atRisk = Cardinality(AtRiskAt(n))
    BY <2>4, <2>5, <2>6 DEF Scoring
  <2>8. AtRiskAt(gauges.at)' = AtRiskAt(n)
    BY <2>2, <2>7 DEF AtRiskAt
  <2>9. Gauged'
    BY <2>2, <2>4, <2>5, <2>7, <2>8 DEF Gauged
  <2>10. QED
    BY <1>4, <2>2, <2>3, <2>9
<1>9. CASE ~\E j \in Jobs : Growth!RunRollup(j) \/ Growth!Persist(j) \/ Growth!AppendGauges(j)
  <2>1. snaps' = snaps /\ banded' = banded /\ gauges' = gauges
    BY <1>9, GrowthMoves
  <2>2. ASSUME NEW j \in Jobs, Busy(j)'
        PROVE  /\ Busy(j) /\ rolls'[j].now = rolls[j].now /\ Unscored(j)' = Unscored(j) /\ rolls'[j].atRisk = rolls[j].atRisk
               /\ \/ rolls'[j].pc # "persist"
                  \/ rolls'[j] = rolls[j]
                  \/ rolls'[j].shop = rolls[j].shop /\ rolls'[j].prior = NewestBand(rolls[j].shop)
    BY <1>9, <2>2, RollGoes DEF NewestBand
  <2>3. ASSUME NEW j \in Jobs, Busy(j)' PROVE Scoring(j)'
    <3>1. Scoring(j)
      BY <1>2, <2>2, <2>3
    <3>2. \A s : NewestBand(s)' = NewestBand(s)
      BY <2>1 DEF NewestBand
    <3>3. rolls'[j].pc = "persist" => rolls'[j].prior = NewestBand(rolls[j].shop)'
      <4>1. SUFFICES ASSUME rolls'[j].pc = "persist" PROVE rolls'[j].prior = NewestBand(rolls[j].shop)'
        OBVIOUS
      <4>2. PICK s : s = rolls[j].shop
        OBVIOUS
      <4>3. rolls'[j].shop = s /\ rolls'[j].prior = NewestBand(s)
        BY <2>2, <2>3, <3>1, <4>1, <4>2 DEF Scoring
      <4>4. NewestBand(rolls[j].shop)' = NewestBand(s)
        BY <2>1, <4>3 DEF NewestBand
      <4>5. QED
        BY <4>3, <4>4
    <3>4. AtRiskAt(rolls[j].now)' = AtRiskAt(rolls[j].now)
      BY <2>1, <2>2, <2>3 DEF AtRiskAt
    <3>5. QED
      BY <2>1, <2>2, <2>3, <3>1, <3>3, <3>4 DEF Scoring
  <2>4. QED
    BY <1>2, <1>4, <1>5, <2>1, <2>2, <2>3
<1>10. QED
  BY <1>6, <1>7, <1>8, <1>9

-----------------------------------------------------------------------------
(* Growth: the theorems.                                                   *)

GrowthInv == GrowthTypes /\ ClockInv /\ TurnInv /\ ScoreInv /\ KpiInv

\* What was to be shown is a part of it.
LEMMA GrowthIsSafe == ASSUME Growth!Stocked, GrowthInv PROVE Growth!TypeOK /\ Growth!GrowthIsTold
<1>1. GrowthTypes /\ ClockInv /\ TurnInv /\ ScoreInv /\ KpiInv
  BY DEF GrowthInv
<1>2. \A S : Growth!Cardinality(S) = Cardinality(S)
  BY SameCount
<1>3. Growth!TypeOK
  <2>1. \A s \in Merchants : \A i \in DOMAIN events[s] :
          events[s][i].kind \in {"UNINSTALL", "REINSTALL"} /\ events[s][i].at <= day
    BY <1>1, EventsTyped DEF Lifecycle
  <2>2. \A s \in Merchants : \A i \in DOMAIN snaps[s] : snaps[s][i].band \in Growth!Bands /\ snaps[s][i].at <= day
    BY <1>1, SnapsTyped
  <2>3. \A j \in Jobs : rolls[j].pc \in {"idle", "next", "prior", "persist", "lookup", "reinstall"}
    BY <1>1, BusyTyped DEF Busy
  <2>4. gauges.churned <= Growth!Cardinality(Merchants) /\ gauges.atRisk <= Growth!Cardinality(Merchants)
    BY <1>1, <1>2, Counted DEF GrowthTypes
  <2>5. /\ active \subseteq Merchants /\ listed \subseteq Merchants /\ deliverable \subseteq Merchants
        /\ scores \in [world.shops -> Signals] /\ banded \in [Merchants -> Growth!Bands \cup {"none"}]
    BY <1>1 DEF GrowthTypes
  <2>6. QED
    BY <2>1, <2>2, <2>3, <2>4, <2>5 DEF Growth!TypeOK
<1>4. Growth!GrowthIsTold
  <2>1. \A s \in Merchants \ mixed.raced : \A i \in DOMAIN events[s] :
          events[s][i].kind = IF i % 2 = 1 THEN "UNINSTALL" ELSE "REINSTALL"
    BY <1>1 DEF TurnInv, ByTurns
  <2>2. ASSUME ~mixed.overlapped
        PROVE  /\ \A s \in Merchants : snaps[s] # <<>> => banded[s] = Growth!Newest(snaps[s], [band |-> "none", at |-> 0]).band
               /\ gauges.at # 0 =>
                    gauges.atRisk = Growth!Cardinality({s \in Merchants : \E i \in DOMAIN snaps[s] :
                               snaps[s][i].at = gauges.at /\ snaps[s][i].band # "HEALTHY"})
    BY <1>1, <1>2, <2>2 DEF ScoreInv, Banded, Gauged, NewestBand, AtRiskAt
  <2>3. kpis.shown \in kpis.active
    BY <1>1 DEF KpiInv
  <2>4. QED
    BY <2>1, <2>2, <2>3 DEF Growth!GrowthIsTold
<1>5. QED
  BY <1>3, <1>4

\* Every step keeps all of it.
LEMMA GrowthStep == ASSUME Growth!Stocked, GrowthInv, [Growth!Next]_(Growth!vars) PROVE GrowthInv'
BY GrowthTypeStep, ClockStep, TurnStep, ScoreStep, KpiStep DEF GrowthInv

\* Types, and what the audit log, the gauges and the dashboard say of uninstalls, reinstalls and health.
THEOREM GrowthSafety == ASSUME Growth!Stocked PROVE Growth!Spec => [](Growth!TypeOK /\ Growth!GrowthIsTold)
<1>1. Growth!Init => GrowthInv
  BY GrowthTypeInit, ClockInit, TurnInit, ScoreInit, KpiInit DEF GrowthInv
<1>2. GrowthInv /\ [Growth!Next]_(Growth!vars) => GrowthInv'
  BY GrowthStep
<1>3. GrowthInv => Growth!TypeOK /\ Growth!GrowthIsTold
  BY GrowthIsSafe
<1>4. QED
  BY <1>1, <1>2, <1>3, PTL DEF Growth!Spec

\* Growth among the console's parts: uninstalls and reinstalls are recorded by turns unless two calls had the
\* shop in hand, the audit log and the gauges agree with the snapshots unless rollups overlapped, and the number of
\* active merchants is one that the replica had (LifecycleService, MerchantHealthService, GrowthMetricsService, KpiService).
THEOREM GrowthIsToldHolds == ConsoleSpec => []GrowthIsTold
<1>1. [ConsoleNext]_allVars => part' = part
  BY DEF ConsoleNext, allVars, Moves
<1>2. ConsoleInit /\ part = "growth" => Growth!Init
  BY DEF ConsoleInit
<1>3. [ConsoleNext]_allVars /\ part = "growth" => [Growth!Next]_(Growth!vars)
  BY DEF ConsoleNext, allVars, Growth!vars, growth, Moves
<1>4. Growth!Spec => [](Growth!TypeOK /\ Growth!GrowthIsTold)
  BY GrowthSafety, ConstantsAssumption DEF ConstantsAssumption
<1>5. part = "growth" /\ part' = part => (part = "growth")'
  OBVIOUS
<1>6. part # "growth" /\ part' = part => (part # "growth")'
  OBVIOUS
<1>7. (part # "growth" => GrowthIsTold) /\ (Growth!TypeOK /\ Growth!GrowthIsTold => GrowthIsTold)
  BY DEF GrowthIsTold
<1>8. part = "growth" \/ part # "growth"
  OBVIOUS
<1>9. QED
  BY <1>1, <1>2, <1>3, <1>4, <1>5, <1>6, <1>7, <1>8, PTL DEF ConsoleSpec, Growth!Spec

-----------------------------------------------------------------------------
(* Operations: sums.                                                       *)

\* The sums up to n.
Partial(v, n, g) == g = [i \in 0 .. n |-> IF i = 0 THEN 0 ELSE g[i - 1] + v[i]]

\* There are sums up to every number.
LEMMA PartialExists == \A v : \A n \in Nat : \E g : Partial(v, n, g)
<1>. SUFFICES ASSUME NEW v, \E n \in Nat : ~\E g : Partial(v, n, g) PROVE FALSE
  OBVIOUS
<1>1. PICK n \in {k \in Nat : ~\E g : Partial(v, k, g)} : \A m \in {k \in Nat : ~\E g : Partial(v, k, g)} : n <= m
  <2>1. {k \in Nat : ~\E g : Partial(v, k, g)} # {}
    OBVIOUS
  <2>2. QED
    BY <2>1, LeastNatural
<1>2. CASE n = 0
  <2>1. Partial(v, 0, [i \in {0} |-> 0])
    <3>1. 0 .. 0 = {0}
      OBVIOUS
    <3>2. QED
      BY <3>1 DEF Partial
  <2>2. QED
    BY <1>1, <1>2, <2>1
<1>3. CASE n # 0
  <2>1. n \in Nat /\ n - 1 \in Nat /\ n \in 1 .. n /\ ~(n <= n - 1)
    BY <1>1, <1>3
  <2>2. PICK g : Partial(v, n - 1, g)
    BY <1>1, <2>1
  <2>. DEFINE h == [i \in 0 .. n |-> IF i < n THEN g[i] ELSE g[n - 1] + v[n]]
  <2>3. ASSUME NEW i \in 0 .. n PROVE h[i] = IF i = 0 THEN 0 ELSE h[i - 1] + v[i]
    <3>1. CASE i < n
      <4>1. i \in 0 .. n - 1 /\ h[i] = g[i]
        BY <2>1, <3>1
      <4>2. g[i] = IF i = 0 THEN 0 ELSE g[i - 1] + v[i]
        BY <2>2, <4>1 DEF Partial
      <4>3. i # 0 => i - 1 \in 0 .. n /\ i - 1 < n /\ h[i - 1] = g[i - 1]
        BY <2>1, <4>1
      <4>4. QED
        BY <4>1, <4>2, <4>3
    <3>2. CASE i = n
      <4>1. h[i] = g[n - 1] + v[n]
        BY <2>1, <3>2
      <4>2. n - 1 \in 0 .. n /\ n - 1 < n /\ h[n - 1] = g[n - 1]
        BY <2>1
      <4>3. QED
        BY <1>3, <3>2, <4>1, <4>2
    <3>3. QED
      BY <2>1, <3>1, <3>2
  <2>4. Partial(v, n, h)
    <3>1. h = [i \in 0 .. n |-> h[i]]
      OBVIOUS
    <3>. HIDE DEF h
    <3>2. QED
      BY <2>3, <3>1 DEF Partial
  <2>5. QED
    BY <1>1, <2>4
<1>4. QED
  BY <1>2, <1>3

\* And they are the same, up to where both are.
LEMMA PartialUnique ==
  ASSUME NEW v, NEW n \in Nat, NEW m \in Nat, NEW g, NEW h, Partial(v, n, g), Partial(v, m, h),
         NEW i \in 0 .. n, i \in 0 .. m
  PROVE  g[i] = h[i]
<1>. DEFINE S == {k \in 0 .. n : k \in 0 .. m /\ g[k] # h[k]}
<1>. SUFFICES ASSUME S # {} PROVE FALSE
  OBVIOUS
<1>1. S \subseteq Nat
  OBVIOUS
<1>2. PICK k \in S : \A l \in S : k <= l
  <2>. HIDE DEF S
  <2>1. QED
    BY <1>1, LeastNatural
<1>3. g[k] = (IF k = 0 THEN 0 ELSE g[k - 1] + v[k]) /\ h[k] = (IF k = 0 THEN 0 ELSE h[k - 1] + v[k])
  BY <1>2 DEF Partial
<1>4. k # 0 => k - 1 \in 0 .. n /\ k - 1 \in 0 .. m /\ ~(k <= k - 1)
  BY <1>2
<1>5. k # 0 => g[k - 1] = h[k - 1]
  BY <1>2, <1>4
<1>6. QED
  BY <1>2, <1>3, <1>5

\* So a total is what it says.
LEMMA TotalSums ==
  ASSUME NEW v
  PROVE  /\ Slo!Total(v)[0] = 0
         /\ \A n \in Nat \ {0} : Slo!Total(v)[n] = Slo!Total(v)[n - 1] + v[n]
<1>. DEFINE Sums(g) == g = [n \in Nat |-> IF n = 0 THEN 0 ELSE g[n - 1] + v[n]]
<1>. DEFINE up(n) == CHOOSE g : Partial(v, n, g)
<1>. DEFINE s == [n \in Nat |-> up(n)[n]]
<1>1. \A n \in Nat : Partial(v, n, up(n))
  BY PartialExists
<1>2. ASSUME NEW n \in Nat PROVE s[n] = IF n = 0 THEN 0 ELSE s[n - 1] + v[n]
  <2>1. up(n)[n] = IF n = 0 THEN 0 ELSE up(n)[n - 1] + v[n]
    <3>1. Partial(v, n, up(n)) /\ n \in 0 .. n
      BY <1>1
    <3>. HIDE DEF up
    <3>2. QED
      BY <3>1 DEF Partial
  <2>2. ASSUME n # 0 PROVE up(n)[n - 1] = up(n - 1)[n - 1]
    <3>1. n - 1 \in Nat /\ n - 1 \in 0 .. n /\ n - 1 \in 0 .. n - 1
      BY <2>2
    <3>2. Partial(v, n, up(n)) /\ Partial(v, n - 1, up(n - 1))
      BY <1>1, <3>1
    <3>. HIDE DEF up
    <3>3. QED
      BY <3>1, <3>2, PartialUnique
  <2>3. s[n] = up(n)[n] /\ (n # 0 => s[n - 1] = up(n - 1)[n - 1])
    <3>. HIDE DEF up
    <3>1. QED
      OBVIOUS
  <2>. HIDE DEF up, s
  <2>4. QED
    BY <2>1, <2>2, <2>3
<1>3. Sums(s)
  <2>1. s = [n \in Nat |-> s[n]]
    OBVIOUS
  <2>. HIDE DEF s
  <2>2. QED
    BY <1>2, <2>1
<1>4. Slo!Total(v) = CHOOSE g : Sums(g)
  BY DEF Slo!Total
<1>5. Sums(Slo!Total(v))
  <2>. HIDE DEF s, Sums
  <2>1. QED
    BY <1>3, <1>4
<1>6. QED
  BY <1>5

-----------------------------------------------------------------------------
(* Operations: what an evaluation says of the samples.                     *)

\* The window's samples, when their mean reaches a rate, hold one that does; when not, there is none
\* or one that does not.
LEMMA BurnsIs ==
  ASSUME samples \in Seq([at : Nat, value : Int]), time \in Nat, NEW length \in Nat, NEW rate \in Nat
  PROVE  /\ Slo!Burns(length, rate) => \E i \in DOMAIN samples : samples[i].at + length >= time /\ samples[i].value >= rate
         /\ ~Slo!Burns(length, rate) =>
              \/ \A i \in DOMAIN samples : samples[i].at + length < time
              \/ \E i \in DOMAIN samples : samples[i].at + length >= time /\ samples[i].value < rate
<1>. DEFINE n == Len(samples)
            v == Slo!Excess(length, rate)
            t == Slo!Total(v)
            w == Slo!Window(length)
<1>0. /\ n \in Nat /\ DOMAIN samples = 1 .. n
      /\ \A i \in 1 .. n : samples[i].at \in Nat /\ samples[i].value \in Int
  <2>1. n \in Nat /\ DOMAIN samples = 1 .. n
    BY LenProperties
  <2>2. \A i \in 1 .. n : samples[i] \in [at : Nat, value : Int]
    BY ElementOfSeq
  <2>. HIDE DEF n
  <2>3. ASSUME NEW i \in 1 .. n PROVE samples[i].at \in Nat /\ samples[i].value \in Int
    BY <2>2
  <2>4. QED
    BY <2>1, <2>3
<1>1. w = {i \in 1 .. n : samples[i].at + length >= time}
  BY <1>0 DEF Slo!Window
<1>2. \A i \in 1 .. n : v[i] = IF i \in w THEN samples[i].value - rate ELSE 0
  BY <1>0 DEF Slo!Excess
<1>3. t[0] = 0 /\ \A i \in 1 .. n : t[i] = t[i - 1] + v[i]
  <2>. HIDE DEF v, n
  <2>1. \A i \in 1 .. n : i \in Nat \ {0}
    BY <1>0
  <2>2. QED
    BY <2>1, TotalSums
<1>4. ASSUME NEW i \in 1 .. n PROVE v[i] \in Int
  <2>1. samples[i].value \in Int
    BY <1>0
  <2>2. v[i] = samples[i].value - rate \/ v[i] = 0
    BY <1>2
  <2>. HIDE DEF v
  <2>3. QED
    BY <2>1, <2>2
<1>. HIDE DEF v, w, t, n
<1>5. \A i \in 0 .. n : t[i] \in Int
  <2>. SUFFICES ASSUME {i \in 0 .. n : t[i] \notin Int} # {} PROVE FALSE
    OBVIOUS
  <2>1. PICK i \in {j \in 0 .. n : t[j] \notin Int} : \A k \in {j \in 0 .. n : t[j] \notin Int} : i <= k
    <3>1. {j \in 0 .. n : t[j] \notin Int} \subseteq Nat
      BY <1>0
    <3>2. QED
      BY <3>1, LeastNatural
  <2>2. i # 0 /\ i \in 1 .. n /\ i - 1 \in 0 .. n /\ ~(i <= i - 1)
    BY <1>0, <1>3, <2>1
  <2>3. t[i - 1] \in Int
    BY <2>1, <2>2
  <2>4. QED
    BY <1>3, <1>4, <2>1, <2>2, <2>3
<1>6. Slo!Burns(length, rate) <=> w # {} /\ t[n] >= 0
  BY DEF Slo!Burns, v, w, t, n
<1>7. ASSUME w # {}, \A i \in w : samples[i].value < rate PROVE t[n] < 0
  <2>1. ASSUME NEW i \in 1 .. n PROVE v[i] <= 0 /\ (i \in w => v[i] < 0)
    <3>1. samples[i].value \in Int
      BY <1>0
    <3>2. i \in w => samples[i].value < rate /\ v[i] = samples[i].value - rate
      BY <1>2, <1>7
    <3>3. i \notin w => v[i] = 0
      BY <1>2
    <3>4. QED
      BY <3>1, <3>2, <3>3
  <2>2. PICK j : j \in w
    BY <1>7
  <2>. DEFINE Bad == {i \in 0 .. n : t[i] > 0 \/ (j <= i /\ t[i] >= 0)}
  <2>3. Bad = {}
    <3>. SUFFICES ASSUME Bad # {} PROVE FALSE
      OBVIOUS
    <3>1. Bad \subseteq Nat
      BY <1>0
    <3>2. PICK i \in Bad : \A k \in Bad : i <= k
      <4>. HIDE DEF Bad
      <4>1. QED
        BY <3>1, LeastNatural
    <3>3. j \in 1 .. n
      BY <1>1, <2>2
    <3>4. i \in 1 .. n /\ i - 1 \in 0 .. n /\ ~(i <= i - 1)
      BY <1>0, <1>3, <3>2, <3>3
    <3>5. i - 1 \notin Bad
      BY <3>2, <3>4
    <3>6. t[i - 1] <= 0 /\ (j <= i - 1 => t[i - 1] < 0)
      BY <1>5, <3>4, <3>5
    <3>7. t[i] = t[i - 1] + v[i] /\ v[i] \in Int /\ v[i] <= 0 /\ (i = j => v[i] < 0)
      BY <1>3, <1>4, <2>1, <2>2, <3>4
    <3>8. t[i] <= 0 /\ (j <= i => t[i] < 0)
      BY <1>5, <3>3, <3>4, <3>6, <3>7
    <3>9. QED
      BY <1>5, <3>2, <3>4, <3>8
  <2>4. j \in 1 .. n /\ n \in 0 .. n /\ j <= n
    BY <1>0, <1>1, <2>2
  <2>5. QED
    BY <1>5, <2>3, <2>4
<1>8. ASSUME \A i \in w : samples[i].value >= rate PROVE t[n] >= 0
  <2>1. ASSUME NEW i \in 1 .. n PROVE v[i] >= 0
    <3>1. samples[i].value \in Int
      BY <1>0
    <3>2. i \in w => samples[i].value >= rate /\ v[i] = samples[i].value - rate
      BY <1>2, <1>8
    <3>3. i \notin w => v[i] = 0
      BY <1>2
    <3>4. QED
      BY <3>1, <3>2, <3>3
  <2>. DEFINE Bad == {i \in 0 .. n : t[i] < 0}
  <2>2. Bad = {}
    <3>. SUFFICES ASSUME Bad # {} PROVE FALSE
      OBVIOUS
    <3>1. Bad \subseteq Nat
      BY <1>0
    <3>2. PICK i \in Bad : \A k \in Bad : i <= k
      <4>. HIDE DEF Bad
      <4>1. QED
        BY <3>1, LeastNatural
    <3>3. i \in 1 .. n /\ i - 1 \in 0 .. n /\ ~(i <= i - 1)
      BY <1>0, <1>3, <3>2
    <3>4. t[i - 1] >= 0
      BY <1>5, <3>2, <3>3
    <3>5. t[i] = t[i - 1] + v[i] /\ v[i] \in Int /\ v[i] >= 0
      BY <1>3, <1>4, <2>1, <3>3
    <3>6. QED
      BY <1>5, <3>2, <3>3, <3>4, <3>5
  <2>3. QED
    BY <1>0, <1>5, <2>2
<1>9. \A i \in w : i \in 1 .. n /\ samples[i].at + length >= time
  BY <1>1
<1>10. ASSUME Slo!Burns(length, rate) PROVE \E i \in 1 .. n : samples[i].at + length >= time /\ samples[i].value >= rate
  <2>1. PICK i \in w : ~(samples[i].value < rate)
    <3>1. ~(t[n] < 0) /\ w # {}
      BY <1>0, <1>5, <1>6, <1>10
    <3>2. QED
      BY <1>7, <3>1
  <2>2. i \in 1 .. n /\ samples[i].at + length >= time
    BY <1>9
  <2>3. samples[i].value \in Int
    BY <1>0, <2>2
  <2>4. samples[i].value >= rate
    BY <2>1, <2>3
  <2>5. QED
    BY <2>2, <2>4
<1>11. ASSUME ~Slo!Burns(length, rate)
       PROVE  \/ \A i \in 1 .. n : samples[i].at + length < time
              \/ \E i \in 1 .. n : samples[i].at + length >= time /\ samples[i].value < rate
  <2>1. CASE w = {}
    <3>1. ASSUME NEW i \in 1 .. n PROVE samples[i].at + length < time
      <4>1. samples[i].at \in Nat
        BY <1>0
      <4>2. ~(samples[i].at + length >= time)
        BY <1>1, <2>1
      <4>3. QED
        BY <4>1, <4>2
    <3>2. QED
      BY <3>1
  <2>2. CASE w # {}
    <3>1. PICK i \in w : ~(samples[i].value >= rate)
      BY <1>6, <1>8, <1>11, <2>2
    <3>2. i \in 1 .. n /\ samples[i].at + length >= time
      BY <1>9
    <3>3. samples[i].value \in Int
      BY <1>0, <3>2
    <3>4. samples[i].value < rate
      BY <3>1, <3>3
    <3>5. QED
      BY <3>2, <3>4
  <2>3. QED
    BY <2>1, <2>2
<1>12. QED
  BY <1>0, <1>10, <1>11
-----------------------------------------------------------------------------
(* Operations: types.                                                      *)

SloHook == [at : Nat, status : {"RECEIVED", "FAILED", "PROCESSED"}]
SloSample == [at : Nat, value : Int]
SloAlert == [tier : DOMAIN Tiers, at : Nat]
SloQueue == [waiting : Nat, completed : Nat, failed : Nat, last : Int]
SloJob == [pc : {"idle", "waiting", "sample", "evaluate", "audit", "sweep"}, attempt : 0 .. Attempts, at : Nat,
           total : Int, bad : Int, alert : Seq(SloAlert)]

SloTypes ==
  /\ time \in Nat /\ load \in Slo!Load
  /\ webhooks \in Seq(SloHook) /\ wasBad \subseteq DOMAIN webhooks
  /\ queue \in SloQueue
  /\ job \in SloJob /\ (job.pc = "waiting" => job.attempt < Attempts)
  /\ samples \in Seq(SloSample) /\ signals \in Seq(SloAlert) /\ audits \in Seq(SloAlert)
  /\ ended \in [at : Nat, seen : Nat, page : BOOLEAN]
  /\ tile \in [shown : {"none", "idle", "healthy", "stale"}, had : BOOLEAN, reached : BOOLEAN]

\* What is there is of a time that has come, and what is being audited is an alert.
SloPast ==
  /\ \A h \in DOMAIN webhooks : webhooks[h].at <= time
  /\ \A i \in DOMAIN samples : samples[i].at <= time
  /\ job.at <= time
  /\ ended.seen <= Len(samples)
  /\ job.pc = "audit" => \E a \in SloAlert : job.alert = <<a>>

\* The most severe tier.
LEMMA BestIs ==
  ASSUME Slo!Configured
  PROVE  \/ Slo!Best = <<>> /\ \A i \in DOMAIN Tiers : ~Slo!TierFires(Tiers[i])
         \/ \E b \in DOMAIN Tiers :
              /\ Slo!Best = <<b>> /\ Slo!TierFires(Tiers[b])
              /\ Tiers[b].severity # "page" =>
                   \A i \in DOMAIN Tiers : Tiers[i].severity = "page" => ~Slo!TierFires(Tiers[i])
<1>. DEFINE fired == {i \in DOMAIN Tiers : Slo!TierFires(Tiers[i])}
            pages == {i \in fired : Tiers[i].severity = "page"}
<1>1. DOMAIN Tiers \subseteq Nat
  <2>1. DOMAIN Tiers = 1 .. Len(Tiers) /\ Len(Tiers) \in Nat
    BY LenProperties DEF Slo!Configured
  <2>2. QED
    BY <2>1
<1>2. Slo!Best = IF pages # {} THEN <<Slo!Min(pages)>> ELSE IF fired # {} THEN <<Slo!Min(fired)>> ELSE <<>>
  BY DEF Slo!Best
<1>3. ASSUME NEW S, S \subseteq Nat, S # {} PROVE Slo!Min(S) \in S
  <2>1. \E m \in S : \A k \in S : m <= k
    BY <1>3, LeastNatural
  <2>2. QED
    BY <2>1 DEF Slo!Min
<1>4. CASE pages # {}
  <2>1. Slo!Min(pages) \in pages
    <3>1. pages \subseteq Nat
      BY <1>1
    <3>. HIDE DEF pages
    <3>2. QED
      BY <1>3, <1>4, <3>1
  <2>2. QED
    BY <1>2, <1>4, <2>1
<1>5. CASE pages = {} /\ fired # {}
  <2>1. Slo!Min(fired) \in fired
    <3>1. fired \subseteq Nat
      BY <1>1
    <3>. HIDE DEF fired
    <3>2. QED
      BY <1>3, <1>5, <3>1
  <2>2. QED
    BY <1>2, <1>5, <2>1
<1>6. CASE fired = {}
  BY <1>2, <1>6
<1>7. QED
  BY <1>4, <1>5, <1>6

\* Nothing has come, and nothing is under way.
LEMMA SloTypeInit == ASSUME Slo!Configured, Slo!Init PROVE SloTypes /\ SloPast
<1>1. /\ <<>> \in Seq(SloHook) /\ <<>> \in Seq(SloSample) /\ <<>> \in Seq(SloAlert)
      /\ Len(<<>>) = 0 /\ DOMAIN <<>> = {}
  BY EmptySeq
<1>2. job \in SloJob /\ job.pc = "idle" /\ job.at = 0
  BY <1>1 DEF Slo!Init, Slo!Idle, Slo!Configured, SloJob
<1>3. queue \in SloQueue
  BY DEF Slo!Init, SloQueue
<1>4. load \in Slo!Load
  BY DEF Slo!Init, Slo!Configured
<1>5. QED
  BY <1>1, <1>2, <1>3, <1>4 DEF Slo!Init, SloTypes, SloPast

\* A sequence that grows keeps what it has.
LEMMA SloGrows ==
  ASSUME NEW S, NEW s \in Seq(S), NEW e \in S
  PROVE  /\ Append(s, e) \in Seq(S) /\ Len(s) \in Nat /\ DOMAIN s = 1 .. Len(s)
         /\ Append(s, e) = s \o <<e>>
         /\ DOMAIN Append(s, e) = DOMAIN s \cup {Len(s) + 1} /\ Len(s) + 1 \notin DOMAIN s
         /\ \A i \in DOMAIN s : Append(s, e)[i] = s[i] /\ s[i] \in S
         /\ Append(s, e)[Len(s) + 1] = e
<1>1. Len(s) \in Nat /\ DOMAIN s = 1 .. Len(s)
  BY LenProperties
<1>2. /\ Append(s, e) \in Seq(S) /\ Len(Append(s, e)) = Len(s) + 1
      /\ \A i \in 1 .. Len(s) : Append(s, e)[i] = s[i]
      /\ Append(s, e)[Len(s) + 1] = e
  BY AppendProperties
<1>3. DOMAIN Append(s, e) = 1 .. Len(s) + 1
  BY <1>2, LenProperties
<1>4. \A i \in 1 .. Len(s) : s[i] \in S
  BY ElementOfSeq
<1>5. Append(s, e) = s \o <<e>>
  BY AppendIsConcat
<1>6. 1 .. Len(s) + 1 = 1 .. Len(s) \cup {Len(s) + 1} /\ Len(s) + 1 \notin 1 .. Len(s)
  BY <1>1
<1>7. QED
  BY <1>1, <1>2, <1>3, <1>4, <1>5, <1>6

\* A supply that is used is one less.
LEMMA SloUses == ASSUME SloTypes, NEW what, Slo!Uses(what) PROVE load' \in Slo!Load
<1>1. load' = [load EXCEPT ![what] = @ - 1] /\ load[what] > 0
  BY DEF Slo!Uses
<1>2. load \in Slo!Load
  BY DEF SloTypes
<1>3. QED
  BY <1>1, <1>2 DEF Slo!Load

\* The two counts are numbers.
LEMMA SloCounts ==
  ASSUME SloTypes, NEW T, T \subseteq DOMAIN webhooks
  PROVE  Slo!Cardinality(T) \in Nat /\ (T = {} => Slo!Cardinality(T) = 0)
<1>1. Slo!Cardinality(T) = Cardinality(T)
  BY DEF Slo!Cardinality, Cardinality
<1>2. DOMAIN webhooks = 1 .. Len(webhooks) /\ Len(webhooks) \in Nat
  BY LenProperties DEF SloTypes
<1>3. IsFiniteSet(DOMAIN webhooks)
  BY <1>2, FS_Interval
<1>4. IsFiniteSet(T)
  BY <1>3, FS_Subset
<1>5. QED
  BY <1>1, <1>4, FS_CardinalityType, FS_EmptySet

\* Every step leaves what is there as it should be.
LEMMA SloTypeStep ==
  ASSUME Slo!Configured, SloTypes, SloPast, [Slo!Next]_(Slo!vars)
  PROVE  SloTypes' /\ SloPast'
<1>0. /\ time \in Nat /\ load \in Slo!Load /\ webhooks \in Seq(SloHook) /\ wasBad \subseteq DOMAIN webhooks
      /\ queue \in SloQueue /\ job \in SloJob /\ (job.pc = "waiting" => job.attempt < Attempts)
      /\ samples \in Seq(SloSample) /\ signals \in Seq(SloAlert) /\ audits \in Seq(SloAlert)
      /\ ended \in [at : Nat, seen : Nat, page : BOOLEAN]
      /\ tile \in [shown : {"none", "idle", "healthy", "stale"}, had : BOOLEAN, reached : BOOLEAN]
  BY DEF SloTypes
<1>1. /\ DOMAIN webhooks = 1 .. Len(webhooks) /\ Len(webhooks) \in Nat
      /\ \A h \in DOMAIN webhooks : webhooks[h] \in SloHook /\ webhooks[h].at <= time
  <2>1. DOMAIN webhooks = 1 .. Len(webhooks) /\ Len(webhooks) \in Nat
    BY <1>0, LenProperties
  <2>2. \A h \in 1 .. Len(webhooks) : webhooks[h] \in SloHook
    BY <1>0, ElementOfSeq
  <2>3. QED
    BY <2>1, <2>2 DEF SloPast
<1>2. /\ DOMAIN samples = 1 .. Len(samples) /\ Len(samples) \in Nat
      /\ \A i \in DOMAIN samples : samples[i] \in SloSample /\ samples[i].at <= time
  <2>1. DOMAIN samples = 1 .. Len(samples) /\ Len(samples) \in Nat
    BY <1>0, LenProperties
  <2>2. \A h \in 1 .. Len(samples) : samples[h] \in SloSample
    BY <1>0, ElementOfSeq
  <2>3. QED
    BY <2>1, <2>2 DEF SloPast
<1>3. /\ ended.seen <= Len(samples) /\ job.at <= time
      /\ job.pc = "audit" => \E a \in SloAlert : job.alert = <<a>>
  BY DEF SloPast
<1>4. <<>> \in Seq(SloAlert) /\ Slo!Idle \in SloJob /\ Slo!Idle.pc = "idle" /\ Slo!Idle.at = 0
  BY EmptySeq DEF Slo!Idle, SloJob, Slo!Configured
<1>. USE DEF SloTypes, SloPast
<1>5. ASSUME Slo!Receive PROVE SloTypes' /\ SloPast'
  <2>. DEFINE r == [at |-> time, status |-> "RECEIVED"]
  <2>1. r \in SloHook
    BY <1>0 DEF SloHook
  <2>2. webhooks' = Append(webhooks, r) /\ UNCHANGED <<time, wasBad, queue, job, samples, signals, audits, ended, tile>>
    BY <1>5 DEF Slo!Receive
  <2>3. /\ webhooks' \in Seq(SloHook) /\ DOMAIN webhooks' = DOMAIN webhooks \cup {Len(webhooks) + 1}
        /\ \A h \in DOMAIN webhooks : webhooks'[h] = webhooks[h]
        /\ webhooks'[Len(webhooks) + 1] = r
    <3>. HIDE DEF r
    <3>1. QED
      BY <1>0, <2>1, <2>2, SloGrows
  <2>4. \A h \in DOMAIN webhooks' : webhooks'[h].at <= time
    BY <1>0, <1>1, <2>3
  <2>5. load' \in Slo!Load
    BY <1>5, SloUses DEF Slo!Receive
  <2>6. QED
    BY <1>0, <1>2, <1>3, <2>2, <2>3, <2>4, <2>5
<1>6. ASSUME NEW h \in DOMAIN webhooks, Slo!Settle(h) PROVE SloTypes' /\ SloPast'
  <2>1. PICK status \in {"FAILED", "PROCESSED"} :
          /\ webhooks' = [webhooks EXCEPT ![h].status = status]
          /\ wasBad' = IF status = "FAILED" THEN wasBad \cup {h} ELSE wasBad
    BY <1>6 DEF Slo!Settle
  <2>2. PICK r : r = [webhooks[h] EXCEPT !.status = status]
    OBVIOUS
  <2>3. r \in SloHook /\ r.at = webhooks[h].at
    BY <1>1, <2>2 DEF SloHook
  <2>4. webhooks' = [webhooks EXCEPT ![h] = r]
    BY <2>1, <2>2
  <2>5. /\ webhooks' \in Seq(SloHook) /\ DOMAIN webhooks' = DOMAIN webhooks
        /\ \A k \in DOMAIN webhooks : webhooks'[k] = IF k = h THEN r ELSE webhooks[k]
    BY <1>0, <1>1, <2>3, <2>4, ExceptSeq
  <2>6. \A k \in DOMAIN webhooks' : webhooks'[k].at <= time
    BY <1>1, <2>3, <2>5
  <2>7. UNCHANGED <<time, queue, job, samples, signals, audits, ended, tile, load>> /\ wasBad' \subseteq DOMAIN webhooks
    BY <1>0, <1>6, <2>1 DEF Slo!Settle
  <2>8. QED
    BY <1>0, <1>2, <1>3, <2>5, <2>6, <2>7
<1>7. ASSUME Slo!QueueMoves PROVE SloTypes' /\ SloPast'
  <2>1. queue' \in SloQueue
    <3>1. queue.waiting \in Nat /\ queue.completed \in Nat /\ queue.failed \in Nat /\ queue.last \in Int
      BY <1>0 DEF SloQueue
    <3>2. CASE queue' = [queue EXCEPT !.waiting = @ + 1]
      BY <1>0, <3>2 DEF SloQueue
    <3>3. CASE queue.waiting > 0 /\ queue' = [queue EXCEPT !.waiting = @ - 1, !.completed = @ + 1, !.last = time]
      <4>1. queue' = [waiting |-> queue.waiting - 1, completed |-> queue.completed + 1, failed |-> queue.failed, last |-> time]
        BY <1>0, <3>3 DEF SloQueue
      <4>2. queue.waiting - 1 \in Nat /\ queue.completed + 1 \in Nat /\ time \in Int
        BY <1>0, <3>1, <3>3
      <4>3. QED
        BY <3>1, <4>1, <4>2 DEF SloQueue
    <3>4. CASE queue.waiting > 0 /\ queue' = [queue EXCEPT !.waiting = @ - 1, !.failed = @ + 1]
      <4>1. queue' = [waiting |-> queue.waiting - 1, completed |-> queue.completed, failed |-> queue.failed + 1, last |-> queue.last]
        BY <1>0, <3>4 DEF SloQueue
      <4>2. queue.waiting - 1 \in Nat /\ queue.failed + 1 \in Nat
        BY <3>1, <3>4
      <4>3. QED
        BY <3>1, <4>1, <4>2 DEF SloQueue
    <3>5. QED
      BY <1>7, <3>2, <3>3, <3>4 DEF Slo!QueueMoves
  <2>2. load' \in Slo!Load
    BY <1>7, SloUses DEF Slo!QueueMoves
  <2>3. QED
    BY <1>0, <1>1, <1>2, <1>3, <1>7, <2>1, <2>2 DEF Slo!QueueMoves
<1>8. ASSUME Slo!Tick PROVE SloTypes' /\ SloPast'
  <2>1. time' = time + 1 /\ UNCHANGED <<webhooks, wasBad, queue, samples, signals, audits, ended, tile>>
    BY <1>8 DEF Slo!Tick
  <2>2. /\ job' \in SloJob /\ (job'.pc = "waiting" => job'.attempt < Attempts)
        /\ job'.at <= time + 1 /\ (job'.pc = "audit" => \E a \in SloAlert : job'.alert = <<a>>)
    <3>1. CASE job.pc = "idle"
      <4>1. job' = [pc |-> "waiting", attempt |-> 0, at |-> 0, total |-> -1, bad |-> -1, alert |-> <<>>]
        BY <1>8, <3>1 DEF Slo!Tick, Slo!Idle
      <4>2. -1 \in Int /\ 0 \in 0 .. Attempts /\ 0 \in Nat /\ 0 < Attempts
        BY DEF Slo!Configured
      <4>3. QED
        BY <1>0, <1>4, <4>1, <4>2 DEF SloJob
    <3>2. CASE job.pc # "idle"
      BY <1>0, <1>3, <1>8, <3>2 DEF Slo!Tick, SloJob
    <3>3. QED
      BY <3>1, <3>2
  <2>3. load' \in Slo!Load
    BY <1>8, SloUses DEF Slo!Tick
  <2>4. \A h \in DOMAIN webhooks : webhooks[h].at <= time + 1
    BY <1>0, <1>1 DEF SloHook
  <2>5. \A i \in DOMAIN samples : samples[i].at <= time + 1
    BY <1>0, <1>2 DEF SloSample
  <2>6. QED
    BY <1>0, <1>3, <2>1, <2>2, <2>3, <2>4, <2>5
<1>9. ASSUME Slo!Snapshot PROVE SloTypes' /\ SloPast'
  <2>1. PICK reached \in BOOLEAN :
          tile' = [shown |-> Slo!ClassifyLiveness(Slo!LiveQueueStats(reached)),
                   had |-> queue.waiting + queue.completed + queue.failed > 0, reached |-> reached]
    BY <1>9 DEF Slo!Snapshot
  <2>2. Slo!ClassifyLiveness(Slo!LiveQueueStats(reached)) \in {"none", "idle", "healthy", "stale"}
    BY DEF Slo!ClassifyLiveness
  <2>3. (queue.waiting + queue.completed + queue.failed > 0) \in BOOLEAN
    OBVIOUS
  <2>4. tile' \in [shown : {"none", "idle", "healthy", "stale"}, had : BOOLEAN, reached : BOOLEAN]
    BY <2>1, <2>2, <2>3, Zenon
  <2>5. load' \in Slo!Load
    BY <1>9, SloUses DEF Slo!Snapshot
  <2>6. QED
    BY <1>0, <1>1, <1>2, <1>3, <1>9, <2>4, <2>5 DEF Slo!Snapshot
<1>10. ASSUME NEW j \in SloJob, job' = j, j.pc # "waiting", j.at <= time,
              j.pc = "audit" => \E a \in SloAlert : j.alert = <<a>>,
              UNCHANGED <<time, webhooks, wasBad, queue, samples, tile, load>>,
              signals' \in Seq(SloAlert), audits' \in Seq(SloAlert),
              ended' \in [at : Nat, seen : Nat, page : BOOLEAN], ended'.seen <= Len(samples)
       PROVE  SloTypes' /\ SloPast'
  BY <1>0, <1>1, <1>2, <1>10
<1>11. ASSUME Slo!RunRollup PROVE SloTypes' /\ SloPast'
  <2>1. job'.pc # "waiting" /\ job' \in SloJob
    <3>1. job' = [pc |-> "sample", attempt |-> job.attempt + 1, at |-> time, total |-> -1, bad |-> -1, alert |-> <<>>]
      BY <1>11 DEF Slo!RunRollup, Slo!Idle
    <3>2. job.attempt \in 0 .. Attempts /\ job.attempt < Attempts
      BY <1>0, <1>11 DEF Slo!RunRollup, SloJob
    <3>3. job.attempt + 1 \in 0 .. Attempts
      BY <3>2 DEF Slo!Configured
    <3>4. QED
      BY <1>0, <1>4, <3>1, <3>3 DEF SloJob
  <2>2. QED
    BY <1>0, <1>3, <1>10, <1>11, <2>1 DEF Slo!RunRollup
<1>12. ASSUME Slo!WebhookErrorRatio PROVE SloTypes' /\ SloPast'
  <2>1. PICK c \in Nat : \/ job' = [job EXCEPT !.total = c]
                         \/ job' = [job EXCEPT !.bad = c]
    <3>1. PICK total : total = {h \in DOMAIN webhooks : Slo!Recent(h)}
      OBVIOUS
    <3>2. PICK bad : bad = {h \in total : webhooks[h].status = "FAILED"}
      OBVIOUS
    <3>3. PICK n, m : n = Slo!Cardinality(total) /\ m = Slo!Cardinality(bad)
      OBVIOUS
    <3>4. total \subseteq DOMAIN webhooks /\ bad \subseteq DOMAIN webhooks
      BY <3>1, <3>2
    <3>5. n \in Nat /\ m \in Nat
      BY <3>3, <3>4, SloCounts
    <3>6. job' = [job EXCEPT !.total = n] \/ job' = [job EXCEPT !.bad = m]
      BY <1>12, <3>1, <3>2, <3>3 DEF Slo!WebhookErrorRatio
    <3>7. QED
      BY <3>5, <3>6
  <2>2. job.pc = "sample"
    BY <1>12 DEF Slo!WebhookErrorRatio
  <2>3. job' \in SloJob /\ job'.pc = "sample" /\ job'.at = job.at
    <3>0. /\ c \in Int /\ job.pc \in {"idle", "waiting", "sample", "evaluate", "audit", "sweep"}
          /\ job.attempt \in 0 .. Attempts /\ job.at \in Nat /\ job.total \in Int /\ job.bad \in Int
          /\ job.alert \in Seq(SloAlert)
      BY <1>0 DEF SloJob
    <3>1. CASE job' = [job EXCEPT !.total = c]
      <4>1. job' = [pc |-> job.pc, attempt |-> job.attempt, at |-> job.at, total |-> c, bad |-> job.bad, alert |-> job.alert]
        BY <1>0, <3>1 DEF SloJob
      <4>2. QED
        BY <2>2, <3>0, <4>1 DEF SloJob
    <3>2. CASE job' = [job EXCEPT !.bad = c]
      <4>1. job' = [pc |-> job.pc, attempt |-> job.attempt, at |-> job.at, total |-> job.total, bad |-> c, alert |-> job.alert]
        BY <1>0, <3>2 DEF SloJob
      <4>2. QED
        BY <2>2, <3>0, <4>1 DEF SloJob
    <3>3. QED
      BY <2>1, <3>1, <3>2
  <2>4. QED
    BY <1>0, <1>3, <1>10, <1>12, <2>3 DEF Slo!WebhookErrorRatio
<1>13. ASSUME Slo!AppendSample PROVE SloTypes' /\ SloPast'
  <2>1. PICK e : e = [at |-> job.at, value |-> IF job.total = 0 THEN 0 ELSE (job.bad * Units) \div job.total]
    OBVIOUS
  <2>2. /\ job.pc = "sample" /\ job.total >= 0 /\ job.bad >= 0
        /\ samples' = Append(samples, e) /\ job' = [job EXCEPT !.pc = "evaluate"]
        /\ UNCHANGED <<time, webhooks, wasBad, queue, signals, audits, ended, tile, load>>
    BY <1>13, <2>1 DEF Slo!AppendSample
  <2>3. e \in SloSample /\ e.at <= time
    <3>1. job.at \in Nat /\ job.total \in Int /\ job.bad \in Int /\ Units \in Nat /\ job.at <= time
      BY <1>0 DEF SloJob, SloPast, Slo!Configured
    <3>2. ASSUME job.total # 0 PROVE (job.bad * Units) \div job.total \in Int
      <4>1. PICK m, k : m = job.bad * Units /\ k = job.total
        OBVIOUS
      <4>2. m \in Int /\ k \in Int /\ k > 0
        BY <2>2, <3>1, <3>2, <4>1
      <4>3. m \div k \in Int
        BY <4>2
      <4>4. QED
        BY <4>1, <4>3
    <3>3. PICK v : v = IF job.total = 0 THEN 0 ELSE (job.bad * Units) \div job.total
      OBVIOUS
    <3>4. v \in Int /\ e = [at |-> job.at, value |-> v]
      BY <2>1, <3>2, <3>3
    <3>5. QED
      BY <3>1, <3>4 DEF SloSample
  <2>4. /\ samples' \in Seq(SloSample) /\ Len(samples') = Len(samples) + 1
        /\ DOMAIN samples' = DOMAIN samples \cup {Len(samples) + 1}
        /\ \A i \in DOMAIN samples : samples'[i] = samples[i]
        /\ samples'[Len(samples) + 1] = e
    BY <1>0, <2>2, <2>3, SloGrows, AppendProperties
  <2>5. \A i \in DOMAIN samples' : samples'[i].at <= time
    BY <1>2, <2>3, <2>4
  <2>6. job' \in SloJob /\ job'.pc = "evaluate" /\ job'.at = job.at
    BY <1>0, <2>2 DEF SloJob
  <2>7. ended'.seen <= Len(samples')
    BY <1>0, <1>2, <1>3, <2>2, <2>4
  <2>8. QED
    BY <1>0, <1>1, <1>3, <2>2, <2>4, <2>5, <2>6, <2>7
<1>14. ASSUME Slo!Evaluate PROVE SloTypes' /\ SloPast'
  <2>1. UNCHANGED <<time, webhooks, wasBad, queue, samples, audits, tile, load>>
    BY <1>14 DEF Slo!Evaluate
  <2>2. CASE Slo!Best = <<>>
    <3>1. job' = [job EXCEPT !.pc = "sweep"] /\ signals' = signals
          /\ ended' = [at |-> time, seen |-> Len(samples), page |-> FALSE]
      BY <1>14, <2>2 DEF Slo!Evaluate
    <3>2. job' \in SloJob /\ job'.pc # "waiting" /\ job'.at = job.at
      BY <1>0, <3>1 DEF SloJob
    <3>3. QED
      BY <1>0, <1>2, <1>10, <2>1, <3>1, <3>2
  <2>3. ASSUME NEW b \in DOMAIN Tiers, Slo!Best = <<b>> PROVE SloTypes' /\ SloPast'
    <3>1. PICK a : a = [tier |-> b, at |-> time]
      OBVIOUS
    <3>2. Slo!Best # <<>> /\ Slo!Best[1] = b
      BY <2>3
    <3>3. job' = [job EXCEPT !.pc = "audit", !.alert = <<a>>] /\ signals' = signals \o job'.alert /\ ended' = ended
      BY <1>14, <3>1, <3>2 DEF Slo!Evaluate
    <3>4. a \in SloAlert /\ <<a>> \in Seq(SloAlert)
      BY <1>0, <3>1 DEF SloAlert
    <3>5. job' \in SloJob /\ job'.pc # "waiting" /\ job'.alert = <<a>> /\ job'.at = job.at
      BY <1>0, <3>3, <3>4 DEF SloJob
    <3>6. signals' \in Seq(SloAlert)
      BY <1>0, <3>3, <3>4, <3>5, SloGrows
    <3>7. QED
      BY <1>0, <1>3, <1>10, <2>1, <3>3, <3>5, <3>6
  <2>4. QED
    BY <2>2, <2>3, BestIs
<1>15. ASSUME Slo!AppendAudit PROVE SloTypes' /\ SloPast'
  <2>1. /\ audits' = audits \o job.alert /\ job' = [job EXCEPT !.pc = "sweep"]
        /\ ended' = [at |-> job.alert[1].at, seen |-> Len(samples),
                     page |-> Tiers[job.alert[1].tier].severity = "page"]
        /\ UNCHANGED <<time, webhooks, wasBad, queue, samples, signals, tile, load>>
    BY <1>15 DEF Slo!AppendAudit
  <2>2. PICK a \in SloAlert : job.alert = <<a>>
    BY <1>15 DEF Slo!AppendAudit, SloPast
  <2>3. audits' \in Seq(SloAlert)
    BY <1>0, <2>1, <2>2, SloGrows
  <2>4. job' \in SloJob /\ job'.pc # "waiting" /\ job'.at = job.at
    BY <1>0, <2>1 DEF SloJob
  <2>5. PICK paged \in BOOLEAN : ended' = [at |-> a.at, seen |-> Len(samples), page |-> paged]
    <3>1. (Tiers[job.alert[1].tier].severity = "page") \in BOOLEAN /\ job.alert[1] = a
      BY <2>2
    <3>2. QED
      BY <2>1, <3>1
  <2>6. ended' \in [at : Nat, seen : Nat, page : BOOLEAN] /\ ended'.seen = Len(samples)
    <3>1. a.at \in Nat /\ Len(samples) \in Nat
      BY <1>2, <2>2 DEF SloAlert
    <3>2. QED
      BY <2>5, <3>1, Zenon
  <2>7. QED
    BY <1>0, <1>2, <1>10, <2>1, <2>3, <2>4, <2>6
<1>16. ASSUME Slo!SweepExpired PROVE SloTypes' /\ SloPast'
  BY <1>0, <1>3, <1>4, <1>10, <1>16 DEF Slo!SweepExpired
<1>17. ASSUME Slo!RollupFails PROVE SloTypes' /\ SloPast'
  <2>1. job' \in SloJob /\ (job'.pc = "waiting" => job'.attempt < Attempts) /\ job'.pc # "audit" /\ job'.at = 0
    <3>1. job' = Slo!Idle
          \/ /\ job.attempt < Attempts
             /\ job' = [pc |-> "waiting", attempt |-> job.attempt, at |-> 0, total |-> -1, bad |-> -1, alert |-> <<>>]
      BY <1>17 DEF Slo!RollupFails, Slo!Idle
    <3>2. job.attempt \in 0 .. Attempts /\ -1 \in Int /\ 0 \in Nat
      BY <1>0 DEF SloJob
    <3>3. CASE job' = Slo!Idle
      BY <1>4, <3>3
    <3>4. ASSUME job.attempt < Attempts,
                 job' = [pc |-> "waiting", attempt |-> job.attempt, at |-> 0, total |-> -1, bad |-> -1, alert |-> <<>>]
          PROVE  job' \in SloJob /\ (job'.pc = "waiting" => job'.attempt < Attempts) /\ job'.pc # "audit" /\ job'.at = 0
      BY <1>4, <3>2, <3>4 DEF SloJob
    <3>5. QED
      BY <3>1, <3>3, <3>4
  <2>2. load' \in Slo!Load
    BY <1>17, SloUses DEF Slo!RollupFails
  <2>3. QED
    BY <1>0, <1>1, <1>2, <1>3, <1>17, <2>1, <2>2 DEF Slo!RollupFails
<1>18. ASSUME UNCHANGED Slo!vars PROVE SloTypes' /\ SloPast'
  BY <1>0, <1>1, <1>2, <1>3, <1>18 DEF Slo!vars
<1>19. QED
  BY <1>5, <1>6, <1>7, <1>8, <1>9, <1>11, <1>12, <1>13, <1>14, <1>15, <1>16, <1>17, <1>18 DEF Slo!Next

-----------------------------------------------------------------------------
(* Operations: what the alerts are about.                                  *)

\* A webhook has failed that is recent at n; one that is within reach of an alert's short window.
Trouble(n) == \E h \in wasBad : webhooks[h].at + Lookback >= n
Near(a) == \E h \in wasBad : webhooks[h].at + Lookback + Tiers[a.tier].short >= a.at

\* Every count, sample and alert comes from a webhook that has failed.
CauseInv ==
  /\ \A h \in DOMAIN webhooks : webhooks[h].status = "FAILED" => h \in wasBad
  /\ job.bad > 0 => Trouble(job.at)
  /\ \A i \in DOMAIN samples : samples[i].value > 0 => Trouble(samples[i].at)
  /\ \A i \in DOMAIN signals : Near(signals[i])

\* No webhook has failed.
LEMMA CauseInit == Slo!Init => CauseInv
<1>. SUFFICES ASSUME Slo!Init PROVE CauseInv
  OBVIOUS
<1>1. DOMAIN <<>> = {} /\ webhooks = <<>> /\ samples = <<>> /\ signals = <<>> /\ job.bad = -1
  BY DEF Slo!Init, Slo!Idle
<1>2. QED
  BY <1>1 DEF CauseInv

\* A failure stays one, of its time.
LEMMA CausesKept ==
  ASSUME wasBad \subseteq DOMAIN webhooks, wasBad \subseteq wasBad',
         \A h \in DOMAIN webhooks : webhooks'[h].at = webhooks[h].at
  PROVE  /\ \A n : Trouble(n) => \E h \in wasBad' : webhooks'[h].at + Lookback >= n
         /\ \A a : Near(a) => \E h \in wasBad' : webhooks'[h].at + Lookback + Tiers[a.tier].short >= a.at
<1>1. ASSUME NEW n, Trouble(n) PROVE \E h \in wasBad' : webhooks'[h].at + Lookback >= n
  <2>1. PICK h \in wasBad : webhooks[h].at + Lookback >= n
    BY <1>1 DEF Trouble
  <2>2. h \in wasBad' /\ webhooks'[h].at = webhooks[h].at
    BY <2>1
  <2>3. QED
    BY <2>1, <2>2
<1>2. ASSUME NEW a, Near(a) PROVE \E h \in wasBad' : webhooks'[h].at + Lookback + Tiers[a.tier].short >= a.at
  <2>1. PICK h \in wasBad : webhooks[h].at + Lookback + Tiers[a.tier].short >= a.at
    BY <1>2 DEF Near
  <2>2. h \in wasBad' /\ webhooks'[h].at = webhooks[h].at
    BY <2>1
  <2>3. QED
    BY <2>1, <2>2
<1>3. QED
  BY <1>1, <1>2

\* A tier that fires has a recent failure in its short window.
LEMMA FiringIsNear ==
  ASSUME Slo!Configured, SloTypes, CauseInv, NEW b \in DOMAIN Tiers, Slo!TierFires(Tiers[b])
  PROVE  \E h \in wasBad : webhooks[h].at + Lookback + Tiers[b].short >= time
<1>1. Tiers[b] \in Slo!Tier
  <2>1. DOMAIN Tiers = 1 .. Len(Tiers)
    BY LenProperties DEF Slo!Configured
  <2>2. QED
    BY <2>1, ElementOfSeq DEF Slo!Configured
<1>2. PICK short, rate : short = Tiers[b].short /\ rate = Tiers[b].rate
  OBVIOUS
<1>3. short \in Nat /\ rate \in Nat \ {0}
  BY <1>1, <1>2 DEF Slo!Tier
<1>4. Slo!Burns(short, rate)
  BY <1>2 DEF Slo!TierFires
<1>5. samples \in Seq([at : Nat, value : Int]) /\ time \in Nat
  BY DEF SloTypes, SloSample
<1>6. PICK i \in DOMAIN samples : samples[i].at + short >= time /\ samples[i].value >= rate
  BY <1>3, <1>4, <1>5, BurnsIs
<1>7. samples[i].at \in Nat /\ samples[i].value \in Int
  <2>1. DOMAIN samples = 1 .. Len(samples)
    BY <1>5, LenProperties
  <2>2. samples[i] \in [at : Nat, value : Int]
    BY <1>5, <2>1, ElementOfSeq
  <2>3. QED
    BY <2>2
<1>8. samples[i].value > 0
  BY <1>3, <1>6, <1>7
<1>9. PICK h \in wasBad : webhooks[h].at + Lookback >= samples[i].at
  BY <1>8 DEF CauseInv, Trouble
<1>10. webhooks[h].at \in Nat
  <2>1. DOMAIN webhooks = 1 .. Len(webhooks) /\ h \in DOMAIN webhooks
    BY <1>9, LenProperties DEF SloTypes
  <2>2. webhooks[h] \in SloHook
    BY <2>1, ElementOfSeq DEF SloTypes
  <2>3. QED
    BY <2>2 DEF SloHook
<1>11. webhooks[h].at + Lookback + short >= time
  <2>1. Lookback \in Nat
    BY DEF Slo!Configured
  <2>2. PICK w, e : w = webhooks[h].at /\ e = samples[i].at
    OBVIOUS
  <2>3. w \in Nat /\ e \in Nat /\ e + short >= time /\ w + Lookback >= e
    BY <1>6, <1>7, <1>9, <1>10, <2>2
  <2>4. w + Lookback + short >= time
    BY <1>3, <1>5, <2>1, <2>3
  <2>5. QED
    BY <2>2, <2>4
<1>12. QED
  BY <1>2, <1>9, <1>11

\* No count, sample or alert comes from nothing.
LEMMA CauseStep ==
  ASSUME Slo!Configured, SloTypes, SloPast, CauseInv, [Slo!Next]_(Slo!vars)
  PROVE  CauseInv'
<1>0. /\ \A h \in DOMAIN webhooks : webhooks[h].status = "FAILED" => h \in wasBad
      /\ job.bad > 0 => Trouble(job.at)
      /\ \A i \in DOMAIN samples : samples[i].value > 0 => Trouble(samples[i].at)
      /\ \A i \in DOMAIN signals : Near(signals[i])
  BY DEF CauseInv
<1>1. wasBad \subseteq DOMAIN webhooks /\ webhooks \in Seq(SloHook) /\ samples \in Seq(SloSample)
      /\ signals \in Seq(SloAlert) /\ job \in SloJob /\ time \in Nat
  BY DEF SloTypes
<1>2. ASSUME wasBad \subseteq wasBad', \A h \in DOMAIN webhooks : webhooks'[h].at = webhooks[h].at,
             \A h \in DOMAIN webhooks' : webhooks'[h].status = "FAILED" => h \in wasBad',
             UNCHANGED <<samples, signals>>, job' = job \/ ~(job'.bad > 0)
      PROVE  CauseInv'
  <2>1. /\ \A n : Trouble(n) => \E h \in wasBad' : webhooks'[h].at + Lookback >= n
        /\ \A a : Near(a) => \E h \in wasBad' : webhooks'[h].at + Lookback + Tiers[a.tier].short >= a.at
    BY <1>1, <1>2, CausesKept
  <2>2. job'.bad > 0 => \E h \in wasBad' : webhooks'[h].at + Lookback >= job'.at
    BY <1>0, <1>2, <2>1
  <2>3. \A i \in DOMAIN samples' : samples'[i].value > 0 => \E h \in wasBad' : webhooks'[h].at + Lookback >= samples'[i].at
    BY <1>0, <1>2, <2>1
  <2>4. \A i \in DOMAIN signals' :
          \E h \in wasBad' : webhooks'[h].at + Lookback + Tiers[signals'[i].tier].short >= signals'[i].at
    BY <1>0, <1>2, <2>1
  <2>5. QED
    BY <1>2, <2>2, <2>3, <2>4 DEF CauseInv, Trouble, Near
<1>3. ASSUME UNCHANGED <<webhooks, wasBad>>
      PROVE  /\ \A n : Trouble(n) => \E h \in wasBad' : webhooks'[h].at + Lookback >= n
             /\ \A a : Near(a) => \E h \in wasBad' : webhooks'[h].at + Lookback + Tiers[a.tier].short >= a.at
             /\ \A h \in DOMAIN webhooks' : webhooks'[h].status = "FAILED" => h \in wasBad'
  BY <1>0, <1>3 DEF Trouble, Near
<1>4. Slo!Idle.bad = -1 /\ ~(-1 > 0)
  BY DEF Slo!Idle
<1>5. ASSUME Slo!Receive PROVE CauseInv'
  <2>1. PICK r : r = [at |-> time, status |-> "RECEIVED"]
    OBVIOUS
  <2>2. webhooks' = Append(webhooks, r) /\ UNCHANGED <<wasBad, samples, signals, job>>
    BY <1>5, <2>1 DEF Slo!Receive
  <2>3. r \in SloHook /\ r.status # "FAILED"
    BY <1>1, <2>1 DEF SloHook
  <2>4. /\ \A h \in DOMAIN webhooks : webhooks'[h] = webhooks[h]
        /\ DOMAIN webhooks' = DOMAIN webhooks \cup {Len(webhooks) + 1}
        /\ webhooks'[Len(webhooks) + 1] = r
    BY <1>1, <2>2, <2>3, SloGrows
  <2>5. QED
    BY <1>0, <1>2, <2>2, <2>3, <2>4
<1>6. ASSUME NEW h \in DOMAIN webhooks, Slo!Settle(h) PROVE CauseInv'
  <2>1. PICK status \in {"FAILED", "PROCESSED"} :
          /\ webhooks' = [webhooks EXCEPT ![h].status = status]
          /\ wasBad' = IF status = "FAILED" THEN wasBad \cup {h} ELSE wasBad
    BY <1>6 DEF Slo!Settle
  <2>2. PICK r : r = [webhooks[h] EXCEPT !.status = status]
    OBVIOUS
  <2>3. webhooks[h] \in SloHook
    BY <1>1, LenProperties, ElementOfSeq
  <2>4. r.at = webhooks[h].at /\ r.status = status
    BY <2>2, <2>3 DEF SloHook
  <2>5. DOMAIN webhooks' = DOMAIN webhooks /\ \A k \in DOMAIN webhooks : webhooks'[k] = IF k = h THEN r ELSE webhooks[k]
    BY <2>1, <2>2
  <2>6. \A k \in DOMAIN webhooks' : webhooks'[k].status = "FAILED" => k \in wasBad'
    BY <1>0, <2>1, <2>4, <2>5
  <2>7. wasBad \subseteq wasBad' /\ \A k \in DOMAIN webhooks : webhooks'[k].at = webhooks[k].at
    BY <2>1, <2>4, <2>5
  <2>8. QED
    BY <1>2, <1>6, <2>6, <2>7 DEF Slo!Settle
<1>7. ASSUME UNCHANGED <<webhooks, wasBad, samples, signals>>, job' = job \/ ~(job'.bad > 0) PROVE CauseInv'
  BY <1>0, <1>2, <1>7
<1>8. ASSUME Slo!QueueMoves \/ Slo!Snapshot \/ UNCHANGED Slo!vars PROVE CauseInv'
  BY <1>7, <1>8 DEF Slo!QueueMoves, Slo!Snapshot, Slo!vars
<1>9. ASSUME Slo!Tick PROVE CauseInv'
  <2>1. job' = job \/ job'.bad = -1
    BY <1>9 DEF Slo!Tick, Slo!Idle
  <2>2. QED
    BY <1>4, <1>7, <1>9, <2>1 DEF Slo!Tick
<1>10. ASSUME Slo!RunRollup PROVE CauseInv'
  <2>1. job'.bad = -1
    BY <1>10 DEF Slo!RunRollup, Slo!Idle
  <2>2. QED
    BY <1>4, <1>7, <1>10, <2>1 DEF Slo!RunRollup
<1>11. ASSUME Slo!SweepExpired PROVE CauseInv'
  BY <1>4, <1>7, <1>11 DEF Slo!SweepExpired
<1>12. ASSUME Slo!RollupFails PROVE CauseInv'
  <2>1. job'.bad = -1
    BY <1>12 DEF Slo!RollupFails, Slo!Idle
  <2>2. QED
    BY <1>4, <1>7, <1>12, <2>1 DEF Slo!RollupFails
<1>13. ASSUME Slo!WebhookErrorRatio PROVE CauseInv'
  <2>1. PICK total : total = {h \in DOMAIN webhooks : Slo!Recent(h)}
    OBVIOUS
  <2>2. PICK bad : bad = {h \in total : webhooks[h].status = "FAILED"}
    OBVIOUS
  <2>3. PICK n, m : n = Slo!Cardinality(total) /\ m = Slo!Cardinality(bad)
    OBVIOUS
  <2>4. bad \subseteq DOMAIN webhooks /\ \A h \in bad : h \in wasBad /\ webhooks[h].at + Lookback >= job.at
    BY <1>0, <2>1, <2>2 DEF Slo!Recent
  <2>5. m \in Nat /\ (m > 0 => Trouble(job.at))
    <3>1. m \in Nat /\ (bad = {} => m = 0)
      BY <2>3, <2>4, SloCounts
    <3>2. ASSUME m > 0 PROVE Trouble(job.at)
      <4>1. PICK h : h \in bad
        BY <3>1, <3>2
      <4>2. QED
        BY <2>4, <4>1 DEF Trouble
    <3>3. QED
      BY <3>1, <3>2
  <2>6. job' = [job EXCEPT !.total = n] \/ job' = [job EXCEPT !.bad = m]
    BY <1>13, <2>1, <2>2, <2>3 DEF Slo!WebhookErrorRatio
  <2>7. job'.at = job.at /\ (job'.bad = job.bad \/ job'.bad = m)
    BY <1>1, <2>6 DEF SloJob
  <2>8. UNCHANGED <<webhooks, wasBad, samples, signals>>
    BY <1>13 DEF Slo!WebhookErrorRatio
  <2>9. job'.bad > 0 => Trouble(job'.at)
    BY <1>0, <2>5, <2>7
  <2>10. QED
    BY <1>0, <1>3, <2>8, <2>9 DEF CauseInv, Trouble, Near
<1>14. ASSUME Slo!AppendSample PROVE CauseInv'
  <2>1. PICK e : e = [at |-> job.at, value |-> IF job.total = 0 THEN 0 ELSE (job.bad * Units) \div job.total]
    OBVIOUS
  <2>2. /\ job.total >= 0 /\ job.bad >= 0
        /\ samples' = Append(samples, e) /\ job' = [job EXCEPT !.pc = "evaluate"]
        /\ UNCHANGED <<webhooks, wasBad, signals>>
    BY <1>14, <2>1 DEF Slo!AppendSample
  <2>3. job.at \in Nat /\ job.total \in Int /\ job.bad \in Int /\ Units \in Nat
    BY <1>1 DEF SloJob, Slo!Configured
  <2>4. e.at = job.at /\ e \in SloSample /\ (e.value > 0 => job.bad > 0)
    <3>1. PICK v : v = IF job.total = 0 THEN 0 ELSE (job.bad * Units) \div job.total
      OBVIOUS
    <3>2. v \in Int /\ (v > 0 => job.bad > 0)
      <4>1. CASE job.total = 0
        BY <3>1, <4>1
      <4>2. CASE job.total # 0
        <5>1. PICK m, k : m = job.bad * Units /\ k = job.total
          OBVIOUS
        <5>2. m \in Int /\ k \in Int /\ k > 0
          BY <2>2, <2>3, <4>2, <5>1
        <5>3. m \div k \in Int
          BY <5>2
        <5>4. job.bad = 0 => m = 0
          BY <2>3, <5>1
        <5>5. m = 0 => m \div k = 0
          BY <5>2
        <5>6. v = m \div k
          BY <3>1, <4>2, <5>1
        <5>7. QED
          BY <2>2, <2>3, <5>3, <5>4, <5>5, <5>6
      <4>3. QED
        BY <4>1, <4>2
    <3>3. e = [at |-> job.at, value |-> v]
      BY <2>1, <3>1
    <3>4. QED
      BY <2>3, <3>2, <3>3 DEF SloSample
  <2>5. /\ DOMAIN samples' = DOMAIN samples \cup {Len(samples) + 1}
        /\ \A i \in DOMAIN samples : samples'[i] = samples[i]
        /\ samples'[Len(samples) + 1] = e
    BY <1>1, <2>2, <2>4, SloGrows
  <2>6. job'.at = job.at /\ job'.bad = job.bad
    BY <1>1, <2>2 DEF SloJob
  <2>7. \A i \in DOMAIN samples' : samples'[i].value > 0 => Trouble(samples'[i].at)
    <3>1. e.value > 0 => Trouble(e.at)
      BY <1>0, <2>4
    <3>2. QED
      BY <1>0, <2>5, <3>1
  <2>8. job'.bad > 0 => Trouble(job'.at)
    BY <1>0, <2>6
  <2>9. QED
    BY <1>0, <1>3, <2>2, <2>7, <2>8 DEF CauseInv, Trouble, Near
<1>15. ASSUME Slo!Evaluate PROVE CauseInv'
  <2>1. UNCHANGED <<webhooks, wasBad, samples, time>>
    BY <1>15 DEF Slo!Evaluate
  <2>2. CASE Slo!Best = <<>>
    <3>1. job' = [job EXCEPT !.pc = "sweep"] /\ signals' = signals
      BY <1>15, <2>2 DEF Slo!Evaluate
    <3>2. job'.at = job.at /\ job'.bad = job.bad
      BY <1>1, <3>1 DEF SloJob
    <3>3. QED
      BY <1>0, <1>3, <2>1, <3>1, <3>2 DEF CauseInv, Trouble, Near
  <2>3. ASSUME NEW b \in DOMAIN Tiers, Slo!Best = <<b>>, Slo!TierFires(Tiers[b]) PROVE CauseInv'
    <3>1. PICK a : a = [tier |-> b, at |-> time]
      OBVIOUS
    <3>2. Slo!Best # <<>> /\ Slo!Best[1] = b
      BY <2>3
    <3>3. job' = [job EXCEPT !.pc = "audit", !.alert = <<a>>] /\ signals' = signals \o job'.alert
      BY <1>15, <3>1, <3>2 DEF Slo!Evaluate
    <3>4. a \in SloAlert /\ a.tier = b /\ a.at = time
      BY <1>1, <3>1 DEF SloAlert
    <3>5. job'.at = job.at /\ job'.bad = job.bad /\ job'.alert = <<a>>
      BY <1>1, <3>3 DEF SloJob
    <3>6. /\ DOMAIN signals' = DOMAIN signals \cup {Len(signals) + 1}
          /\ \A i \in DOMAIN signals : signals'[i] = signals[i]
          /\ signals'[Len(signals) + 1] = a
      BY <1>1, <3>3, <3>4, <3>5, SloGrows
    <3>7. Near(a)
      BY <2>3, <3>4, FiringIsNear DEF Near
    <3>8. \A i \in DOMAIN signals' : Near(signals'[i])
      BY <1>0, <3>6, <3>7
    <3>9. QED
      BY <1>0, <1>3, <2>1, <3>5, <3>8 DEF CauseInv, Trouble, Near
  <2>4. QED
    BY <2>2, <2>3, BestIs
<1>16. ASSUME Slo!AppendAudit PROVE CauseInv'
  <2>1. job' = [job EXCEPT !.pc = "sweep"] /\ UNCHANGED <<webhooks, wasBad, samples, signals>>
    BY <1>16 DEF Slo!AppendAudit
  <2>2. job'.at = job.at /\ job'.bad = job.bad
    BY <1>1, <2>1 DEF SloJob
  <2>3. QED
    BY <1>0, <1>3, <2>1, <2>2 DEF CauseInv, Trouble, Near
<1>17. QED
  BY <1>5, <1>6, <1>8, <1>9, <1>10, <1>11, <1>12, <1>13, <1>14, <1>15, <1>16 DEF Slo!Next

-----------------------------------------------------------------------------
(* Operations: what is said, and what is left unsaid.                      *)

Signalled(a) == \E k \in DOMAIN signals : signals[k] = a

\* Of the first k samples each paging tier has one in its long window that is below its rate at n, or none
\* in its short one.
Quiet(n, k) ==
  \A i \in DOMAIN Tiers : Tiers[i].severity = "page" =>
    \/ \E j \in 1 .. k : samples[j].at + Tiers[i].long >= n /\ samples[j].value < Tiers[i].rate
    \/ \A j \in 1 .. k : samples[j].at + Tiers[i].short < n

\* What is or will be audited was told; where no page was, there was no reason; and so of the tile.
SaidInv ==
  /\ \A i \in DOMAIN audits : Signalled(audits[i])
  /\ job.pc = "audit" =>
       \A a : job.alert = <<a>> => /\ Signalled(a)
                                   /\ Tiers[a.tier].severity # "page" => Quiet(a.at, Len(samples))
  /\ ~ended.page => Quiet(ended.at, ended.seen)
  /\ tile.shown = "idle" => ~tile.reached \/ ~tile.had

\* Nothing has been said.
LEMMA SaidInit == Slo!Init => SaidInv
<1>. SUFFICES ASSUME Slo!Init PROVE SaidInv
  OBVIOUS
<1>1. DOMAIN <<>> = {} /\ audits = <<>> /\ job.pc = "idle" /\ ended.page = TRUE /\ tile.shown = "none"
  BY DEF Slo!Init, Slo!Idle
<1>2. QED
  BY <1>1 DEF SaidInv

\* When no paging tier fires, there is no reason to page.
LEMMA QuietWhenNoneFires ==
  ASSUME Slo!Configured, SloTypes,
         \A i \in DOMAIN Tiers : Tiers[i].severity = "page" => ~Slo!TierFires(Tiers[i])
  PROVE  Quiet(time, Len(samples))
<1>. SUFFICES ASSUME NEW i \in DOMAIN Tiers, Tiers[i].severity = "page"
              PROVE  \/ \E j \in 1 .. Len(samples) :
                          samples[j].at + Tiers[i].long >= time /\ samples[j].value < Tiers[i].rate
                     \/ \A j \in 1 .. Len(samples) : samples[j].at + Tiers[i].short < time
  BY DEF Quiet
<1>1. Tiers[i] \in Slo!Tier /\ Tiers[i].short <= Tiers[i].long
  <2>1. DOMAIN Tiers = 1 .. Len(Tiers)
    BY LenProperties DEF Slo!Configured
  <2>2. QED
    BY <2>1, ElementOfSeq DEF Slo!Configured
<1>2. PICK long, short, rate : long = Tiers[i].long /\ short = Tiers[i].short /\ rate = Tiers[i].rate
  OBVIOUS
<1>3. long \in Nat /\ short \in Nat /\ short <= long /\ rate \in Nat
  BY <1>1, <1>2 DEF Slo!Tier
<1>4. ~Slo!Burns(long, rate) \/ ~Slo!Burns(short, rate)
  BY <1>2 DEF Slo!TierFires
<1>5. samples \in Seq([at : Nat, value : Int]) /\ time \in Nat
  BY DEF SloTypes, SloSample
<1>6. DOMAIN samples = 1 .. Len(samples) /\ \A j \in DOMAIN samples : samples[j].at \in Nat
  <2>1. DOMAIN samples = 1 .. Len(samples)
    BY <1>5, LenProperties
  <2>2. \A j \in 1 .. Len(samples) : samples[j] \in [at : Nat, value : Int]
    BY <1>5, ElementOfSeq
  <2>3. QED
    BY <2>1, <2>2
<1>7. CASE ~Slo!Burns(long, rate)
  <2>1. CASE \A j \in DOMAIN samples : samples[j].at + long < time
    <3>1. ASSUME NEW j \in DOMAIN samples PROVE samples[j].at + short < time
      <4>1. PICK e : e = samples[j].at
        OBVIOUS
      <4>2. e \in Nat /\ e + long < time
        BY <1>6, <2>1, <4>1
      <4>3. e + short < time
        BY <1>3, <1>5, <4>2
      <4>4. QED
        BY <4>1, <4>3
    <3>2. QED
      BY <1>2, <1>6, <3>1
  <2>2. CASE \E j \in DOMAIN samples : samples[j].at + long >= time /\ samples[j].value < rate
    BY <1>2, <1>6, <2>2
  <2>3. QED
    BY <1>3, <1>5, <1>7, <2>1, <2>2, BurnsIs
<1>8. CASE ~Slo!Burns(short, rate)
  <2>1. CASE \A j \in DOMAIN samples : samples[j].at + short < time
    BY <1>2, <1>6, <2>1
  <2>2. ASSUME NEW j \in DOMAIN samples, samples[j].at + short >= time, samples[j].value < rate
        PROVE  samples[j].at + long >= time
    <3>1. PICK e : e = samples[j].at
      OBVIOUS
    <3>2. e \in Nat /\ e + short >= time
      BY <1>6, <2>2, <3>1
    <3>3. e + long >= time
      BY <1>3, <1>5, <3>2
    <3>4. QED
      BY <3>1, <3>3
  <2>3. CASE \E j \in DOMAIN samples : samples[j].at + short >= time /\ samples[j].value < rate
    BY <1>2, <1>6, <2>2, <2>3
  <2>4. QED
    BY <1>3, <1>5, <1>8, <2>1, <2>3, BurnsIs
<1>9. QED
  BY <1>4, <1>7, <1>8

\* Samples that come later change nothing of that.
LEMMA QuietStays ==
  ASSUME NEW n, NEW k \in Nat, Quiet(n, k), \A j \in 1 .. k : samples'[j] = samples[j]
  PROVE  \A i \in DOMAIN Tiers : Tiers[i].severity = "page" =>
           \/ \E j \in 1 .. k : samples'[j].at + Tiers[i].long >= n /\ samples'[j].value < Tiers[i].rate
           \/ \A j \in 1 .. k : samples'[j].at + Tiers[i].short < n
BY DEF Quiet

\* The log, the alerts and the tile stay true.
LEMMA SaidStep ==
  ASSUME Slo!Configured, SloTypes, SloPast, SaidInv, [Slo!Next]_(Slo!vars)
  PROVE  SaidInv'
<1>0. /\ \A i \in DOMAIN audits : Signalled(audits[i])
      /\ job.pc = "audit" =>
           \A a : job.alert = <<a>> => /\ Signalled(a)
                                       /\ Tiers[a.tier].severity # "page" => Quiet(a.at, Len(samples))
      /\ ~ended.page => Quiet(ended.at, ended.seen)
      /\ tile.shown = "idle" => ~tile.reached \/ ~tile.had
  BY DEF SaidInv
<1>1. samples \in Seq(SloSample) /\ signals \in Seq(SloAlert) /\ audits \in Seq(SloAlert) /\ job \in SloJob
      /\ time \in Nat /\ Len(samples) \in Nat /\ ended.seen \in Nat /\ ended.seen <= Len(samples)
  BY LenProperties DEF SloTypes, SloPast
<1>2. ASSUME UNCHANGED <<samples, signals, audits, ended, tile>>, job' = job \/ job'.pc # "audit"
      PROVE  SaidInv'
  BY <1>0, <1>2 DEF SaidInv, Signalled, Quiet
<1>3. Slo!Idle.pc = "idle"
  BY DEF Slo!Idle
<1>4. ASSUME \/ Slo!Receive \/ Slo!QueueMoves \/ UNCHANGED Slo!vars
             \/ \E h \in DOMAIN webhooks : Slo!Settle(h)
      PROVE  SaidInv'
  BY <1>2, <1>4 DEF Slo!Receive, Slo!QueueMoves, Slo!Settle, Slo!vars
<1>5. ASSUME Slo!Tick PROVE SaidInv'
  <2>1. job' = job \/ job'.pc = "waiting"
    BY <1>5 DEF Slo!Tick, Slo!Idle
  <2>2. QED
    BY <1>2, <1>5, <2>1 DEF Slo!Tick
<1>6. ASSUME Slo!RunRollup PROVE SaidInv'
  <2>1. job'.pc = "sample"
    BY <1>6 DEF Slo!RunRollup, Slo!Idle
  <2>2. QED
    BY <1>2, <1>6, <2>1 DEF Slo!RunRollup
<1>7. ASSUME Slo!WebhookErrorRatio PROVE SaidInv'
  <2>1. PICK n, m : job' = [job EXCEPT !.total = n] \/ job' = [job EXCEPT !.bad = m]
    BY <1>7 DEF Slo!WebhookErrorRatio
  <2>2. job.pc = "sample"
    BY <1>7 DEF Slo!WebhookErrorRatio
  <2>3. job'.pc = "sample"
    BY <1>1, <2>1, <2>2 DEF SloJob
  <2>4. QED
    BY <1>2, <1>7, <2>3 DEF Slo!WebhookErrorRatio
<1>8. ASSUME Slo!SweepExpired PROVE SaidInv'
  BY <1>2, <1>3, <1>8 DEF Slo!SweepExpired
<1>9. ASSUME Slo!RollupFails PROVE SaidInv'
  <2>1. job'.pc \in {"idle", "waiting"}
    BY <1>9 DEF Slo!RollupFails, Slo!Idle
  <2>2. QED
    BY <1>2, <1>9, <2>1 DEF Slo!RollupFails
<1>10. ASSUME Slo!Snapshot PROVE SaidInv'
  <2>1. PICK reached \in BOOLEAN :
          tile' = [shown |-> Slo!ClassifyLiveness(Slo!LiveQueueStats(reached)),
                   had |-> queue.waiting + queue.completed + queue.failed > 0, reached |-> reached]
    BY <1>10 DEF Slo!Snapshot
  <2>2. UNCHANGED <<samples, signals, audits, ended, job>>
    BY <1>10 DEF Slo!Snapshot
  <2>3. PICK had \in BOOLEAN : had <=> queue.waiting + queue.completed + queue.failed > 0
    OBVIOUS
  <2>4. PICK shown : shown = Slo!ClassifyLiveness(Slo!LiveQueueStats(reached))
    OBVIOUS
  <2>5. shown = "idle" /\ reached => queue.waiting + queue.completed + queue.failed = 0
    BY <2>4 DEF Slo!ClassifyLiveness, Slo!LiveQueueStats
  <2>6. ~(0 > 0)
    OBVIOUS
  <2>7. shown = "idle" => ~reached \/ ~had
    BY <2>3, <2>5, <2>6
  <2>8. (queue.waiting + queue.completed + queue.failed > 0) = had
    BY <2>3
  <2>9. tile' = [shown |-> shown, had |-> had, reached |-> reached]
    BY <2>1, <2>4, <2>8
  <2>10. tile'.shown = "idle" => ~tile'.reached \/ ~tile'.had
    BY <2>7, <2>9, Zenon
  <2>11. QED
    BY <1>0, <2>2, <2>10 DEF SaidInv, Signalled, Quiet
<1>11. ASSUME Slo!AppendSample PROVE SaidInv'
  <2>1. PICK e : e = [at |-> job.at, value |-> IF job.total = 0 THEN 0 ELSE (job.bad * Units) \div job.total]
    OBVIOUS
  <2>2. /\ samples' = Append(samples, e) /\ job' = [job EXCEPT !.pc = "evaluate"]
        /\ UNCHANGED <<signals, audits, ended, tile>>
    BY <1>11, <2>1 DEF Slo!AppendSample
  <2>3. job'.pc = "evaluate"
    BY <1>1, <2>2 DEF SloJob
  <2>4. \A j \in 1 .. Len(samples) : samples'[j] = samples[j]
    BY <1>1, <2>2, LenProperties
  <2>5. \A j \in 1 .. ended.seen : samples'[j] = samples[j]
    BY <1>1, <2>4
  <2>6. ~ended.page =>
          \A i \in DOMAIN Tiers : Tiers[i].severity = "page" =>
            \/ \E j \in 1 .. ended.seen : samples'[j].at + Tiers[i].long >= ended.at /\ samples'[j].value < Tiers[i].rate
            \/ \A j \in 1 .. ended.seen : samples'[j].at + Tiers[i].short < ended.at
    BY <1>0, <1>1, <2>5, QuietStays
  <2>7. QED
    BY <1>0, <2>2, <2>3, <2>6 DEF SaidInv, Signalled, Quiet
<1>12. ASSUME Slo!Evaluate PROVE SaidInv'
  <2>1. UNCHANGED <<samples, audits, tile>>
    BY <1>12 DEF Slo!Evaluate
  <2>2. CASE Slo!Best = <<>> /\ \A i \in DOMAIN Tiers : ~Slo!TierFires(Tiers[i])
    <3>1. /\ job' = [job EXCEPT !.pc = "sweep"] /\ signals' = signals
          /\ ended' = [at |-> time, seen |-> Len(samples), page |-> FALSE]
      BY <1>12, <2>2 DEF Slo!Evaluate
    <3>2. job'.pc = "sweep" /\ ended'.at = time /\ ended'.seen = Len(samples)
      BY <1>1, <3>1 DEF SloJob
    <3>3. Quiet(time, Len(samples))
      BY <2>2, QuietWhenNoneFires
    <3>4. QED
      BY <1>0, <2>1, <3>1, <3>2, <3>3 DEF SaidInv, Signalled, Quiet
  <2>3. ASSUME NEW b \in DOMAIN Tiers, Slo!Best = <<b>>,
               Tiers[b].severity # "page" =>
                 \A i \in DOMAIN Tiers : Tiers[i].severity = "page" => ~Slo!TierFires(Tiers[i])
        PROVE  SaidInv'
    <3>1. PICK a : a = [tier |-> b, at |-> time]
      OBVIOUS
    <3>2. Slo!Best # <<>> /\ Slo!Best[1] = b
      BY <2>3
    <3>3. job' = [job EXCEPT !.pc = "audit", !.alert = <<a>>] /\ signals' = signals \o job'.alert /\ ended' = ended
      BY <1>12, <3>1, <3>2 DEF Slo!Evaluate
    <3>4. a \in SloAlert /\ a.tier = b /\ a.at = time
      BY <1>1, <3>1 DEF SloAlert
    <3>5. job'.pc = "audit" /\ job'.alert = <<a>>
      BY <1>1, <3>3 DEF SloJob
    <3>6. /\ DOMAIN signals' = DOMAIN signals \cup {Len(signals) + 1}
          /\ \A i \in DOMAIN signals : signals'[i] = signals[i]
          /\ signals'[Len(signals) + 1] = a
      BY <1>1, <3>3, <3>4, <3>5, SloGrows
    <3>7. \A i \in DOMAIN audits : \E k \in DOMAIN signals' : signals'[k] = audits[i]
      BY <1>0, <3>6 DEF Signalled
    <3>8. \E k \in DOMAIN signals' : signals'[k] = a
      BY <3>6
    <3>9. Tiers[a.tier].severity # "page" => Quiet(time, Len(samples))
      BY <2>3, <3>4, QuietWhenNoneFires
    <3>10. \A c : job'.alert = <<c>> => c = a
      BY <3>5
    <3>11. QED
      BY <1>0, <2>1, <3>3, <3>4, <3>5, <3>7, <3>8, <3>9, <3>10 DEF SaidInv, Signalled, Quiet
  <2>4. QED
    BY <2>2, <2>3, BestIs
<1>13. ASSUME Slo!AppendAudit PROVE SaidInv'
  <2>1. /\ audits' = audits \o job.alert /\ job' = [job EXCEPT !.pc = "sweep"]
        /\ ended' = [at |-> job.alert[1].at, seen |-> Len(samples),
                     page |-> Tiers[job.alert[1].tier].severity = "page"]
        /\ UNCHANGED <<samples, signals, tile>> /\ job.pc = "audit"
    BY <1>13 DEF Slo!AppendAudit
  <2>2. PICK a \in SloAlert : job.alert = <<a>>
    BY <2>1 DEF SloPast
  <2>3. /\ DOMAIN audits' = DOMAIN audits \cup {Len(audits) + 1}
        /\ \A i \in DOMAIN audits : audits'[i] = audits[i]
        /\ audits'[Len(audits) + 1] = a
    BY <1>1, <2>1, <2>2, SloGrows
  <2>4. Signalled(a) /\ (Tiers[a.tier].severity # "page" => Quiet(a.at, Len(samples)))
    BY <1>0, <2>1, <2>2
  <2>5. job'.pc = "sweep"
    BY <1>1, <2>1 DEF SloJob
  <2>6. PICK paged \in BOOLEAN : paged <=> Tiers[a.tier].severity = "page"
    OBVIOUS
  <2>7. ended' = [at |-> a.at, seen |-> Len(samples), page |-> paged]
    <3>1. job.alert[1] = a /\ (Tiers[a.tier].severity = "page") = paged
      BY <2>2, <2>6
    <3>2. QED
      BY <2>1, <3>1
  <2>8. ended'.at = a.at /\ ended'.seen = Len(samples)
    BY <2>7
  <2>9. ended'.page = paged
    BY <2>7, Zenon
  <2>10. ~ended'.page => Quiet(a.at, Len(samples))
    BY <2>4, <2>6, <2>9, Zenon
  <2>11. \A i \in DOMAIN audits' : Signalled(audits'[i])
    BY <1>0, <2>3, <2>4
  <2>12. QED
    BY <1>0, <2>1, <2>5, <2>8, <2>10, <2>11 DEF SaidInv, Signalled, Quiet
<1>14. QED
  BY <1>4, <1>5, <1>6, <1>7, <1>8, <1>9, <1>10, <1>11, <1>12, <1>13 DEF Slo!Next

-----------------------------------------------------------------------------
(* Operations: the theorems.                                               *)

SloInv == SloTypes /\ SloPast /\ CauseInv /\ SaidInv

\* What was to be shown is a part of it.
LEMMA SloIsSafe == ASSUME Slo!Configured, SloInv PROVE Slo!TypeOK /\ Slo!SloIsTold
<1>1. SloTypes /\ SloPast /\ CauseInv /\ SaidInv
  BY DEF SloInv
<1>2. Slo!TypeOK
  <2>1. \A h \in DOMAIN webhooks : webhooks[h].at <= time /\ webhooks[h].status \in {"RECEIVED", "FAILED", "PROCESSED"}
    <3>1. \A h \in DOMAIN webhooks : webhooks[h] \in SloHook
      BY <1>1, LenProperties, ElementOfSeq DEF SloTypes
    <3>2. QED
      BY <1>1, <3>1 DEF SloHook, SloPast
  <2>2. /\ job.pc \in {"idle", "waiting", "sample", "evaluate", "audit", "sweep"} /\ job.attempt <= Attempts
    BY <1>1 DEF SloTypes, SloJob, Slo!Configured
  <2>3. \A i \in DOMAIN signals : signals[i].tier \in DOMAIN Tiers
    <3>1. \A i \in DOMAIN signals : signals[i] \in SloAlert
      BY <1>1, LenProperties, ElementOfSeq DEF SloTypes
    <3>2. QED
      BY <3>1 DEF SloAlert
  <2>4. tile.shown \in {"none", "idle", "healthy", "stale"}
    BY <1>1 DEF SloTypes
  <2>5. QED
    BY <1>1, <2>1, <2>2, <2>3, <2>4 DEF Slo!TypeOK, SloTypes, SloPast
<1>3. Slo!SloIsTold
  BY <1>1 DEF Slo!SloIsTold, CauseInv, SaidInv, Near, Signalled, Quiet
<1>4. QED
  BY <1>2, <1>3

\* Types; what an alert is about, and why a page is not.
THEOREM SloSafety == ASSUME Slo!Configured PROVE Slo!Spec => [](Slo!TypeOK /\ Slo!SloIsTold)
<1>1. Slo!Init => SloInv
  BY SloTypeInit, CauseInit, SaidInit DEF SloInv
<1>2. SloInv /\ [Slo!Next]_(Slo!vars) => SloInv'
  BY SloTypeStep, CauseStep, SaidStep DEF SloInv
<1>3. SloInv => Slo!TypeOK /\ Slo!SloIsTold
  BY SloIsSafe
<1>4. QED
  BY <1>1, <1>2, <1>3, PTL DEF Slo!Spec

\* Operations among the console's parts: an alert is about webhooks that failed within reach of its tier's short
\* window, an audited alert was told, trouble that lasts is paged also when attempts fail and sample twice, and a queue
\* with jobs is not shown as idle while it is reached (SloService.evaluate, OpsMetricsService.runRollup, classifyLiveness).
THEOREM SloIsToldHolds == ConsoleSpec => []SloIsTold
<1>1. [ConsoleNext]_allVars => part' = part
  BY DEF ConsoleNext, allVars, Moves
<1>2. ConsoleInit /\ part = "slo" => Slo!Init
  BY DEF ConsoleInit
<1>3. [ConsoleNext]_allVars /\ part = "slo" => [Slo!Next]_(Slo!vars)
  BY DEF ConsoleNext, allVars, Slo!vars, slo, Moves
<1>4. Slo!Spec => [](Slo!TypeOK /\ Slo!SloIsTold)
  BY SloSafety, ConstantsAssumption DEF ConstantsAssumption
<1>5. part = "slo" /\ part' = part => (part = "slo")'
  OBVIOUS
<1>6. part # "slo" /\ part' = part => (part # "slo")'
  OBVIOUS
<1>7. (part # "slo" => SloIsTold) /\ (Slo!TypeOK /\ Slo!SloIsTold => SloIsTold)
  BY DEF SloIsTold
<1>8. part = "slo" \/ part # "slo"
  OBVIOUS
<1>9. QED
  BY <1>1, <1>2, <1>3, <1>4, <1>5, <1>6, <1>7, <1>8, PTL DEF ConsoleSpec, Slo!Spec
=============================================================================
