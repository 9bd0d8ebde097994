----------------------------- MODULE FeatureFlags -----------------------------
(***************************************************************************)
(* Feature flags: the registry that administrators edit, the overrides for *)
(* single shops, and the evaluation that the app pulls for a shop.  A      *)
(* change is one transaction with its audit row: it reads or deletes       *)
(* first, and what it writes is seen when it commits.                      *)
(***************************************************************************)
EXTENDS Naturals, FiniteSets

CONSTANTS
  Operators,   \* administrators with the page open
  Flags,       \* keys of flags
  Shops,
  Bucket,      \* the bucket of a shop on a flag, from 0
  Percents,    \* rollout percentages, in buckets; 0 is none
  MaxChanges   \* bound: changes begun

VARIABLES
  flags,       \* FeatureFlag by key (NoFlag: no row)
  overrides,   \* FeatureFlagOverride by key and shop ("none": no row)
  changing,    \* transactions that have read or deleted, and not committed
  page,        \* per administrator: the list on the page
  pull,        \* per shop: the evaluation in progress
  told,        \* observation only: what the last audit row of a key and shop says
  raced,       \* observation only: keys and shops that two transactions changed at once
  changes

vars == <<flags, overrides, changing, page, pull, told, raced, changes>>

NoFlag == [there |-> FALSE, on |-> FALSE, pct |-> 0]
Flag(on, pct) == [there |-> TRUE, on |-> on, pct |-> pct]
Nothing == [k \in Flags |-> "none"]
Quiet == [pc |-> "idle"]

Init ==
  /\ flags = [k \in Flags |-> NoFlag]
  /\ overrides = [k \in Flags |-> [s \in Shops |-> "none"]]
  /\ changing = {}
  /\ page = [a \in Operators |-> [k \in Flags |-> NoFlag]]
  /\ pull = [s \in Shops |-> Quiet]
  /\ told = overrides
  /\ raced = {}
  /\ changes = MaxChanges

-----------------------------------------------------------------------------
(* featureFlagEval.                                                        *)

\* An override first, then the rollout if there is one, then the default.
IsEnabled(flag, override, k, s) ==
  IF override # "none" THEN override = "on"
  ELSE IF flag.pct > 0 THEN Bucket[k][s] < flag.pct ELSE flag.on

\* What a shop is to be told of a flag.
Effective(fs, os, k, s) ==
  IF ~fs[k].there THEN "absent" ELSE IF IsEnabled(fs[k], os[k][s], k, s) THEN "on" ELSE "off"

\* What changes while a shop's evaluation runs.
Watch ==
  pull' = [s \in Shops |->
    IF pull[s].pc # "reading" THEN pull[s]
    ELSE [pull[s] EXCEPT
            !.ever = [k \in Flags |-> @[k] \cup {Effective(flags', overrides', k, s)}],
            !.moved = @ \cup {<<k, "flag">> : k \in {f \in Flags : flags'[f] # flags[f]}}
                        \cup {<<k, "shop">> : k \in {f \in Flags : overrides'[f][s] # overrides[f][s]}}]]

Change == changes > 0 /\ changes' = changes - 1

-----------------------------------------------------------------------------
(* FeatureFlagService and the page.                                        *)

List(a) ==
  /\ page' = [page EXCEPT ![a] = flags]
  /\ UNCHANGED <<flags, overrides, changing, pull, told, raced, changes>>

Create(k) ==
  /\ Change /\ ~flags[k].there
  /\ \E on \in BOOLEAN, pct \in Percents : flags' = [flags EXCEPT ![k] = Flag(on, pct)]
  /\ UNCHANGED <<overrides, changing, page, told, raced>>
  /\ Watch

\* A flag whose row another transaction has deleted is waited for.
Deleting(k) == \E c \in changing : c.kind = "remove" /\ c.key = k

Update(k) ==
  /\ Change /\ flags[k].there /\ ~Deleting(k)
  /\ \E pct \in Percents \ {flags[k].pct} : flags' = [flags EXCEPT ![k].pct = pct]
  /\ UNCHANGED <<overrides, changing, page, told, raced>>
  /\ Watch

\* The page asks for the opposite of what it shows.
ToggleDefault(a, k) ==
  /\ Change /\ page[a][k].there /\ flags[k].there /\ ~Deleting(k)
  /\ flags' = [flags EXCEPT ![k].on = ~page[a][k].on]
  /\ UNCHANGED <<overrides, changing, page, told, raced>>
  /\ Watch

\* A transaction that has begun: the key, the shops it is about, and what it found.
Tx(kind, k, shops, value, found) ==
  [kind |-> kind, n |-> changes, key |-> k, shops |-> shops, value |-> value, found |-> found]

Present(k) == {s \in Shops : overrides[k][s] # "none"}

\* Whether a transaction has deleted the row and not committed.
Locked(k, s) == \E c \in changing : c.kind # "set" /\ c.key = k /\ s \in c.found

\* setOverride looks for the row.
FindOverride(k, s) ==
  /\ Change
  /\ \E v \in {"on", "off"} : changing' = changing \cup {Tx("set", k, {s}, v, Present(k) \cap {s})}
  /\ UNCHANGED <<flags, overrides, page, pull, told, raced>>

\* clearOverride deletes the row, if there is one.
DeleteOverride(k, s) ==
  /\ Change
  /\ ~Locked(k, s)
  /\ changing' = changing \cup {Tx("clear", k, {s}, "none", Present(k) \cap {s})}
  /\ UNCHANGED <<flags, overrides, page, pull, told, raced>>

\* remove deletes the flag and then its overrides.
DeleteFlag(k) ==
  /\ Change
  /\ flags[k].there /\ ~Deleting(k)
  /\ \A s \in Shops : ~Locked(k, s)
  /\ changing' = changing \cup {Tx("remove", k, Shops, "none", Present(k))}
  /\ UNCHANGED <<flags, overrides, page, pull, told, raced>>

\* The rows that a transaction leaves, and what the audit rows then say.
Left(c) ==
  /\ flags' = IF c.kind = "remove" THEN [flags EXCEPT ![c.key] = NoFlag] ELSE flags
  /\ overrides' = [overrides EXCEPT ![c.key] =
       [s \in Shops |-> IF s \in (IF c.kind = "set" THEN c.shops ELSE c.found) THEN c.value ELSE @[s]]]
  /\ told' = [told EXCEPT ![c.key] = [s \in Shops |-> IF s \in c.shops THEN c.value ELSE @[s]]]
  /\ raced' = (raced \ {r \in {c.key} \X c.shops : c.kind = "set"}) \cup
                 ({c.key} \X {s \in c.shops : \E d \in changing \ {c} : d.key = c.key /\ s \in d.shops})

\* Mutant: the overrides of a flag that is deleted stay.
CommitLeavesOverrides(c) ==
  /\ c.kind = "set" => ~Locked(c.key, CHOOSE s \in c.shops : TRUE) /\ c.found = c.shops \cap Present(c.key)
  /\ IF c.kind # "remove" THEN Left(c)
     ELSE /\ flags' = [flags EXCEPT ![c.key] = NoFlag]
          /\ told' = [told EXCEPT ![c.key] = [s \in Shops |-> "none"]]
          /\ UNCHANGED <<overrides, raced>>
  /\ changing' = changing \ {c}
  /\ UNCHANGED <<page, changes>>
  /\ Watch

\* An override that was found is updated by its id, one that was not is created; the row
\* must still be there, or still not.
Commit(c) ==
  /\ c.kind = "set" => ~Locked(c.key, CHOOSE s \in c.shops : TRUE) /\ c.found = c.shops \cap Present(c.key)
  /\ Left(c)
  /\ changing' = changing \ {c}
  /\ UNCHANGED <<page, changes>>
  /\ Watch

\* The transaction rolls back: the row is not as it was found, a statement fails, or the
\* process dies.
RollBack(c) ==
  /\ changing' = changing \ {c}
  /\ UNCHANGED <<flags, overrides, page, pull, told, raced, changes>>

-----------------------------------------------------------------------------
(* evaluateForShop: two reads, in either order.                            *)

Pull(s) ==
  /\ pull[s].pc = "idle"
  /\ pull' = [pull EXCEPT ![s] = [pc |-> "reading", read |-> {}, flags |-> flags, shop |-> Nothing,
                                  ever |-> [k \in Flags |-> {Effective(flags, overrides, k, s)}], moved |-> {}]]
  /\ UNCHANGED <<flags, overrides, changing, page, told, raced, changes>>

ReadFlags(s) ==
  /\ pull[s].pc = "reading" /\ "flags" \notin pull[s].read
  /\ pull' = [pull EXCEPT ![s].flags = flags, ![s].read = @ \cup {"flags"}]
  /\ UNCHANGED <<flags, overrides, changing, page, told, raced, changes>>

ReadOverrides(s) ==
  /\ pull[s].pc = "reading" /\ "shop" \notin pull[s].read
  /\ pull' = [pull EXCEPT ![s].shop = [k \in Flags |-> overrides[k][s]], ![s].read = @ \cup {"shop"}]
  /\ UNCHANGED <<flags, overrides, changing, page, told, raced, changes>>

\* What the shop is told.
Answer(s, k) ==
  Effective(pull[s].flags, [j \in Flags |-> [t \in Shops |-> pull[s].shop[j]]], k, s)

Respond(s) ==
  /\ pull[s].pc = "reading" /\ pull[s].read = {"flags", "shop"}
  /\ pull' = [pull EXCEPT ![s] = Quiet]
  /\ UNCHANGED <<flags, overrides, changing, page, told, raced, changes>>

Next ==
  \/ \E a \in Operators : List(a) \/ \E k \in Flags : ToggleDefault(a, k)
  \/ \E k \in Flags :
       \/ Create(k) \/ Update(k) \/ DeleteFlag(k)
       \/ \E s \in Shops : FindOverride(k, s) \/ DeleteOverride(k, s)
  \/ \E c \in changing : Commit(c) \/ RollBack(c)
  \/ \E s \in Shops : Pull(s) \/ ReadFlags(s) \/ ReadOverrides(s) \/ Respond(s)

Spec == Init /\ [][Next]_vars
-----------------------------------------------------------------------------
FlagRows == {NoFlag} \cup [there : {TRUE}, on : BOOLEAN, pct : Percents]
Values == {"none", "on", "off"}
Transaction == [kind : {"set", "clear", "remove"}, n : Nat, key : Flags, shops : SUBSET Shops, value : Values,
                found : SUBSET Shops]
Evaluation == [pc : {"reading"}, read : SUBSET {"flags", "shop"}, flags : [Flags -> FlagRows], shop : [Flags -> Values],
               ever : [Flags -> SUBSET {"absent", "on", "off"}], moved : SUBSET (Flags \X {"flag", "shop"})]

TypeOK ==
  /\ flags \in [Flags -> FlagRows] /\ page \in [Operators -> [Flags -> FlagRows]]
  /\ overrides \in [Flags -> [Shops -> Values]] /\ told \in [Flags -> [Shops -> Values]]
  /\ changing \subseteq Transaction
  /\ \A c \in changing : c.found \subseteq c.shops /\ (c.kind # "set" <=> c.value = "none")
  /\ pull \in [Shops -> {Quiet} \cup Evaluation]
  /\ raced \subseteq Flags \X Shops /\ changes \in Nat

\* The audit log says which override is in force, also after the flag was deleted and created
\* again, unless two transactions changed it at once; and an evaluation tells a shop nothing
\* of a flag that was not so at some moment while it ran, unless both the flag and the shop's
\* override changed meanwhile (FeatureFlagService.remove, setOverride, clearOverride, evaluateForShop).
FlagsAreTold ==
  /\ \A k \in Flags, s \in Shops : <<k, s>> \notin raced => overrides[k][s] = told[k][s]
  /\ \A s \in Shops : pull[s].pc = "reading" /\ pull[s].read = {"flags", "shop"} =>
       \A k \in Flags : {<<k, "flag">>, <<k, "shop">>} \subseteq pull[s].moved \/ Answer(s, k) \in pull[s].ever[k]
=============================================================================
