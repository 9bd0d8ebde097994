------------------------------ MODULE BreakGlass ------------------------------
(***************************************************************************)
(* Break-glass grants: who may see protected data right now.  A grant is   *)
(* requested, approved or denied, revoked, and expired by the sweep that   *)
(* ends every operations rollup; revealPii and startImpersonation ask for  *)
(* a live one, act, and append an audit row.                               *)
(*                                                                         *)
(* approve, deny and revoke are transactions that read the grant and later *)
(* update it by id, whatever it has become (READ COMMITTED, no version in  *)
(* the WHERE clause); the commit carries the update and its audit row.     *)
(* Time is counted in ticks; a transaction that is not over TxTimeout      *)
(* ticks after its call is rolled back by the database client.             *)
(***************************************************************************)
EXTENDS Naturals, FiniteSets

CONSTANTS
  Grants,       \* the grants users request
  Users, Admins,
  Shops,
  Wanted,       \* user, scope and shop of each grant
  Sensitive,    \* the scopes that need an approval
  Calls,        \* approve, deny and revoke calls
  Uses,         \* reveals and impersonation starts
  TTL,          \* BREAK_GLASS_TTL_MINUTES
  TxTimeout,    \* longest time from a call to the commit of its transaction
  SweepTake,    \* how many grants one sweep reads
  MaxFaults,    \* how many sweeps and uses fail half way
  LastCall      \* bound: no request, approval, denial or revocation starts later

Scopes  == {"PII_REVEAL", "IMPERSONATION"}
AnyShop == "any shop"
Horizon == LastCall + TTL

ASSUME ConstantsAssumption ==
  /\ Admins \subseteq Users
  /\ AnyShop \notin Shops
  /\ Wanted \in [Grants -> [user : Users, scope : Scopes, shop : Shops \cup {AnyShop}]]
  /\ \A g \in Grants : Wanted[g].scope = "IMPERSONATION" => Wanted[g].user \in Admins
  /\ Sensitive \subseteq Scopes
  /\ TTL \in Nat /\ TxTimeout \in Nat /\ 2 * TxTimeout < TTL
  /\ SweepTake \in Nat \ {0} /\ MaxFaults \in Nat /\ LastCall \in Nat

VARIABLES
  status, expiresAt,  \* the grant rows
  trail,              \* breakglass.* audit rows of each grant
  call, use,          \* transactions and uses in progress
  useAudits,          \* the uses with an audit row
  sweep,              \* what the sweep has read and not yet expired
  now, faults

vars == <<status, expiresAt, trail, call, use, useAudits, sweep, now, faults>>

Statuses == {"absent", "REQUESTED", "ACTIVE", "EXPIRED", "REVOKED", "DENIED"}
Ops      == {"approve", "deny", "revoke"}
Rows     == [action : {"requested", "activated", "expired"} \cup Ops, at : Nat]

Init ==
  /\ status = [g \in Grants |-> "absent"]
  /\ expiresAt = [g \in Grants |-> 0]
  /\ trail = [g \in Grants |-> {}]
  /\ call = [c \in Calls |-> [pc |-> "idle"]]
  /\ use = [u \in Uses |-> [pc |-> "idle"]]
  /\ useAudits = {}
  /\ sweep = {}
  /\ now = 0
  /\ faults = 0

\* The database client rolls back the transactions that have run out of time.
Tick ==
  /\ now < Horizon
  /\ now' = now + 1
  /\ call' = [c \in Calls |-> IF call[c].pc = "read" /\ call[c].at + TxTimeout <= now
                              THEN [pc |-> "over"] ELSE call[c]]
  /\ UNCHANGED <<status, expiresAt, trail, use, useAudits, sweep, faults>>

Fault == faults < MaxFaults /\ faults' = faults + 1

Audit(g, action, at) == trail' = [trail EXCEPT ![g] = @ \cup {[action |-> action, at |-> at]}]

-----------------------------------------------------------------------------
(* The grant's life.                                                       *)

Request(g) ==
  LET sensitive == Wanted[g].scope \in Sensitive IN
  /\ now <= LastCall
  /\ status[g] = "absent"
  /\ status' = [status EXCEPT ![g] = IF sensitive THEN "REQUESTED" ELSE "ACTIVE"]
  /\ expiresAt' = [expiresAt EXCEPT ![g] = now + TTL]
  /\ Audit(g, IF sensitive THEN "requested" ELSE "activated", now)
  /\ UNCHANGED <<call, use, useAudits, sweep, now, faults>>

\* Mutant: an approval may also renew a grant that is active already.
FromRenewing(op) == IF op = "deny" THEN {"REQUESTED"} ELSE {"REQUESTED", "ACTIVE"}

\* The statuses an operation starts from; APPROVED is never written.
From(op) == IF op = "revoke" THEN {"REQUESTED", "ACTIVE"} ELSE {"REQUESTED"}

\* Mutant: an approval is recorded as such and waits for somebody to activate it.
ToApproved(op) ==
  CASE op = "approve" -> "APPROVED"
    [] op = "deny"    -> "DENIED"
    [] op = "revoke"  -> "REVOKED"

To(op) ==
  CASE op = "approve" -> "ACTIVE"
    [] op = "deny"    -> "DENIED"
    [] op = "revoke"  -> "REVOKED"

\* The transaction's read; a status it does not start from ends it.
TransitionRead(c, op, g) ==
  /\ now <= LastCall
  /\ call[c].pc = "idle"
  /\ status[g] # "absent"
  /\ call' = [call EXCEPT ![c] = IF status[g] \in From(op)
                                 THEN [pc |-> "read", op |-> op, grant |-> g, at |-> now]
                                 ELSE [pc |-> "over"]]
  /\ UNCHANGED <<status, expiresAt, trail, use, useAudits, sweep, now, faults>>

TransitionCommit(c) ==
  LET g == call[c].grant  op == call[c].op IN
  /\ call[c].pc = "read"
  /\ status' = [status EXCEPT ![g] = To(op)]
  /\ expiresAt' = IF op = "approve" THEN [expiresAt EXCEPT ![g] = call[c].at + TTL] ELSE expiresAt
  /\ Audit(g, op, call[c].at)
  /\ call' = [call EXCEPT ![c] = [pc |-> "over"]]
  /\ UNCHANGED <<use, useAudits, sweep, now, faults>>

\* The update or the audit row fails: nothing is written.
TransitionAbort(c) ==
  /\ call[c].pc = "read"
  /\ call' = [call EXCEPT ![c] = [pc |-> "over"]]
  /\ UNCHANGED <<status, expiresAt, trail, use, useAudits, sweep, now, faults>>

-----------------------------------------------------------------------------
(* The sweep: one read, then one transaction per grant, in a loop.         *)

\* Mutant: the sweep looks for a status that is never written.
OverdueApproved == {g \in Grants : status[g] = "APPROVED" /\ expiresAt[g] <= now}

Overdue == {g \in Grants : status[g] = "ACTIVE" /\ expiresAt[g] <= now}

\* The rows come in no particular order, SweepTake of them at most.
SweepList ==
  /\ sweep = {}
  /\ Overdue # {}
  /\ sweep' \in {s \in SUBSET Overdue : s = Overdue \/ Cardinality(s) = SweepTake}
  /\ Cardinality(sweep') <= SweepTake
  /\ UNCHANGED <<status, expiresAt, trail, call, use, useAudits, now, faults>>

\* The status is not looked at again.
SweepExpire(g) ==
  /\ g \in sweep
  /\ sweep' = sweep \ {g}
  /\ status' = [status EXCEPT ![g] = "EXPIRED"]
  /\ Audit(g, "expired", now)
  /\ UNCHANGED <<expiresAt, call, use, useAudits, now, faults>>

\* One transaction throws: the rollup job fails and the rest of the list is dropped.
SweepFault ==
  /\ sweep # {}
  /\ Fault
  /\ sweep' = {}
  /\ UNCHANGED <<status, expiresAt, trail, call, use, useAudits, now>>

-----------------------------------------------------------------------------
(* Using a grant.                                                          *)

\* Only reveals name a shop; a grant for any shop, or for one, covers an impersonation.
Covers(g, user, scope, shop) ==
  /\ Wanted[g].user = user
  /\ Wanted[g].scope = scope
  /\ scope = "PII_REVEAL" => Wanted[g].shop \in {shop, AnyShop}

\* Mutant: the enforcement relies on the sweep and forgets expiresAt.
LiveUnlessSwept(g) == status[g] = "ACTIVE"

Live(g) == status[g] = "ACTIVE" /\ expiresAt[g] > now

\* requireActiveGrant: the covering live grant that lasts longest, or FORBIDDEN.
Authorize(u, user, scope, shop) ==
  LET live == {g \in Grants : Live(g) /\ Covers(g, user, scope, shop)} IN
  /\ use[u].pc = "idle"
  /\ scope = "IMPERSONATION" => user \in Admins
  /\ \/ /\ live = {}
        /\ use' = [use EXCEPT ![u] = [pc |-> "refused"]]
     \/ \E g \in live :
          /\ \A h \in live : expiresAt[h] <= expiresAt[g]
          /\ use' = [use EXCEPT ![u] = [pc |-> "authorized", grant |-> g, user |-> user,
                                        scope |-> scope, shop |-> shop, at |-> now]]
  /\ UNCHANGED <<status, expiresAt, trail, call, useAudits, sweep, now, faults>>

\* A reveal reads the value from the app's replica; an impersonation has nothing to read.
ReadValue(u) ==
  /\ use[u].pc = "authorized"
  /\ use[u].scope = "PII_REVEAL"
  /\ use' = [use EXCEPT ![u].pc = "read"]
  /\ UNCHANGED <<status, expiresAt, trail, call, useAudits, sweep, now, faults>>

\* merchant.pii.view or impersonation.start
AuditUse(u) ==
  /\ \/ use[u].pc = "read"
     \/ use[u].pc = "authorized" /\ use[u].scope = "IMPERSONATION"
  /\ useAudits' = useAudits \cup {u}
  /\ use' = [use EXCEPT ![u].pc = "audited"]
  /\ UNCHANGED <<status, expiresAt, trail, call, sweep, now, faults>>

\* The answer leaves the server.
Return(u) ==
  /\ use[u].pc = "audited"
  /\ use' = [use EXCEPT ![u].pc = "returned"]
  /\ UNCHANGED <<status, expiresAt, trail, call, useAudits, sweep, now, faults>>

\* The replica or the audit insert fails, or the process dies.
UseFault(u) ==
  /\ use[u].pc \in {"authorized", "read", "audited"}
  /\ Fault
  /\ use' = [use EXCEPT ![u] = [pc |-> "refused"]]
  /\ UNCHANGED <<status, expiresAt, trail, call, useAudits, sweep, now>>

-----------------------------------------------------------------------------
Next ==
  \/ Tick
  \/ \E g \in Grants : Request(g) \/ SweepExpire(g)
  \/ \E c \in Calls :
       \/ \E op \in Ops, g \in Grants : TransitionRead(c, op, g)
       \/ TransitionCommit(c) \/ TransitionAbort(c)
  \/ SweepList \/ SweepFault
  \/ \E u \in Uses :
       \/ \E user \in Users, scope \in Scopes, shop \in Shops : Authorize(u, user, scope, shop)
       \/ ReadValue(u) \/ AuditUse(u) \/ Return(u) \/ UseFault(u)

Spec == Init /\ [][Next]_vars

\* Time passes, the repeatable rollup job comes round again, and a sweep that
\* does not fail goes through its list.  Nothing else is owed.
Fairness == WF_vars(Tick) /\ WF_vars(SweepList) /\ WF_vars(\E g \in Grants : SweepExpire(g))

FairSpec == Spec /\ Fairness
-----------------------------------------------------------------------------
TypeOK ==
  /\ status \in [Grants -> Statuses]
  /\ expiresAt \in [Grants -> Nat]
  /\ trail \in [Grants -> SUBSET Rows]
  /\ call \in [Calls -> [pc : {"idle", "over"}] \cup
                        [pc : {"read"}, op : Ops, grant : Grants, at : Nat]]
  /\ use \in [Uses -> [pc : {"idle", "refused"}] \cup
                      [pc : {"authorized", "read", "audited", "returned"}, grant : Grants,
                       user : Users, scope : Scopes, shop : Shops, at : Nat]]
  /\ useAudits \subseteq Uses
  /\ sweep \subseteq Grants
  /\ now \in Nat /\ faults \in Nat

\* The audit row that made grant g active at a time that covers t.
Explains(row, g, t) ==
  /\ row.action = IF Wanted[g].scope \in Sensitive THEN "approve" ELSE "activated"
  /\ row.at <= t /\ t < row.at + TTL

\* Every disclosure can be justified from the audit log alone: it has its own row, and
\* the grant it used covers the actor and the shop and was self-activated, or
\* approved if its scope is sensitive, less than one TTL earlier (request, approve,
\* requireActiveGrant, revealPii, startImpersonation).
JustifiedAccess ==
  \A u \in Uses : use[u].pc = "returned" =>
    /\ u \in useAudits
    /\ Covers(use[u].grant, use[u].user, use[u].scope, use[u].shop)
    /\ \E row \in trail[use[u].grant] : Explains(row, use[u].grant, use[u].at)

\* The sweep writes from a list that may be stale, yet it never ends a grant before its
\* time: what it expires is overdue.  This rests on the transaction timeout being
\* short next to the TTL.
ExpiredIsOverdue == \A g \in Grants : status[g] = "EXPIRED" => expiresAt[g] <= now

\* No grant stays ACTIVE for ever, even if nobody revokes it and sweeps fail half way.
ActiveEnds == \A g \in Grants : status[g] = "ACTIVE" ~> status[g] # "ACTIVE"

\* "An expired or revoked grant SHALL NOT authorize access": the grant a use is
\* authorized by has not been revoked or expired by a transition that is committed.
EndedNeverAuthorizes ==
  [][\A u \in Uses : use[u].pc = "idle" /\ use'[u].pc = "authorized" =>
       \A row \in trail[use'[u].grant] : row.action \notin {"revoke", "expired"}]_vars
=============================================================================
