-------------------------- MODULE BreakGlassProofs --------------------------
(***************************************************************************)
(* The safety invariants of BreakGlass hold for any number of grants,      *)
(* users, transactions, uses and faults, and for any TTL of more than      *)
(* twice the transaction timeout.                                          *)
(***************************************************************************)
EXTENDS BreakGlass, TLAPS

Pending(c, op, g) == call[c].pc = "read" /\ call[c].op = op /\ call[c].grant = g

OpenCalls == [pc : {"read"}, op : Ops, grant : Grants, at : Nat]
OpenUses  == [pc : {"authorized", "read", "audited", "returned"}, grant : Grants,
              user : Users, scope : Scopes, shop : Shops, at : Nat]

-----------------------------------------------------------------------------
(* Types.                                                                  *)

\* Every step of the model keeps the states well formed.
LEMMA NextTypes ==
  ASSUME TypeOK, Next
  PROVE  TypeOK'
<1> USE ConstantsAssumption DEF Statuses, Rows, Ops, Scopes
<1>1. CASE Tick
  BY <1>1 DEF Tick, TypeOK
<1>2. ASSUME NEW g \in Grants, Request(g)  PROVE TypeOK'
  <2>1. /\ status' \in [Grants -> Statuses] /\ expiresAt' \in [Grants -> Nat]
        /\ trail' \in [Grants -> SUBSET Rows]
    BY <1>2 DEF Request, Audit, TypeOK
  <2>2. QED BY <1>2, <2>1 DEF Request, TypeOK
<1>3. ASSUME NEW g \in Grants, SweepExpire(g)  PROVE TypeOK'
  BY <1>3 DEF SweepExpire, Audit, TypeOK
<1>4. ASSUME NEW c \in Calls, NEW op \in Ops, NEW g \in Grants, TransitionRead(c, op, g)  PROVE TypeOK'
  BY <1>4 DEF TransitionRead, TypeOK
<1>5. ASSUME NEW c \in Calls, TransitionCommit(c)  PROVE TypeOK'
  <2>1. call[c] \in OpenCalls
    BY <1>5 DEF TransitionCommit, TypeOK, OpenCalls
  <2>2. /\ status' = [status EXCEPT ![call[c].grant] = To(call[c].op)]
        /\ \/ expiresAt' = [expiresAt EXCEPT ![call[c].grant] = call[c].at + TTL]
           \/ expiresAt' = expiresAt
        /\ Audit(call[c].grant, call[c].op, call[c].at)
        /\ call' = [call EXCEPT ![c] = [pc |-> "over"]]
        /\ UNCHANGED <<use, useAudits, sweep, now, faults>>
    BY <1>5 DEF TransitionCommit
  <2>3. To(call[c].op) \in Statuses
    BY <2>1 DEF To, OpenCalls
  <2>4. trail' \in [Grants -> SUBSET Rows]
    BY <2>1, <2>2 DEF Audit, OpenCalls, TypeOK
  <2>5. status' \in [Grants -> Statuses]
    BY <2>1, <2>2, <2>3 DEF TypeOK
  <2>6. expiresAt' \in [Grants -> Nat]
    BY <2>1, <2>2 DEF TypeOK, OpenCalls
  <2>7. call' \in [Calls -> [pc : {"idle", "over"}] \cup OpenCalls]
    BY <2>2 DEF TypeOK, OpenCalls
  <2>8. QED BY <2>2, <2>4, <2>5, <2>6, <2>7 DEF TypeOK, OpenCalls
<1>6. ASSUME NEW c \in Calls, TransitionAbort(c)  PROVE TypeOK'
  BY <1>6 DEF TransitionAbort, TypeOK
<1>7. CASE SweepList
  BY <1>7 DEF SweepList, Overdue, TypeOK
<1>8. CASE SweepFault
  BY <1>8 DEF SweepFault, Fault, TypeOK
<1>9. ASSUME NEW u \in Uses, NEW user \in Users, NEW scope \in Scopes, NEW shop \in Shops,
             Authorize(u, user, scope, shop)
      PROVE  TypeOK'
  <2>1. \/ use' = [use EXCEPT ![u] = [pc |-> "refused"]]
        \/ \E g \in Grants :
             use' = [use EXCEPT ![u] = [pc |-> "authorized", grant |-> g, user |-> user,
                                        scope |-> scope, shop |-> shop, at |-> now]]
    BY <1>9 DEF Authorize
  <2>2. UNCHANGED <<status, expiresAt, trail, call, useAudits, sweep, now, faults>>
    BY <1>9 DEF Authorize
  <2>3. QED BY <2>1, <2>2 DEF TypeOK
<1>10. ASSUME NEW u \in Uses, ReadValue(u) \/ AuditUse(u) \/ Return(u)  PROVE TypeOK'
  <2>1. use[u] \in OpenUses
    BY <1>10 DEF ReadValue, AuditUse, Return, TypeOK, OpenUses
  <2>2. \E pc \in {"read", "audited", "returned"} : use' = [use EXCEPT ![u].pc = pc]
    BY <1>10 DEF ReadValue, AuditUse, Return
  <2>3. use' \in [Uses -> [pc : {"idle", "refused"}] \cup OpenUses]
    BY <2>1, <2>2 DEF TypeOK, OpenUses
  <2>4. QED BY <1>10, <2>3 DEF ReadValue, AuditUse, Return, TypeOK, OpenUses
<1>11. ASSUME NEW u \in Uses, UseFault(u)  PROVE TypeOK'
  BY <1>11 DEF UseFault, Fault, TypeOK
<1>12. QED BY <1>1, <1>2, <1>3, <1>4, <1>5, <1>6, <1>7, <1>8, <1>9, <1>10, <1>11 DEF Next

\* Every reachable state is well formed; in particular APPROVED is never written.
THEOREM TypeCorrect == Spec => []TypeOK
<1>1. Init => TypeOK
  BY DEF Init, TypeOK, Statuses
<1>2. TypeOK /\ [Next]_vars => TypeOK'
  BY NextTypes DEF vars, TypeOK
<1>3. QED BY <1>1, <1>2, PTL DEF Spec

-----------------------------------------------------------------------------
(* ExpiredIsOverdue.  A pending approval read REQUESTED not long ago.  If  *)
(* the grant is active nevertheless, another approval made it so after     *)
(* that read, and the TTL outlasts both transactions: the sweep cannot     *)
(* have listed the grant, and what it has listed no approval is to touch.  *)

NotYetOver ==
  /\ \A g \in Grants : status[g] = "EXPIRED" => expiresAt[g] <= now
  /\ \A g \in sweep : expiresAt[g] <= now /\ status[g] \notin {"absent", "REQUESTED"}
  /\ \A c \in Calls : call[c].pc = "read" =>
       /\ call[c].at <= now /\ now <= call[c].at + TxTimeout
       /\ status[call[c].grant] # "absent"
  /\ \A c \in Calls, g \in Grants : Pending(c, "approve", g) =>
       /\ g \notin sweep
       /\ status[g] # "EXPIRED"
       /\ status[g] = "ACTIVE" => expiresAt[g] > call[c].at + TxTimeout

\* No step expires a grant early, however stale what it has read.
LEMMA KeepsNotYetOver ==
  ASSUME TypeOK, NotYetOver, Next
  PROVE  NotYetOver'
<1>t. /\ status \in [Grants -> Statuses] /\ expiresAt \in [Grants -> Nat]
      /\ call \in [Calls -> [pc : {"idle", "over"}] \cup OpenCalls]
      /\ sweep \subseteq Grants /\ now \in Nat
      /\ TTL \in Nat /\ TxTimeout \in Nat /\ 2 * TxTimeout < TTL
  BY ConstantsAssumption DEF TypeOK, OpenCalls
<1>1. CASE Tick
  <2>1. /\ UNCHANGED <<status, expiresAt, sweep>> /\ now' = now + 1
        /\ \A c \in Calls : call'[c].pc = "read" => call'[c] = call[c] /\ now < call[c].at + TxTimeout
    BY <1>1, <1>t DEF Tick, OpenCalls
  <2>2. QED BY <1>t, <2>1 DEF NotYetOver, Pending, OpenCalls
<1>2. ASSUME NEW g \in Grants, Request(g)  PROVE NotYetOver'
  <2>1. /\ status[g] = "absent" /\ UNCHANGED <<call, sweep, now>>
        /\ \A h \in Grants : h # g => status'[h] = status[h] /\ expiresAt'[h] = expiresAt[h]
        /\ status'[g] \in {"REQUESTED", "ACTIVE"}
    BY <1>2, <1>t DEF Request
  <2>2. \A c \in Calls : call[c].pc = "read" => call[c].grant \in Grants /\ call[c].grant # g
    BY <1>t, <2>1 DEF NotYetOver, OpenCalls
  <2>3. g \notin sweep
    BY <2>1 DEF NotYetOver
  <2>4. QED BY <1>t, <2>1, <2>2, <2>3 DEF NotYetOver, Pending
<1>3. ASSUME NEW g \in Grants, SweepExpire(g)  PROVE NotYetOver'
  BY <1>3, <1>t DEF SweepExpire, NotYetOver, Pending
<1>4. ASSUME NEW c \in Calls, NEW op \in Ops, NEW g \in Grants, TransitionRead(c, op, g)  PROVE NotYetOver'
  <2>1. CASE status[g] \in From(op)
    <3>1. /\ call' = [call EXCEPT ![c] = [pc |-> "read", op |-> op, grant |-> g, at |-> now]]
          /\ status[g] # "absent" /\ UNCHANGED <<status, expiresAt, sweep, now>>
      BY <1>4, <2>1 DEF TransitionRead
    <3>2. op = "approve" => status[g] = "REQUESTED"
      BY <2>1 DEF From
    <3>3. QED BY <1>t, <3>1, <3>2 DEF NotYetOver, Pending
  <2>2. CASE status[g] \notin From(op)
    BY <1>4, <1>t, <2>2 DEF TransitionRead, NotYetOver, Pending
  <2>3. QED BY <2>1, <2>2
<1>5. ASSUME NEW c \in Calls, TransitionCommit(c)  PROVE NotYetOver'
  <2> DEFINE g == call[c].grant
  <2>1. /\ call[c] \in OpenCalls /\ call[c].pc = "read" /\ g \in Grants /\ call[c].at \in Nat
        /\ call' = [call EXCEPT ![c] = [pc |-> "over"]]
        /\ status' = [status EXCEPT ![g] = To(call[c].op)]
        /\ expiresAt' = IF call[c].op = "approve" THEN [expiresAt EXCEPT ![g] = call[c].at + TTL]
                                                  ELSE expiresAt
        /\ UNCHANGED <<sweep, now>>
    BY <1>5, <1>t DEF TransitionCommit, OpenCalls
  <2>2. CASE call[c].op = "approve"
    <3>1. status'[g] = "ACTIVE" /\ expiresAt'[g] = call[c].at + TTL /\ g \notin sweep
      BY <1>t, <2>1, <2>2 DEF To, NotYetOver, Pending
    <3>2. \A h \in Grants : h # g => status'[h] = status[h] /\ expiresAt'[h] = expiresAt[h]
      BY <1>t, <2>1, <2>2
    <3>3. now <= call[c].at + TxTimeout
      BY <2>1 DEF NotYetOver
    <3>4. \A b \in Calls : call'[b].pc = "read" => call'[b] = call[b] /\ call[b].pc = "read"
      BY <1>t, <2>1
    <3>5. \A b \in Calls : call[b].pc = "read" => call[b].at \in Nat /\ call[b].at <= now
      BY <1>t DEF NotYetOver, OpenCalls
    <3>6. QED BY <1>t, <2>1, <3>1, <3>2, <3>3, <3>4, <3>5 DEF NotYetOver, Pending
  <2>3. CASE call[c].op # "approve"
    <3>1. status'[g] \in {"DENIED", "REVOKED"}
      BY <1>t, <2>1, <2>3 DEF To, OpenCalls, Ops
    <3>2. QED BY <1>t, <2>1, <2>3, <3>1 DEF NotYetOver, Pending
  <2>4. QED BY <2>2, <2>3
<1>6. ASSUME NEW c \in Calls, TransitionAbort(c)  PROVE NotYetOver'
  BY <1>6, <1>t DEF TransitionAbort, NotYetOver, Pending
<1>7. CASE SweepList
  <2>1. /\ UNCHANGED <<status, expiresAt, call, now>>
        /\ \A g \in sweep' : g \in Grants /\ status[g] = "ACTIVE" /\ expiresAt[g] <= now
    BY <1>7 DEF SweepList, Overdue
  <2>2. \A c \in Calls : call[c].pc = "read" => call[c].at \in Nat /\ now <= call[c].at + TxTimeout
    BY <1>t DEF NotYetOver, OpenCalls
  <2>3. QED BY <1>t, <2>1, <2>2 DEF NotYetOver, Pending
<1>8. CASE SweepFault
  BY <1>8 DEF SweepFault, NotYetOver, Pending
<1>9. ASSUME NEW u \in Uses,
             \/ \E user \in Users, scope \in Scopes, shop \in Shops : Authorize(u, user, scope, shop)
             \/ ReadValue(u) \/ AuditUse(u) \/ Return(u) \/ UseFault(u)
      PROVE  NotYetOver'
  <2>1. UNCHANGED <<status, expiresAt, call, sweep, now>>
    BY <1>9 DEF Authorize, ReadValue, AuditUse, Return, UseFault
  <2>2. QED BY <2>1 DEF NotYetOver, Pending
<1>10. QED BY <1>1, <1>2, <1>3, <1>4, <1>5, <1>6, <1>7, <1>8, <1>9 DEF Next

\* The sweep never ends a grant before its time, because a transaction cannot outlast
\* half the TTL.
THEOREM ExpiredIsOverdueHolds == Spec => []ExpiredIsOverdue
<1>1. Init => NotYetOver
  BY DEF Init, NotYetOver, Pending
<1>2. TypeOK /\ NotYetOver /\ [Next]_vars => NotYetOver'
  BY KeepsNotYetOver DEF vars, NotYetOver, Pending
<1>3. NotYetOver => ExpiredIsOverdue
  BY DEF NotYetOver, ExpiredIsOverdue
<1>4. QED BY <1>1, <1>2, <1>3, TypeCorrect, PTL DEF Spec

-----------------------------------------------------------------------------
(* JustifiedAccess.  An active grant has the audit row that set its        *)
(* expiresAt, and only a sensitive grant is ever to be approved.           *)

\* The audit row that made g active and set its expiresAt.
Activates(row, g) ==
  /\ row.action = IF Wanted[g].scope \in Sensitive THEN "approve" ELSE "activated"
  /\ row.at <= now
  /\ expiresAt[g] = row.at + TTL

Traceable ==
  /\ \A g \in Grants : status[g] = "ACTIVE" => \E row \in trail[g] : Activates(row, g)
  /\ \A g \in Grants : status[g] = "REQUESTED" => Wanted[g].scope \in Sensitive
  /\ \A c \in Calls : call[c].pc = "read" => call[c].at <= now /\ status[call[c].grant] # "absent"
  /\ \A c \in Calls, g \in Grants : Pending(c, "approve", g) => Wanted[g].scope \in Sensitive

Justified ==
  \A u \in Uses : use[u].pc \in {"authorized", "read", "audited", "returned"} =>
    /\ use[u].pc \in {"audited", "returned"} => u \in useAudits
    /\ Covers(use[u].grant, use[u].user, use[u].scope, use[u].shop)
    /\ \E row \in trail[use[u].grant] : Explains(row, use[u].grant, use[u].at)

\* The trail is append-only.
LEMMA TrailGrows ==
  ASSUME TypeOK, Next
  PROVE  \A g \in Grants : trail[g] \subseteq trail'[g]
<1>t. trail \in [Grants -> SUBSET Rows]
  BY DEF TypeOK
<1>1. ASSUME NEW g \in Grants, NEW row,
             trail' = [trail EXCEPT ![g] = @ \cup {row}]
      PROVE  \A h \in Grants : trail[h] \subseteq trail'[h]
  BY <1>1, <1>t
<1>2. ASSUME NEW g \in Grants, Request(g) \/ SweepExpire(g)  PROVE \A h \in Grants : trail[h] \subseteq trail'[h]
  BY <1>1, <1>2 DEF Request, SweepExpire, Audit
<1>3. ASSUME NEW c \in Calls, TransitionCommit(c)  PROVE \A h \in Grants : trail[h] \subseteq trail'[h]
  <2>1. call[c].grant \in Grants
    BY <1>3 DEF TransitionCommit, TypeOK
  <2>2. QED BY <1>1, <1>3, <2>1 DEF TransitionCommit, Audit
<1>4. UNCHANGED trail \/ (\E g \in Grants : Request(g) \/ SweepExpire(g)) \/ (\E c \in Calls : TransitionCommit(c))
  BY DEF Next, Tick, TransitionRead, TransitionAbort, SweepList, SweepFault, Authorize,
         ReadValue, AuditUse, Return, UseFault
<1>5. QED BY <1>2, <1>3, <1>4

\* Whatever transactions race, an active grant can be traced to its audit row.
LEMMA KeepsTraceable ==
  ASSUME TypeOK, Traceable, Next
  PROVE  Traceable'
<1>t. /\ status \in [Grants -> Statuses] /\ expiresAt \in [Grants -> Nat]
      /\ trail \in [Grants -> SUBSET Rows]
      /\ call \in [Calls -> [pc : {"idle", "over"}] \cup OpenCalls]
      /\ sweep \subseteq Grants /\ now \in Nat /\ TTL \in Nat
  BY ConstantsAssumption DEF TypeOK, OpenCalls
<1>g. \A g \in Grants : trail[g] \subseteq trail'[g]
  BY TrailGrows
<1>1. CASE Tick
  <2>1. /\ UNCHANGED <<status, expiresAt, trail>> /\ now' = now + 1
        /\ \A c \in Calls : call'[c].pc = "read" => call'[c] = call[c]
    BY <1>1, <1>t DEF Tick
  <2>2. \A g \in Grants, row \in Rows : Activates(row, g) => Activates(row, g)'
    BY <1>t, <2>1 DEF Activates, Rows
  <2>3. \A c \in Calls : call'[c].pc = "read" => call'[c].at <= now'
    BY <1>t, <2>1 DEF Traceable, OpenCalls
  <2>4. QED BY <1>t, <2>1, <2>2, <2>3 DEF Traceable, Pending
<1>2. ASSUME NEW g \in Grants, Request(g)  PROVE Traceable'
  <2> DEFINE row == [action |-> IF Wanted[g].scope \in Sensitive THEN "requested" ELSE "activated", at |-> now]
  <2>1. /\ status[g] = "absent" /\ UNCHANGED <<call, now>>
        /\ status' = [status EXCEPT ![g] = IF Wanted[g].scope \in Sensitive THEN "REQUESTED" ELSE "ACTIVE"]
        /\ expiresAt' = [expiresAt EXCEPT ![g] = now + TTL]
        /\ trail' = [trail EXCEPT ![g] = @ \cup {row}]
    BY <1>2 DEF Request, Audit
  <2>2. \A c \in Calls : call[c].pc = "read" => call[c].grant \in Grants /\ call[c].grant # g
    BY <1>t, <2>1 DEF Traceable, OpenCalls
  <2>3. status'[g] = "ACTIVE" => row \in trail'[g] /\ Activates(row, g)'
    BY <1>t, <2>1 DEF Activates
  <2>4. \A h \in Grants : h # g => status'[h] = status[h] /\ expiresAt'[h] = expiresAt[h] /\ trail'[h] = trail[h]
    BY <1>t, <2>1
  <2>5. \A h \in Grants : \A r : h # g /\ Activates(r, h) => Activates(r, h)'
    BY <2>1, <2>4 DEF Activates
  <2>6. status'[g] = "REQUESTED" => Wanted[g].scope \in Sensitive
    BY <1>t, <2>1
  <2>7. QED BY <2>1, <2>2, <2>3, <2>4, <2>5, <2>6 DEF Traceable, Pending
<1>3. ASSUME NEW g \in Grants, SweepExpire(g)  PROVE Traceable'
  <2>1. /\ status' = [status EXCEPT ![g] = "EXPIRED"] /\ UNCHANGED <<expiresAt, call, now>>
    BY <1>3 DEF SweepExpire
  <2>2. \A h \in Grants : \A r : Activates(r, h) => Activates(r, h)'
    BY <2>1 DEF Activates
  <2>3. QED BY <1>t, <1>g, <2>1, <2>2 DEF Traceable, Pending
<1>4. ASSUME NEW c \in Calls, NEW op \in Ops, NEW g \in Grants, TransitionRead(c, op, g)  PROVE Traceable'
  <2>1. /\ UNCHANGED <<status, expiresAt, trail, now>> /\ status[g] # "absent"
        /\ \/ /\ call' = [call EXCEPT ![c] = [pc |-> "read", op |-> op, grant |-> g, at |-> now]]
              /\ op = "approve" => status[g] = "REQUESTED"
           \/ call' = [call EXCEPT ![c] = [pc |-> "over"]]
    BY <1>4 DEF TransitionRead, From
  <2>2. QED BY <1>t, <2>1 DEF Traceable, Pending, Activates
<1>5. ASSUME NEW c \in Calls, TransitionCommit(c)  PROVE Traceable'
  <2>0. PICK g \in Grants, op \in Ops, at \in Nat :
          call[c].pc = "read" /\ call[c].op = op /\ call[c].grant = g /\ call[c].at = at
    BY <1>5, <1>t DEF TransitionCommit, OpenCalls
  <2> DEFINE row == [action |-> op, at |-> at]
  <2>1. /\ call' = [call EXCEPT ![c] = [pc |-> "over"]]
        /\ status' = [status EXCEPT ![g] = To(op)]
        /\ expiresAt' = IF op = "approve" THEN [expiresAt EXCEPT ![g] = at + TTL] ELSE expiresAt
        /\ trail' = [trail EXCEPT ![g] = @ \cup {row}]
        /\ UNCHANGED now
    BY <1>5, <2>0 DEF TransitionCommit, Audit
  <2>2. \A h \in Grants : h # g => status'[h] = status[h] /\ expiresAt'[h] = expiresAt[h] /\ trail'[h] = trail[h]
    BY <1>t, <2>1
  <2>3. \A h \in Grants : \A r : h # g /\ Activates(r, h) => Activates(r, h)'
    BY <2>1, <2>2 DEF Activates
  <2>4. \A b \in Calls : call'[b].pc = "read" => call'[b] = call[b] /\ call[b].pc = "read"
    BY <1>t, <2>1
  <2>5. status'[g] = To(op) /\ To(op) \in {"ACTIVE", "DENIED", "REVOKED"}
    BY <1>t, <2>1 DEF To, Ops
  <2>6. status'[g] = "ACTIVE" => row \in trail'[g] /\ Activates(row, g)'
    <3>1. SUFFICES ASSUME status'[g] = "ACTIVE"  PROVE row \in trail'[g] /\ Activates(row, g)'
      OBVIOUS
    <3>2. op = "approve"
      BY <2>5, <3>1 DEF To, Ops
    <3>3. Wanted[g].scope \in Sensitive /\ at <= now
      BY <2>0, <3>2 DEF Traceable, Pending
    <3>4. expiresAt'[g] = at + TTL /\ row \in trail'[g]
      BY <1>t, <2>1, <3>2
    <3>5. QED BY <2>1, <3>2, <3>3, <3>4 DEF Activates
  <2>7. \A b \in Calls : call[b].pc = "read" => call[b].grant \in Grants
    BY <1>t DEF OpenCalls
  <2>8. QED BY <2>1, <2>2, <2>3, <2>4, <2>5, <2>6, <2>7 DEF Traceable, Pending
<1>6. ASSUME NEW c \in Calls, TransitionAbort(c)  PROVE Traceable'
  BY <1>6, <1>t DEF TransitionAbort, Traceable, Pending, Activates
<1>7. ASSUME UNCHANGED <<status, expiresAt, trail, call, now>>  PROVE Traceable'
  BY <1>7 DEF Traceable, Pending, Activates
<1>8. QED BY <1>1, <1>2, <1>3, <1>4, <1>5, <1>6, <1>7
          DEF Next, SweepList, SweepFault, Authorize, ReadValue, AuditUse, Return, UseFault

\* A use keeps the justification it was authorized with.
LEMMA KeepsJustified ==
  ASSUME TypeOK, Traceable, Justified, Next
  PROVE  Justified'
<1>t. /\ use \in [Uses -> [pc : {"idle", "refused"}] \cup OpenUses]
      /\ useAudits \subseteq Uses /\ now \in Nat /\ TTL \in Nat
      /\ trail \in [Grants -> SUBSET Rows] /\ expiresAt \in [Grants -> Nat]
  BY ConstantsAssumption DEF TypeOK, OpenUses
<1>g. \A g \in Grants : trail[g] \subseteq trail'[g]
  BY TrailGrows
<1>u. \A u \in Uses : use[u].pc \in {"authorized", "read", "audited", "returned"} => use[u] \in OpenUses
  BY <1>t
<1>1. ASSUME UNCHANGED <<use, useAudits>>  PROVE Justified'
  BY <1>1, <1>g, <1>u DEF Justified, OpenUses
<1>2. ASSUME NEW u \in Uses, NEW user \in Users, NEW scope \in Scopes, NEW shop \in Shops,
             Authorize(u, user, scope, shop)
      PROVE  Justified'
  <2>1. CASE use' = [use EXCEPT ![u] = [pc |-> "refused"]]
    BY <1>2, <1>t, <1>g, <1>u, <2>1 DEF Authorize, Justified, OpenUses
  <2>2. ASSUME NEW g \in Grants, Live(g), Covers(g, user, scope, shop),
               use' = [use EXCEPT ![u] = [pc |-> "authorized", grant |-> g, user |-> user,
                                          scope |-> scope, shop |-> shop, at |-> now]]
        PROVE  Justified'
    <3>1. PICK row \in trail[g] : Activates(row, g)
      BY <2>2 DEF Live, Traceable
    <3>2. Explains(row, g, now)
      BY <1>t, <2>2, <3>1 DEF Activates, Explains, Live, Rows
    <3>3. UNCHANGED <<useAudits, trail>>
      BY <1>2 DEF Authorize
    <3>4. /\ use'[u].pc = "authorized" /\ use'[u].grant = g /\ use'[u].user = user
          /\ use'[u].scope = scope /\ use'[u].shop = shop /\ use'[u].at = now
          /\ \A v \in Uses : v # u => use'[v] = use[v]
      BY <1>t, <2>2
    <3>5. QED BY <2>2, <3>1, <3>2, <3>3, <3>4 DEF Justified
  <2>3. QED BY <1>2, <2>1, <2>2 DEF Authorize
<1>3. ASSUME NEW u \in Uses, ReadValue(u) \/ AuditUse(u) \/ Return(u)  PROVE Justified'
  <2>1. /\ use[u].pc \in {"authorized", "read", "audited"} /\ UNCHANGED trail
        /\ \/ use' = [use EXCEPT ![u].pc = "read"] /\ UNCHANGED useAudits
           \/ use' = [use EXCEPT ![u].pc = "audited"] /\ useAudits' = useAudits \cup {u}
           \/ use' = [use EXCEPT ![u].pc = "returned"] /\ UNCHANGED useAudits /\ use[u].pc = "audited"
    BY <1>3 DEF ReadValue, AuditUse, Return
  <2>2. /\ use'[u].grant = use[u].grant /\ use'[u].user = use[u].user /\ use'[u].scope = use[u].scope
        /\ use'[u].shop = use[u].shop /\ use'[u].at = use[u].at
        /\ use'[u].pc \in {"audited", "returned"} => u \in useAudits'
        /\ \A v \in Uses : v # u => use'[v] = use[v]
        /\ useAudits \subseteq useAudits'
    <3>1. use[u] \in OpenUses
      BY <1>u, <2>1
    <3>2. use[u].pc = "audited" => u \in useAudits
      BY DEF Justified
    <3>3. QED BY <1>t, <2>1, <3>1, <3>2 DEF OpenUses
  <2>3. QED BY <2>1, <2>2 DEF Justified
<1>4. ASSUME NEW u \in Uses, UseFault(u)  PROVE Justified'
  BY <1>4, <1>t, <1>u DEF UseFault, Justified
<1>5. QED BY <1>1, <1>2, <1>3, <1>4
          DEF Next, Tick, Request, SweepExpire, TransitionRead, TransitionCommit, TransitionAbort,
              SweepList, SweepFault

\* Everything disclosed can be justified from the audit log alone, whatever the races
\* between approvals, revocations, the sweep and the use itself.
THEOREM JustifiedAccessHolds == Spec => []JustifiedAccess
<1>1. Init => Traceable /\ Justified
  BY DEF Init, Traceable, Justified, Pending
<1>2. TypeOK /\ Traceable /\ Justified /\ [Next]_vars => Traceable' /\ Justified'
  <2> SUFFICES ASSUME TypeOK, Traceable, Justified, [Next]_vars  PROVE Traceable' /\ Justified'
    OBVIOUS
  <2>1. CASE UNCHANGED vars
    BY <2>1 DEF vars, Traceable, Justified, Pending, Activates
  <2>2. CASE Next
    BY <2>2, KeepsTraceable, KeepsJustified
  <2>3. QED BY <2>1, <2>2
<1>3. Justified => JustifiedAccess
  BY DEF Justified, JustifiedAccess
<1>4. QED BY <1>1, <1>2, <1>3, TypeCorrect, PTL DEF Spec
=============================================================================
