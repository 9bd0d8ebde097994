------------------------------ MODULE AuditTrail ------------------------------
(***************************************************************************)
(* The audit page: the filters that are sent to the server, the rows that  *)
(* come back while others are being appended, the groups of the sidebar    *)
(* and the trail of the group that is chosen.  The query cache keeps the   *)
(* rows of every filter; an answer may arrive when its filter is no longer *)
(* the one applied.                                                        *)
(***************************************************************************)
EXTENDS Naturals, Sequences, FiniteSets

CONSTANTS
  Events,       \* rows that services append: by, shop ("": none), area of the action
  Begun,        \* the rows that are there from the start
  Filters,      \* what the form can hold: by, shop, area, from ("" and 0: any)
  Limit,        \* rows that a query answers with at most
  MaxRows,      \* bound: rows ever appended
  MaxMoves      \* bound: what the administrator does

None == "none"
Global == "(Global Operations)"
NoFilter == [by |-> "", shop |-> "", area |-> "", from |-> 0]

\* What the proofs suppose of the constants.
Filed ==
  /\ Begun \in Seq(Events) /\ Limit \in Nat \ {0}
  /\ Len(Begun) <= MaxRows /\ MaxRows \in Nat /\ NoFilter \in Filters
  /\ \A f \in Filters : f.from \in Nat
  /\ \A e \in Events : e.by # None /\ e.shop # None

VARIABLES
  log,          \* AuditLog, oldest first
  draft,        \* the form
  applied,      \* the filters that were submitted
  cache,        \* per filter: the rows of the last answer, and (observation) the log's length when read
  fetches,      \* queries in progress
  chosen,       \* grouping mode, and the handler, store and category selected in it
  moves,
  seen          \* observation only: per filter, the length of the log at the newest answer

vars == <<log, draft, applied, cache, fetches, chosen, moves, seen>>

Unchosen(mode) == [mode |-> mode, handler |-> None, shop |-> None, category |-> None]

\* What the page shows of an answer that is not there is nothing.
Rows == cache[applied].rows

Init ==
  /\ log = Begun
  /\ draft = NoFilter /\ applied = NoFilter
  /\ cache = [f \in Filters |-> [rows |-> <<>>, at |-> 0]]
  /\ fetches = {[key |-> NoFilter, at |-> 0]}
  /\ chosen = Unchosen("handler")
  /\ moves = MaxMoves
  /\ seen = [f \in Filters |-> 0]

Move == moves > 0 /\ moves' = moves - 1

-----------------------------------------------------------------------------
(* AuditService.                                                           *)

AppendRow(e) ==
  /\ Len(log) < MaxRows
  /\ log' = Append(log, e)
  /\ UNCHANGED <<draft, applied, cache, fetches, chosen, moves, seen>>

\* Whether a row, the i-th, matches a filter.
Fits(f, e, i) ==
  /\ f.by \in {"", e.by} /\ f.shop \in {"", e.shop} /\ f.area \in {"", e.area}
  /\ f.from <= i

\* The rows of the first n that match a filter, their ranks, the newest's the first, and the
\* row of a rank.
Matching(f, n) == {i \in 1..n : Fits(f, log[i], i)}
Rank(f, n, i) == Cardinality({j \in Matching(f, n) : j >= i})
Nth(f, n, k) == CHOOSE i \in Matching(f, n) : Rank(f, n, i) = k

Limited(size) == IF size < Limit THEN size ELSE Limit

\* Mutant: the rows are cut to the limit before they are filtered.
QueryLatest(f, n) ==
  [k \in 1..Cardinality({i \in Matching(f, n) : i + Limit > n}) |-> log[Nth(f, n, k)]]

\* The rows that match, newest first, up to the limit.
Query(f, n) == [k \in 1..Limited(Cardinality(Matching(f, n))) |-> log[Nth(f, n, k)]]

-----------------------------------------------------------------------------
(* The page's query.                                                       *)

\* A query for a filter that is already asked for is not sent again.
Asked(f) == IF \E q \in fetches : q.key = f THEN fetches ELSE fetches \cup {[key |-> f, at |-> 0]}

UpdateDraft(f) ==
  /\ draft # f
  /\ draft' = f
  /\ UNCHANGED <<log, applied, cache, fetches, chosen, moves, seen>>

SubmitFilters ==
  /\ Move
  /\ applied # draft
  /\ applied' = draft
  /\ fetches' = Asked(draft)
  /\ UNCHANGED <<log, draft, cache, chosen, seen>>

ClearFilters ==
  /\ Move
  /\ applied # NoFilter
  /\ draft' = NoFilter /\ applied' = NoFilter
  /\ fetches' = Asked(NoFilter)
  /\ UNCHANGED <<log, cache, chosen, seen>>

\* The window is looked at again.
Refocus ==
  /\ Move
  /\ fetches' = Asked(applied)
  /\ UNCHANGED <<log, draft, applied, cache, chosen, seen>>

Read(q) ==
  /\ q.at = 0
  /\ fetches' = (fetches \ {q}) \cup {[q EXCEPT !.at = Len(log)]}
  /\ UNCHANGED <<log, draft, applied, cache, chosen, moves, seen>>

\* The answer is kept for the filter it was asked for.
Answer(q) ==
  /\ q.at # 0
  /\ fetches' = fetches \ {q}
  /\ cache' = [cache EXCEPT ![q.key] = [rows |-> Query(q.key, q.at), at |-> q.at]]
  /\ seen' = [seen EXCEPT ![q.key] = IF q.at > @ THEN q.at ELSE @]
  /\ UNCHANGED <<log, draft, applied, chosen, moves>>

\* The query fails, also when it is tried again: what was there stays.
QueryFails(q) ==
  /\ Move
  /\ fetches' = fetches \ {q}
  /\ UNCHANGED <<log, draft, applied, cache, chosen, seen>>

-----------------------------------------------------------------------------
(* The sidebar: groups of the rows, each with its count and its parts.     *)

\* The category of an action, from the area that its name begins with.
GetActionCategory(area) ==
  CASE area \in {"conversation", "inbox"} -> "support"
    [] area = "merchant" -> "merchant"
    [] area \in {"user", "breakglass", "impersonation", "auth"} -> "access"
    [] area = "billing" -> "billing"
    [] area = "compliance" -> "compliance"
    [] area = "feature" -> "flags"
    [] area \in {"announcement", "nps"} -> "announcements"
    [] area = "badge" -> "badges"
    [] area = "usage" -> "usage"
    [] area \in {"webhook", "slo"} -> "reliability"
    [] area \in {"canned", "routing"} -> "routing"
    [] OTHER -> "other"

ShopOf(r) == IF r.shop = "" THEN Global ELSE r.shop

\* The key and the part of each row in a mode; a handler's stores leave out the rows of none.
ByHandler == [i \in DOMAIN Rows |-> [key |-> Rows[i].by, part |-> IF Rows[i].shop = "" THEN None ELSE Rows[i].shop]]
ByStore == [i \in DOMAIN Rows |-> [key |-> ShopOf(Rows[i]), part |-> Rows[i].by]]
ByCategory == [i \in DOMAIN Rows |-> [key |-> GetActionCategory(Rows[i].area), part |-> None]]

\* The rows of a key are a group: their count, and of each part how many are of it.
Grouped(keyed) ==
  LET of(k) == {i \in DOMAIN keyed : keyed[i].key = k} IN
  [k \in {keyed[i].key : i \in DOMAIN keyed} |->
     [count |-> Cardinality(of(k)),
      parts |-> [p \in {keyed[i].part : i \in of(k)} \ {None} |->
                   Cardinality({i \in of(k) : keyed[i].part = p})]]]

HandlerGroups == Grouped(ByHandler)
StoreGroups == Grouped(ByStore)
CategoryGroups == Grouped(ByCategory)

ModeChange(mode) ==
  /\ Move
  /\ chosen' = Unchosen(mode)
  /\ UNCHANGED <<log, draft, applied, cache, fetches, seen>>

\* A handler, and one of its stores or all.
SelectHandler(h, shop) ==
  /\ Move
  /\ chosen.mode = "handler" /\ shop \in {None} \cup DOMAIN HandlerGroups[h].parts
  /\ chosen' = [chosen EXCEPT !.handler = h, !.shop = shop]
  /\ UNCHANGED <<log, draft, applied, cache, fetches, seen>>

SelectStore(shop, h) ==
  /\ Move
  /\ chosen.mode = "store" /\ h \in {None} \cup DOMAIN StoreGroups[shop].parts
  /\ chosen' = [chosen EXCEPT !.handler = h, !.shop = shop]
  /\ UNCHANGED <<log, draft, applied, cache, fetches, seen>>

SelectCategory(c) ==
  /\ Move
  /\ chosen.mode = "category"
  /\ chosen' = [Unchosen("category") EXCEPT !.category = c]
  /\ UNCHANGED <<log, draft, applied, cache, fetches, seen>>

ClearFilter ==
  /\ Move
  /\ chosen' = Unchosen(chosen.mode)
  /\ UNCHANGED <<log, draft, applied, cache, fetches, seen>>

-----------------------------------------------------------------------------
(* The trail.                                                              *)

\* What is selected, or what the newest row is of.
Or(selected, keyed) == IF selected # None THEN selected ELSE IF keyed = <<>> THEN None ELSE keyed[1].key
ActiveHandler == Or(chosen.handler, ByHandler)
ActiveStore == Or(chosen.shop, ByStore)
ActiveCategory == Or(chosen.category, ByCategory)

\* The rows on the page that the trail shows, by their places.
Trail ==
  {i \in DOMAIN Rows :
     CASE chosen.mode = "handler" -> Rows[i].by = ActiveHandler /\ chosen.shop \in {None, Rows[i].shop}
       [] chosen.mode = "store" -> ShopOf(Rows[i]) = ActiveStore /\ chosen.handler \in {None, Rows[i].by}
       [] chosen.mode = "category" -> GetActionCategory(Rows[i].area) = ActiveCategory
       [] OTHER -> TRUE}

\* What the title of the trail names, as a path into the groups of the sidebar.
Title ==
  CASE chosen.mode = "handler" -> <<HandlerGroups, ActiveHandler, chosen.shop>>
    [] chosen.mode = "store" -> <<StoreGroups, ActiveStore, chosen.handler>>
    [] chosen.mode = "category" -> <<CategoryGroups, ActiveCategory, None>>
    [] OTHER -> <<[all |-> [count |-> Len(Rows)]], "all", None>>

\* What the sidebar highlights: it is handed the active handler and category, and the store
\* that was selected.
Highlighted ==
  CASE chosen.mode = "handler" -> <<HandlerGroups, ActiveHandler, chosen.shop>>
    [] chosen.mode = "store" -> <<StoreGroups, chosen.shop, ActiveHandler>>
    [] chosen.mode = "category" -> <<CategoryGroups, ActiveCategory, None>>
    [] OTHER -> <<<<>>, None, None>>

\* The innermost count beside a path.
CountAt(path) ==
  IF path[2] \notin DOMAIN path[1] THEN 0
  ELSE LET g == path[1][path[2]] IN
       IF path[3] = None THEN g.count ELSE IF path[3] \in DOMAIN g.parts THEN g.parts[path[3]] ELSE 0

Next ==
  \/ \E e \in Events : AppendRow(e)
  \/ \E f \in Filters : UpdateDraft(f)
  \/ SubmitFilters \/ ClearFilters \/ Refocus \/ ClearFilter
  \/ \E q \in fetches : Read(q) \/ Answer(q) \/ QueryFails(q)
  \/ \E mode \in {"handler", "store", "category", "unified"} : ModeChange(mode)
  \/ \E h \in DOMAIN HandlerGroups : \E shop \in {None} \cup DOMAIN HandlerGroups[h].parts : SelectHandler(h, shop)
  \/ \E shop \in DOMAIN StoreGroups : \E h \in {None} \cup DOMAIN StoreGroups[shop].parts : SelectStore(shop, h)
  \/ \E c \in DOMAIN CategoryGroups : SelectCategory(c)

Spec == Init /\ [][Next]_vars
-----------------------------------------------------------------------------
TypeOK ==
  /\ log \in Seq(Events) /\ Len(log) <= MaxRows
  /\ draft \in Filters /\ applied \in Filters
  /\ \A f \in Filters : Len(cache[f].rows) <= Limit /\ cache[f].at <= Len(log)
  /\ \A q \in fetches : q.key \in Filters /\ q.at <= Len(log)
  /\ chosen.mode \in {"handler", "store", "category", "unified"}

\* The rows on the page are the newest that match the applied filters at one moment, newest
\* first, and never older than rows shown before for these filters, whatever answers arrive
\* late: of the rows there were, one that matches and is not shown is older than all that are,
\* which are then as many as a query answers with.  The trail is the part of the page that its
\* title names, as long as the sidebar's count of that part, and the groups of a mode count each
\* row once (AuditService.query, audit.tsx, AuditGroupSidebar).
TrailAgrees ==
  /\ \A f \in Filters :
       LET rows == cache[f].rows IN
       /\ cache[f].at = seen[f]
       /\ \E place \in [DOMAIN rows -> 1..cache[f].at] :
            /\ \A j \in DOMAIN rows : rows[j] = log[place[j]] /\ Fits(f, rows[j], place[j])
            /\ \A j, k \in DOMAIN rows : j < k => place[j] > place[k]
            /\ \A i \in 1..cache[f].at :
                 Fits(f, log[i], i) =>
                   \/ \E j \in DOMAIN rows : place[j] = i
                   \/ Len(rows) = Limit /\ \A j \in DOMAIN rows : i < place[j]
  /\ Cardinality(Trail) = CountAt(Title)
  /\ \A groups \in {HandlerGroups, StoreGroups, CategoryGroups} :
       Cardinality(UNION {{k} \X (1..groups[k].count) : k \in DOMAIN groups}) = Len(Rows)

=============================================================================
