----------------------------- MODULE ConsolePages -----------------------------
(***************************************************************************)
(* The console's pages: what each one shows (queries, and the tables they  *)
(* read), what can be done on it (mutations, and the tables they write),   *)
(* and which queries are asked again when a mutation has succeeded.  One   *)
(* query cache serves all pages; its keys do not name the app, which is    *)
(* chosen in the address.  Answers may arrive late.                        *)
(***************************************************************************)
EXTENDS Naturals, FiniteSets

CONSTANTS
  Apps, DefaultApp,
  Tours         \* bounds: the pages that one behaviour visits, the queries that are loaded when
                \* it begins, and how many visits, switches, submissions, refetches and failures

VARIABLES
  last,      \* per app and table: the number of its last commit
  clock,     \* commits so far
  app,       \* the app in the address
  tour, open, visit,   \* the bounds of this behaviour, the page that is open, and which visit it is
  cache,     \* per query: rows are there, the app and (per table) the last commit that they show
  fetch,     \* per query: the request that is awaited, if any
  pending,   \* mutations submitted and not answered
  failed,    \* observation only: queries whose last request failed
  owed,      \* observation only: query, table and commit that this visit's own change is due to show
  moves

vars == <<last, clock, app, tour, open, visit, cache, fetch, pending, failed, owed, moves>>

-----------------------------------------------------------------------------
(* The pages.  A mutation that is made alone cannot be submitted again     *)
(* while it is pending.                                                    *)

Alone(name, writes, then) == [name |-> name, writes |-> writes, then |-> then, alone |-> TRUE]
Freely(name, writes, then) == [Alone(name, writes, then) EXCEPT !.alone = FALSE]
Shows(queries) == [shows |-> queries, does |-> {}]
Merged(f, g) == [x \in DOMAIN f \cup DOMAIN g |-> IF x \in DOMAIN f THEN f[x] ELSE g[x]]
Both(p, q) == [shows |-> Merged(p.shows, q.shows), does |-> p.does \cup q.does]

\* The unread badge of the navigation, every 30 seconds.
AppShell == Shows([unreadTotal |-> {"status", "unread"}])

Announcements ==
  [shows |-> [announcements |-> {"announcement"}, nps |-> {"nps"}],
   does |-> {Alone("publish", {"announcement", "audit", "chat"}, {"announcements"})}]

\* The request form waits for its answer; the buttons beside the grants do not.
BreakGlass ==
  [shows |-> [grants |-> {"grant"}],
   does |-> {Alone("request", {"grant", "audit"}, {"grants"}),
             Freely("decide", {"grant", "audit"}, {"grants"})}]

MarkFulfilled == Alone("fulfil", {"compliance", "audit"}, {"compliancePending"})
Compliance == [shows |-> [compliancePending |-> {"compliance"}], does |-> {MarkFulfilled}]

\* Overrides are not listed.
FeatureFlags ==
  [shows |-> [flags |-> {"flag"}],
   does |-> {Alone("create", {"flag", "audit"}, {"flags"}), Freely("change", {"flag", "override", "audit"}, {"flags"}),
             Alone("override", {"override", "audit"}, {"flags"})}]

UsageAlerts ==
  [shows |-> [alertRules |-> {"rule"}],
   does |-> {Alone("setEnabled", {"rule", "audit"}, {"alertRules"}), Alone("update", {"rule", "audit"}, {"alertRules"})}]

\* A replayed delivery leaves the list of those that failed.
WebhookDeliveries ==
  [shows |-> [deliveries |-> {"delivery"}],
   does |-> {Alone("replay", {"delivery", "audit"}, {"deliveries"})}]

SavedViewsBar ==
  [shows |-> [savedViews |-> {"view"}],
   does |-> {Alone("create", {"view"}, {"savedViews"}), Alone("update", {"view"}, {"savedViews"}),
             Alone("remove", {"view"}, {"savedViews"})}]
UsageShops == Both(Shows([usageShops |-> {"cohort"}]), SavedViewsBar)

BadgeGraphics ==
  LET Saves(name) == Alone(name, {"graphic", "audit"}, {"graphics", "defaultSettings"}) IN
  [shows |-> [graphics |-> {"graphic"}, defaultSettings |-> {"graphic"}],
   does |-> {Saves(name) : name \in {"save", "archive", "remove", "setDefault"}}]

\* The cards of a merchant.  A card's two mutations wait for one another.
TagsCard == Alone("tags", {"tag", "audit"}, {"overview"})
NotesCard == Alone("notes", {"note", "audit"}, {"overview"})
\* The audit row of a reveal is not fetched.
RevealableEmail == Alone("reveal", {"audit"}, {})
HealthCard == Shows([health |-> {"health"}])
BillingCard == Shows([subscription |-> {}])
CampaignMonitorCard == Shows([campaigns |-> {}])
MerchantDetail ==
  Both(Both(HealthCard, Both(BillingCard, CampaignMonitorCard)),
       [shows |-> [overview |-> {"note", "tag", "chat", "audit"}], does |-> {TagsCard, NotesCard, RevealableEmail}])

\* The inbox: what is changed in the sidebar or above the thread refetches all but the tags.
Refreshed == {"history", "conversations", "search", "unreadTotal"}
ConversationTags ==
  [shows |-> [tags |-> {"chatTag"}],
   does |-> {Alone("addTag", {"chatTag", "audit"}, {"tags"}), Freely("removeTag", {"chatTag", "audit"}, {"tags"})}]
ConversationThread ==
  [shows |-> [history |-> {"message"}],
   does |-> {Alone("setStatus", {"status", "audit"}, Refreshed), Alone("togglePin", {"chat", "audit"}, Refreshed)}]
ConversationSidebar ==
  Both(ConversationTags,
       [shows |-> [canned |-> {"canned"}],
        does |-> {Freely("triage", {"chat", "audit"}, Refreshed), Alone("assign", {"chat", "audit"}, Refreshed)}])
\* A pin in the list.
Inbox ==
  Both(AppShell, Both(Both(ConversationThread, ConversationSidebar),
       [shows |-> [search |-> {"chat", "status"}], does |-> {Freely("pin", {"chat", "audit"}, {"search", "conversations"})}]))

\* Pages on which nothing is changed.
AtRisk == Shows([atRisk |-> {"health"}])
PlanRequests == Shows([planRequests |-> {"plan"}])
Monitoring == Shows([tiles |-> {"delivery", "compliance"}])
Dashboard == Shows([kpis |-> {"kpi"}])

Pages ==
  [announcements |-> Announcements, breakGlass |-> BreakGlass, compliance |-> Compliance, flags |-> FeatureFlags,
   alerts |-> UsageAlerts, deliveries |-> WebhookDeliveries, shops |-> UsageShops, badges |-> BadgeGraphics,
   merchant |-> MerchantDetail, inbox |-> Inbox, atRisk |-> AtRisk, plans |-> PlanRequests,
   monitoring |-> Monitoring, dashboard |-> Dashboard]

-----------------------------------------------------------------------------
(* The query cache.                                                        *)

\* What the proofs suppose of the constants.
Toured == DefaultApp \in Apps /\ \A t \in Tours : t.pages \subseteq DOMAIN Pages /\ t.moves \in Nat

Page == Pages[open]
Queries == UNION {DOMAIN Pages[p].shows : p \in tour.pages}
Reads(q) == Pages[CHOOSE p \in tour.pages : q \in DOMAIN Pages[p].shows].shows[q]
Tables == (UNION {Reads(q) : q \in Queries}) \cup UNION {UNION {m.writes : m \in Pages[p].does} : p \in tour.pages}

Idle == [on |-> FALSE, app |-> DefaultApp, at |-> <<>>]
Asked == [on |-> TRUE, app |-> app, at |-> <<>>]
Rows(a, at) == [there |-> TRUE, app |-> a, at |-> at]
NoRows == [there |-> FALSE, app |-> DefaultApp, at |-> <<>>]

\* A request that is awaited is not sent again.
Joined(qs) == [q \in Queries |-> IF q \in qs /\ ~fetch[q].on THEN Asked ELSE fetch[q]]

\* Mutant: an answer that is awaited is waited for.
RefetchedByJoining(qs) == Joined(qs)

\* Asked again; an answer that is still awaited will not count, if rows are there to show
\* meanwhile.  The first request is waited for.
Refetched(qs) == [q \in Queries |-> IF q \in qs /\ (cache[q].there \/ ~fetch[q].on) THEN Asked ELSE fetch[q]]

Move == moves > 0 /\ moves' = moves - 1

Init ==
  /\ tour \in Tours
  /\ open \in tour.pages
  /\ app = DefaultApp /\ visit = 0
  /\ last = [a \in Apps |-> [t \in Tables |-> 0]] /\ clock = 0
  /\ cache = [q \in Queries |-> IF q \in tour.loaded THEN Rows(DefaultApp, [t \in Reads(q) |-> 0]) ELSE NoRows]
  /\ fetch = [q \in Queries |-> IF q \in DOMAIN Page.shows \ tour.loaded THEN Asked ELSE Idle]
  /\ pending = {} /\ failed = {} /\ owed = {}
  /\ moves = tour.moves

\* A link of the navigation; it does not carry the app along.  What is shown is asked for.
Visit(p) ==
  /\ Move
  /\ open' = p /\ visit' = moves /\ app' = DefaultApp
  /\ fetch' = [q \in Queries |-> IF q \in DOMAIN Pages[p].shows /\ ~fetch[q].on
                                 THEN [Asked EXCEPT !.app = DefaultApp] ELSE fetch[q]]
  /\ owed' = {}
  /\ UNCHANGED <<last, clock, tour, cache, pending, failed>>

\* The selector changes the address, and nothing is asked for.
SetAppKey(a) ==
  /\ Move
  /\ a # app
  /\ app' = a /\ owed' = {}
  /\ UNCHANGED <<last, clock, tour, open, visit, cache, fetch, pending, failed>>

\* The window is looked at again, or the interval of the query has passed.
Refresh(q) ==
  /\ Move
  /\ q \in DOMAIN Page.shows /\ ~fetch[q].on
  /\ fetch' = Joined({q})
  /\ UNCHANGED <<last, clock, app, tour, open, visit, cache, pending, failed, owed>>

\* A query reads its tables in one statement, the overview of a merchant in several: the
\* conversations and the audit rows after the notes and the tags.
Statements(q) == IF q = "overview" THEN {{t} : t \in Reads(q)} ELSE {Reads(q)}
ReadsAfter(q, ts) == IF q = "overview" /\ ts \cap {"chat", "audit"} # {} THEN {"note", "tag"} ELSE {}

Read(q, ts) ==
  /\ fetch[q].on /\ ts \cap DOMAIN fetch[q].at = {}
  /\ ReadsAfter(q, ts) \subseteq DOMAIN fetch[q].at
  /\ fetch' = [fetch EXCEPT ![q].at = Merged(@, [t \in ts |-> last[fetch[q].app][t]])]
  /\ UNCHANGED <<last, clock, app, tour, open, visit, cache, pending, failed, owed, moves>>

Answer(q) ==
  /\ fetch[q].on /\ DOMAIN fetch[q].at = Reads(q)
  /\ cache' = [cache EXCEPT ![q] = Rows(fetch[q].app, fetch[q].at)]
  /\ fetch' = [fetch EXCEPT ![q] = Idle]
  /\ failed' = failed \ {q}
  /\ UNCHANGED <<last, clock, app, tour, open, visit, pending, owed, moves>>

\* Also when it is tried again; what was shown stays in the cache.
FetchFails(q) ==
  /\ Move
  /\ fetch[q].on
  /\ fetch' = [fetch EXCEPT ![q] = Idle]
  /\ failed' = failed \cup {q}
  /\ UNCHANGED <<last, clock, app, tour, open, visit, cache, pending, owed>>

Submit(m) ==
  /\ Move
  /\ m \in Page.does
  /\ m.alone => \A c \in pending : c.does # m
  /\ pending' = pending \cup {[does |-> m, app |-> app, visit |-> visit, n |-> moves, at |-> 0]}
  /\ UNCHANGED <<last, clock, app, tour, open, visit, cache, fetch, failed, owed>>

Written(a, ts) == [last EXCEPT ![a] = [t \in Tables |-> IF t \in ts THEN clock + 1 ELSE @[t]]]

\* The server commits, in one transaction.
Commit(c) ==
  /\ c.at = 0
  /\ clock' = clock + 1
  /\ last' = Written(c.app, c.does.writes)
  /\ pending' = (pending \ {c}) \cup {[c EXCEPT !.at = clock + 1]}
  /\ UNCHANGED <<app, tour, open, visit, cache, fetch, failed, owed, moves>>

\* The answer arrives, also on another page.  The queries that the mutation names are asked for
\* again where they are shown.
Succeed(c) ==
  /\ c.at > 0
  /\ pending' = pending \ {c}
  /\ fetch' = Refetched(c.does.then \cap DOMAIN Page.shows)
  /\ owed' = IF c.visit # visit \/ c.app # app THEN owed
             ELSE owed \cup UNION {{<<q, t, c.at>> : t \in c.does.writes \cap Reads(q)} :
                                      q \in {r \in DOMAIN Page.shows : cache[r].there}}
  /\ UNCHANGED <<last, clock, app, tour, open, visit, cache, failed, moves>>

\* It is refused, or its answer is lost: nothing is asked for.
MutationFails(c) ==
  /\ Move
  /\ pending' = pending \ {c}
  /\ UNCHANGED <<last, clock, app, tour, open, visit, cache, fetch, failed, owed>>

Next ==
  \/ \E p \in tour.pages : Visit(p)
  \/ \E a \in Apps : SetAppKey(a)
  \/ \E q \in Queries : Refresh(q) \/ Answer(q) \/ FetchFails(q) \/ \E ts \in Statements(q) : Read(q, ts)
  \/ \E m \in Page.does : Submit(m)
  \/ \E c \in pending : Commit(c) \/ Succeed(c) \/ MutationFails(c)

Spec == Init /\ [][Next]_vars
-----------------------------------------------------------------------------
\* Moments of some of the tables that a query reads.
Times(q) == UNION {[ts -> 0..clock] : ts \in SUBSET Reads(q)}

TypeOK ==
  /\ tour \in Tours /\ open \in tour.pages /\ app \in Apps
  /\ clock \in Nat /\ moves \in Nat /\ visit \in Nat
  /\ last \in [Apps -> [Tables -> 0..clock]]
  /\ DOMAIN cache = Queries /\ DOMAIN fetch = Queries
  /\ \A q \in Queries :
       /\ cache[q] \in [there : BOOLEAN, app : Apps, at : Times(q)]
       /\ fetch[q] \in [on : BOOLEAN, app : Apps, at : Times(q)]
       /\ cache[q].there => DOMAIN cache[q].at = Reads(q)
  /\ \A c \in pending :
       /\ c \in [does : UNION {Pages[p].does : p \in tour.pages}, app : Apps, visit : Nat, n : Nat, at : 0..clock]
       /\ c.visit = visit => c.does \in Page.does
  /\ \A o \in owed : o[1] \in DOMAIN Page.shows /\ o[2] \in Reads(o[1]) /\ o[3] \in 1..clock
  /\ failed \subseteq Queries

\* What an operator has changed on a page is shown there once nothing is awaited, although the
\* answers of requests sent before the change may arrive after it; the exceptions are a request
\* that failed, a change made while the rows were first being loaded, one whose answer arrived
\* on another visit or under another app, and the audit row of a reveal.  And a merchant's page
\* shows an audit row of every note and tag on it (the onSuccess handlers of the pages,
\* MerchantService.overview).
OwnChangesShown ==
  /\ \A o \in owed :
       LET q == o[1] t == o[2] IN
       ~fetch[q].on /\ q \notin failed /\ <<q, t>> # <<"overview", "audit">> => cache[q].at[t] >= o[3]
  /\ "overview" \in Queries /\ cache["overview"].there =>
       \A t \in {"note", "tag"} : cache["overview"].at[t] <= cache["overview"].at["audit"]

=============================================================================
