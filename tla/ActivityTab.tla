------------------------------ MODULE ActivityTab ------------------------------
(***************************************************************************)
(* The Activity tab of a merchant: pages of the shop's mirrored events,    *)
(* newest first, asked for one after the other behind a cursor, while the  *)
(* mirror grows at its end and loses rows to redaction and the prune; and  *)
(* the sessions the tab builds from the pages it has.                      *)
(***************************************************************************)
EXTENDS Integers, FiniteSets, SequencesExt

CONSTANTS
  Stream,     \* the app's events, in seq order: shop, what happened, and when
  PageLimit,  \* USAGE_ACTIVITY_FEED_MAX_PAGE_SIZE
  SessionGap  \* ACTIVITY_SESSION_GAP_MS

\* What the proofs suppose of the constants.
Configured == PageLimit \in Nat \ {0} /\ Stream \in Seq(ToSet(Stream))

VARIABLES
  ingested,   \* events of the feed that have been ingested
  mirror,     \* the usage_events rows, by seq
  tab         \* the tab: its shop, cursor and events, and where the feed was at its first page

vars == <<ingested, mirror, tab>>

Shops == {Stream[i].shop : i \in DOMAIN Stream}
Closed == [pc |-> "closed"]

Init ==
  /\ ingested = 0
  /\ mirror = {}
  /\ tab = Closed

Ingest ==
  /\ ingested < Len(Stream)
  /\ ingested' = ingested + 1
  /\ mirror' = mirror \cup {ingested + 1}
  /\ UNCHANGED tab

\* Redaction deletes a shop's rows, the prune the older ones.
Delete ==
  /\ \/ \E s \in Shops : mirror' = {i \in mirror : Stream[i].shop # s}
     \/ \E old \in mirror : mirror' = {i \in mirror : i > old}
  /\ UNCHANGED <<ingested, tab>>

\* The rows of a shop behind a cursor, how many of a set of rows are as new as one, and a set
\* in that order.
Older(shop, before) == {i \in mirror : Stream[i].shop = shop /\ (before = 0 \/ i < before)}
Rank(S, i) == Cardinality({j \in S : j >= i})
NewestFirst(S) == [k \in 1..Cardinality(S) |-> CHOOSE i \in S : Rank(S, i) = k]

\* Mutant: the row that was fetched to see whether there is more counts as shown.
ActivityFeedSkips(shop, before) ==
  LET older == Older(shop, before)
      page == {i \in older : Rank(older, i) <= PageLimit} IN
  [events |-> NewestFirst(page),
   next |-> IF Cardinality(older) > PageLimit
            THEN CHOOSE i \in older : Rank(older, i) = PageLimit + 1 ELSE 0]

\* One page of a shop's events, newest first, and the cursor of the next page: null, 0,
\* when the query for one row more than a page has found none.
ActivityFeed(shop, before) ==
  LET older == Older(shop, before)
      page == {i \in older : Rank(older, i) <= PageLimit} IN
  [events |-> NewestFirst(page),
   next |-> IF Cardinality(older) > PageLimit THEN CHOOSE i \in page : \A j \in page : i <= j ELSE 0]

Opens ==
  /\ tab.pc = "closed"
  /\ \E s \in Shops : tab' = [pc |-> "loading", shop |-> s, cursor |-> 0, pages |-> <<>>, top |-> 0]
  /\ UNCHANGED <<ingested, mirror>>

\* The first page, or the next: "Load older" is there while a cursor is, and not while a
\* page is being fetched.
Loads ==
  /\ tab.pc = "loading"
  /\ LET page == ActivityFeed(tab.shop, tab.cursor) IN
       tab' = [tab EXCEPT !.pc = IF page.next = 0 THEN "end" ELSE "loading", !.cursor = page.next,
                          !.pages = @ \o page.events, !.top = IF tab.cursor = 0 THEN ingested ELSE @]
  /\ UNCHANGED <<ingested, mirror>>

\* The query failed: the card shows the error, and no way on.
LoadFails ==
  /\ tab.pc = "loading"
  /\ tab' = [tab EXCEPT !.pc = "error"]
  /\ UNCHANGED <<ingested, mirror>>

Leaves ==
  /\ tab.pc # "closed"
  /\ tab' = Closed
  /\ UNCHANGED <<ingested, mirror>>

Next == Ingest \/ Delete \/ Opens \/ Loads \/ LoadFails \/ Leaves

Spec == Init /\ [][Next]_vars
-----------------------------------------------------------------------------
(* The sessions.  The places of the pages fall into parts, each from a     *)
(* place to a place.                                                       *)

\* The parts of the places from one to another, cut before some of them.
Parts(from, to, cuts) ==
  {p \in (from .. to) \X (from .. to) :
     /\ p[1] = from \/ p[1] \in cuts
     /\ p[2] = to \/ p[2] + 1 \in cuts
     /\ p[1] <= p[2] /\ \A k \in p[1] + 1 .. p[2] : k \notin cuts}

\* Where the next older event is more than the gap away, and where it is not like the one before.
Identity(i) == Stream[i].name
Gaps(pages) == {k \in 2..Len(pages) : Stream[pages[k - 1]].at - Stream[pages[k]].at > SessionGap}
Changes(pages) == {k \in 2..Len(pages) : Identity(pages[k]) # Identity(pages[k - 1])}

\* Within a session, events alike that follow each other are one step, told by the oldest.
JourneySteps(pages, group) ==
  {[event |-> pages[p[2]], count |-> p[2] - p[1] + 1] : p \in Parts(group[1], group[2], Changes(pages))}

BuildJourneySessions(pages) ==
  {[steps |-> JourneySteps(pages, group),
    startedAt |-> Stream[pages[group[2]]].at, endedAt |-> Stream[pages[group[1]]].at] :
     group \in Parts(1, Len(pages), Gaps(pages))}
-----------------------------------------------------------------------------
TypeOK ==
  /\ ingested \in 0 .. Len(Stream)
  /\ mirror \subseteq 1 .. ingested
  /\ tab.pc \in {"closed", "loading", "end", "error"}
  /\ tab.pc # "closed" =>
       tab.shop \in Shops /\ tab.cursor \in 0 .. ingested /\ ToSet(tab.pages) \subseteq 1 .. ingested

\* How many events the sessions on the screen count.
Counted(sessions) ==
  Cardinality(UNION {{step.event} \X (1..step.count) : step \in UNION {session.steps : session \in sessions}})

\* "a mid-stream ingest can't skip or duplicate rows": whatever is ingested, redacted and
\* pruned between the pages, no event is shown twice, the journey counts each once, and at
\* the end of the history every event of the shop that was there at the first page and
\* still is has been shown.
FeedCoversHistory ==
  tab.pc # "closed" =>
    /\ IsInjective(tab.pages)
    /\ Counted(BuildJourneySessions(tab.pages)) = Len(tab.pages)
    /\ tab.pc = "end" =>
         \A i \in mirror : Stream[i].shop = tab.shop /\ i <= tab.top => i \in ToSet(tab.pages)
=============================================================================
