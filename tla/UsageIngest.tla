------------------------------ MODULE UsageIngest ------------------------------
(***************************************************************************)
(* The usage-event mirror of one app: the repeatable job that drains the   *)
(* app's event feed page by page behind a persisted cursor, the daily      *)
(* retention prune, and the purge of a redacted shop.                      *)
(*                                                                         *)
(* A drain is a run of the job; two can be in progress when two processes  *)
(* run workers.  Its cursor is read once, then kept in memory.  An event   *)
(* is named by its seq (one to one with the dedupe key), and the feed      *)
(* shows events in seq order.  The app has deleted a redacted shop's       *)
(* events by the time the control plane purges its own copies.             *)
(***************************************************************************)
EXTENDS Naturals, FiniteSets

CONSTANTS
  Last,       \* bound: the events the app emits are 1..Last
  Shops, ShopOf,
  Drains,     \* the runs that can be in progress at once
  PageSize,   \* USAGE_INGEST_PAGE_SIZE
  MaxPages,   \* USAGE_INGEST_MAX_PAGES_PER_RUN
  MaxFaults   \* bound: how many drains fail half way

Events == 1 .. Last

ASSUME ConstantsAssumption ==
  /\ Last \in Nat
  /\ ShopOf \in [Events -> Shops]
  /\ PageSize \in Nat \ {0} /\ MaxPages \in Nat \ {0}
  /\ MaxFaults \in Nat

VARIABLES
  emitted,    \* the app has emitted 1..emitted
  mirror,     \* the usage_events rows
  cursor,     \* usage_sync_cursors.sinceSeq
  drain,      \* drains in progress: position, pages done, page fetched
  cutoff,     \* events up to this one are past the retention window
  redacted,   \* the events deleted because their shop was redacted
  pruned,     \* observation only: rows deleted by the retention prune
  faults

vars == <<emitted, mirror, cursor, drain, cutoff, redacted, pruned, faults>>

Idle == [pc |-> "idle"]

Init ==
  /\ emitted = 0
  /\ mirror = {}
  /\ cursor = 0
  /\ drain = [d \in Drains |-> Idle]
  /\ cutoff = 0
  /\ redacted = {}
  /\ pruned = {}
  /\ faults = 0

Emit ==
  /\ emitted < Last
  /\ emitted' = emitted + 1
  /\ UNCHANGED <<mirror, cursor, drain, cutoff, redacted, pruned, faults>>

-----------------------------------------------------------------------------
(* The drain.                                                              *)

\* Mutant: every run pulls the feed from its beginning.
StartOver(d) ==
  /\ drain[d].pc = "idle"
  /\ drain' = [drain EXCEPT ![d] = [pc |-> "fetch", at |-> 0, pages |-> 0]]
  /\ UNCHANGED <<emitted, mirror, cursor, cutoff, redacted, pruned, faults>>

Start(d) ==
  /\ drain[d].pc = "idle"
  /\ drain' = [drain EXCEPT ![d] = [pc |-> "fetch", at |-> cursor, pages |-> 0]]
  /\ UNCHANGED <<emitted, mirror, cursor, cutoff, redacted, pruned, faults>>

\* What the feed holds beyond a position, in seq order.
Feed(at) == {e \in at + 1 .. emitted : e \notin redacted}

\* The pages the endpoint may answer with: as many of the next events as it likes,
\* PageSize at most, and at least one when there is one.
Pages(at) ==
  LET upTo(n) == {e \in Feed(at) : e <= n} IN
  {p \in {[events |-> upTo(n), next |-> n, more |-> upTo(n) # Feed(at)] : n \in Feed(at)} :
     Cardinality(p.events) <= PageSize}

\* Mutant: the cursor moves as soon as the page has arrived.
FetchAdvances(d) ==
  /\ drain[d].pc = "fetch"
  /\ \E p \in Pages(drain[d].at) :
       /\ drain' = [drain EXCEPT ![d] = [pc |-> "fetched", at |-> @.at, pages |-> @.pages, page |-> p]]
       /\ cursor' = p.next
  /\ UNCHANGED <<emitted, mirror, cutoff, redacted, pruned, faults>>

\* An empty page has no more behind it, and ends the drain.
Fetch(d) ==
  /\ drain[d].pc = "fetch"
  /\ \/ /\ Feed(drain[d].at) = {}
        /\ drain' = [drain EXCEPT ![d] = Idle]
     \/ \E p \in Pages(drain[d].at) :
          drain' = [drain EXCEPT ![d] = [pc |-> "fetched", at |-> @.at, pages |-> @.pages, page |-> p]]
  /\ UNCHANGED <<emitted, mirror, cursor, cutoff, redacted, pruned, faults>>

\* Mutant: off by one.
GoesOnPast(d) == drain[d].page.more /\ drain[d].pages <= MaxPages

\* There is more to pull, and the run may pull it.
GoesOn(d) == drain[d].page.more /\ drain[d].pages + 1 < MaxPages

Advanced(d) ==
  IF GoesOn(d)
  THEN [pc |-> "fetch", at |-> drain[d].page.next, pages |-> drain[d].pages + 1]
  ELSE Idle

\* Mutant: the page is stored, the cursor is not.
CommitForgetsCursor(d) ==
  /\ drain[d].pc = "fetched"
  /\ mirror' = mirror \cup drain[d].page.events
  /\ drain' = [drain EXCEPT ![d] = Advanced(d)]
  /\ UNCHANGED <<emitted, cursor, cutoff, redacted, pruned, faults>>

\* One transaction: the rows that are not there yet, and the cursor, which is set
\* to where this drain is, wherever it has been moved meanwhile.
Commit(d) ==
  /\ drain[d].pc = "fetched"
  /\ mirror' = mirror \cup drain[d].page.events
  /\ cursor' = drain[d].page.next
  /\ drain' = [drain EXCEPT ![d] = Advanced(d)]
  /\ UNCHANGED <<emitted, cutoff, redacted, pruned, faults>>

\* The feed or the transaction fails, the feed is not configured, or the process dies.
DrainEnds(d) ==
  /\ drain[d].pc # "idle"
  /\ faults < MaxFaults
  /\ faults' = faults + 1
  /\ drain' = [drain EXCEPT ![d] = Idle]
  /\ UNCHANGED <<emitted, mirror, cursor, cutoff, redacted, pruned>>

-----------------------------------------------------------------------------
(* What deletes rows.                                                      *)

\* Older events have smaller seqs; the window only moves forward.
Prune ==
  \E c \in cutoff .. emitted :
    /\ cutoff' = c
    /\ pruned' = pruned \cup (mirror \cap 1 .. c)
    /\ mirror' = mirror \ (1 .. c)
    /\ UNCHANGED <<emitted, cursor, drain, redacted, faults>>

\* The part of purgeForRedactedShop's transaction that deletes usage events.
PurgeForRedactedShop(s) ==
  LET ofShop == {e \in 1 .. emitted : ShopOf[e] = s} IN
  /\ redacted' = redacted \cup ofShop
  /\ mirror' = mirror \ ofShop
  /\ UNCHANGED <<emitted, cursor, drain, cutoff, pruned, faults>>

-----------------------------------------------------------------------------
Next ==
  \/ Emit
  \/ \E d \in Drains : Start(d) \/ Fetch(d) \/ Commit(d) \/ DrainEnds(d)
  \/ Prune
  \/ \E s \in Shops : PurgeForRedactedShop(s)

Spec == Init /\ [][Next]_vars

\* The repeatable job comes round again and a run goes on until it ends or fails.
\* Events, prunes, purges and faults are never owed.
Fairness == \A d \in Drains : WF_vars(Start(d)) /\ WF_vars(Fetch(d)) /\ WF_vars(Commit(d))

FairSpec == Spec /\ Fairness
-----------------------------------------------------------------------------
PageRecord == [events : SUBSET Events, next : Events, more : BOOLEAN]

TypeOK ==
  /\ emitted \in 0 .. Last
  /\ mirror \subseteq Events
  /\ cursor \in 0 .. Last
  /\ drain \in [Drains -> [pc : {"idle"}]
                  \cup [pc : {"fetch"}, at : 0 .. Last, pages : 0 .. MaxPages - 1]
                  \cup [pc : {"fetched"}, at : 0 .. Last, pages : 0 .. MaxPages - 1,
                        page : PageRecord]]
  /\ cutoff \in 0 .. Last
  /\ redacted \subseteq Events
  /\ pruned \subseteq Events
  /\ faults \in Nat

Accounted(e) == e \in mirror \cup pruned \cup redacted

\* "drained across successive runs with no gaps": wherever drains that overlap, fail or
\* fall behind leave the cursor, it has passed over no event that was not mirrored,
\* except those of redacted shops (ingest's one transaction per page).
NothingSkipped == \A e \in 1 .. cursor : Accounted(e)

\* "Every committed event eventually appears": the backlog is drained although a run is
\* cut off after MaxPages pages and drains that overlap move the cursor back.
AllMirrored == \A e \in Events : e <= emitted ~> Accounted(e)

\* With one drain at a time, each event enters the mirror exactly once and in order.
Mirror == INSTANCE UsageMirror WITH frontier <- cursor, rows <- mirror, withdrawn <- redacted
ExactlyOnce == Mirror!MSpec

\* "no mirrored usage events for that shop remain": what the purge has deleted is gone.
RedactedStaysGone == mirror \cap redacted = {}
=============================================================================
