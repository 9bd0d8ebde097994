# Apoaap Control Plane: TLA+ models and proofs

The control plane is the operations console of Shopify apps: a React Router
server with tRPC, Prisma on PostgreSQL (READ COMMITTED), BullMQ on Redis and
Socket.IO. `server/prod.ts` starts all of it, workers included, in one process;
`npm run worker` and rolling restarts put a second process beside it. What is
hard about it is not any algorithm but that its parts are sequences of
statements, each atomic and the whole not, run by requests, workers, timers and
operators at once, with retries everywhere.

## 1. The system

| Component | State | Operations | Hard behaviour |
|---|---|---|---|
| **Webhook pipeline** (`webhooks.shopify.tsx`, `webhookService.ts`, `webhookProcess.ts`, `webhookProcessor.ts`) | `WebhookEvent` rows, BullMQ jobs, audit rows | verify, ingest, enqueue, run, retry, mark failed, dead-letter, list, replay | redelivery, racing deliveries, crashes and expired locks, stalls, un-awaited writes of the failed listener, replay of a job in any state |
| **Break-glass grants** (`breakGlassService.ts`, router) | `BreakGlassGrant` rows, audit rows | request, approve, deny, revoke, sweep, require, reveal, impersonate | read-then-update transitions, a sweep that writes from a stale list, expiry against sweep, check-then-disclose |
| **Usage ingest** (`usageIngestService.ts`, worker, prune) | `UsageEvent` mirror, `UsageSyncCursor` | drain by pages, prune, purge of a redacted shop | overlapping and failing drains, page cap, in-flight pages |
| **Compliance** (`complianceService.ts`, sweep) | `ComplianceRequest` rows, audit rows | record, dispatch to the app, mark, complete, SLA sweep, purge | retried handlers, lost answers, late marks, best-effort purge |
| **Conversations, chat, SLA** (`conversationService.ts`, `slaService.ts`, `chatGateway.ts`, `ChatWidget.tsx`, `agentChatSocket.tsx`, `ConversationComposer.tsx`) | conversations, messages, presence, rooms; per tab: history, ring, draft | join, post, notify, fetch, mark read, assign, ring, write, send, status, priority, sweep | sweep against reply, late events and callbacks, drafts that follow or do not follow a selection, several tabs of one agent |
| **Usage rollups, readers, alerts** (`usageRollupService.ts`, `usageCohortService.ts`, `usageReadService.ts`, `usageDigestService.ts`, `usageAlertService.ts`) | daily metrics, cohort rows, headline rows, alert rules and episodes | roll up, backfill, assign cohorts, read pages, compose a digest, page a feed, evaluate rules | a day stored point by point, rows appended on retry, readers between two steps, deliver before store |
| **Lifecycle, health, KPIs** (`lifecycleService.ts`, `growthMetricsService.ts`, `merchantHealthService.ts`, `kpiService.ts`) | lifecycle events, health snapshots, gauges | uninstall, reinstall, score, roll up, purge | checks outside the transaction, lagging replica, overlapping rollups |
| **Plans and billing** (`planChangeService.ts`, `billingService.ts`, `billingMonitor.ts`) | requests, subscription cache, cap alerts | request, dispatch, mark, refer to a conversation, read, alert | crash between steps, lost answers, joined and late reads, retried handlers |
| **Operations metrics, SLO** (`opsMetricsService.ts`, `sloService.ts`, `sloPolicy.ts`, `opsRollup.ts`) | samples, alerts | sample, append, evaluate, tell, audit | several steps in one retried job, two windows of unlike age |
| **Audit log and its page** (`auditService.ts`, `audit.tsx`, `AuditGroupSidebar.tsx`) | append-only rows; filters, groups, selection | append, query, filter, group, select | rows appended meanwhile, answers of other filters, selections that outlive their rows |
| **Feature flags** (`featureFlagService.ts`, `api.flags.tsx`) | flags, overrides | create, change, remove, override, evaluate | overlapping transactions, two reads of one evaluation |
| **Badge graphics** (`badgeGraphicService.ts`, storage, settings page) | rows, image files, default, form | upload, save, archive, remove, choose the default | files and rows in different transactions, forms opened earlier |
| **Records of operators and merchants** (notes, tags, pins, canned replies, scores, saved views, announcements) | rows | read, then write with an audit row | calls that cross, caps that are counted first |
| **Merchant directory** (`merchants.tsx`, `merchantService.ts`, `badgyReplicaSource.ts`) | search, sort, page; cached pages | type, submit, sort, turn | a page per query, shops that arrive |
| **The console's pages** (`root.tsx`, `_shell.tsx`, every route) | one query cache, mutations in progress, selected app | visit, switch app, read, change, refetch | late answers, keys shared by apps and merchants |
| **RBAC, sessions, connectors, configuration** | none of their own | check, translate | see section 5 |

How they meet: the route writes a row and adds a job; the worker takes the job
and calls a topic handler (compliance, billing, lifecycle, and the KPI rollup after an
uninstall); the queue calls the
failed listener; handlers and operators append audit rows in the transaction of
the change; timers (BullMQ repeatable jobs) run the sweeps, rollups and drains;
compliance calls the purge, which deletes rows of conversations and of the usage
mirror; reveals ask for a grant before they read the replica; the ingest fills the
mirror that the rollups read, and dashboards, digest and alert rules read what the
rollups store; agents, widgets and the composer meet in the rooms of the chat gateway;
every page shows what the query cache keeps of these rows.

What makes each correct:

- Webhook pipeline: an event is enqueued once, run a bounded number of times,
  settled in the end, and its row tells the truth about it.
- Break-glass: access needs a live grant, the log justifies it, every grant ends.
- Usage ingest: no gap, no repetition, the backlog is drained, what is redacted
  stays away.
- Compliance: one request per webhook, a request in progress was accepted by the
  app, its trail ends in its status, nothing overdue is overlooked, a completed
  redaction purges.
- Conversations: MET if and only if the first reply was in time; a widget shows its
  conversation whole; what counts as read was fetched; what was typed is sent once,
  to the merchant it was meant for, or is still there.
- Usage reports: a day's stored rows are those of the mirror, agree with each other,
  and every reader tells the same story; an alert episode begins once and ends once.
- Lifecycle and health: uninstalls and reinstalls alternate; the audited band is that
  of the newest snapshot.
- Plans: what a request says of the app is so; a subscription shown as current is.
- Operations: trouble that lasts is paged, an alert is about recent trouble.
- Audit: the last audit row of a record says what is there; the trail shown is the one named.
- Flags, badges, records, directory, pages: what is shown was so, and what one's own
  change has made of it is shown.

`PROJECT.json` lists every component and, under `hazards`, the places in the code
that are hard to test, with the properties that watch them.

## 2. Modules

| Module | What it is |
|---|---|
| `WebhookPromise` | what the pipeline promises of an event (abstract) |
| `WebhookPipeline`; `MCWebhookPipeline`; `WebhookPipelineProofs` | route, rows, queue, workers, listener, replay (detailed); its three instances; its theorems, and the refinement |
| `BreakGlass`; `MCBreakGlass`; `BreakGlassProofs` | grants, transitions, sweep, uses, time |
| `UsageMirror` | what the mirror promises (abstract) |
| `UsageIngest`; `MCUsageIngest`; `UsageIngestProofs` | cursor, drains, prune, purge (detailed), and the refinement; its theorems and those of `MirrorReaders` |
| `ConversationSla`; `MCConversationSla`; `ConversationSlaProofs` | replies, priority, status, the SLA sweep, time |
| `Compliance`; `MCCompliance`; `ComplianceProofs` | data-subject requests: handler runs, dispatch, completion, purge, deadline sweep |
| `UsageMetrics`, `UsageReads` | operators only: the metrics of a day, retention, cohort labels; what the pages, the digest and the alert rules read back |
| `UsageReports` | the rollup jobs over a mirror that changes; extends the two above |
| `ActivityTab` | the activity feed of one shop, by pages, and its journey sessions |
| `MirrorReaders` | `UsageReports` and `ActivityTab` under names of their own, with the properties of them that are checked and proved |
| `MCUsageReports` | small instances of these two, one at a time |
| `WidgetChat`, `AgentInbox`, `Composer` | the merchant's tabs; the agents' tabs with their rings; the editor with its drafts, uploads and sends |
| `Chat`; `MCChat`; `ChatProofs` | these three, one at a time, and their properties; the constants; the theorems |
| `ConsolePages` | every page as what it reads, changes and refetches, over one query cache |
| `BadgeGraphics`, `FeatureFlags`, `AuditTrail`, `SharedRecords`, `MerchantDirectory` | the console's parts that are more than that |
| `PlanChanges`, `MerchantGrowth`, `UsageAlerts`, `OpsSlo` | the jobs and handlers behind the console |
| `Console`; `MCConsole`; `ConsoleProofs`, `JobsProofs` | these ten, one at a time, and their properties; the constants; the theorems, those of the jobs in a module of their own |

The grain is the same everywhere: one action is one database statement, one
transaction where nothing it reads can change under it (else its read and its
commit are two actions, since READ COMMITTED lets others commit in between and
the updates name the row by id only), one call of another system, or one answer.
Code between two awaits belongs to the action before it. Operators whose comment
starts with "Mutant" are not part of any specification: each is a definition with
a plausible bug, there to show that a property notices it.

### WebhookPipeline

| Actions | Code |
|---|---|
| `RejectUnknownApp`, `RecordInvalid` | the 401 answers of the route; the forensic row |
| `IngestCheck`, `IngestCreate`, `IngestEnqueue`, `IngestFault` | `ingest`: the content-hash lookup, the insert (P2002 is a duplicate), `add()`, and either of the two failing |
| `Take`, `CountAttempt`, `Handle`, `MarkProcessed`, `Complete` | the worker's processor |
| `RunFails` | a run throws: retry or fail in the queue, and the listener starts a write |
| `RunCrash`, `LoseLock`, `Stalled`, `BackoffEnds`, `Evict` | BullMQ: crashed runs, runs that outlive their lock, the stalled check, backoff, `removeOnComplete`/`removeOnFail` |
| `MarkFailedTransient`, `DeadLetterRead`, `DeadLetterCommit`, `LateWriteLost` | the listener's writes, pending as counters, landing in any order |
| `ListFailed`, `ReplayCommit`, `ReplayRemove`, `ReplayEnqueue`, `ReplayFault` | the operator's replay |

A row is named by its webhook id (unique, and rows are never deleted), and a job
by its row. `BodyOf` says which ids carry the same body: it is all the content
hash is for. `submitted`, `taken`, `handled` and `faults` only observe. A run that
has lost its lock goes on and writes to the database, but can neither complete nor
fail the job, as in BullMQ. Left out: payloads, the error text, `lastAttemptAt`,
the topic (the handler's effect is one step; its own steps are those of
`Compliance`, `PlanChanges` and `MerchantGrowth`).

`WebhookPromise` is what the app's other parts may rely on, and knows neither queue nor
worker nor listener. `KeepsPromise` maps a row's status to what is shown, its replay audit
rows to the replays asked for, the enqueued submissions to who took the event on, and
the completed effects and dead letters to their counts. A handling costs one of
`MaxAttempts + MaxStalled` for each submission: a run that lost its lock may still
commit its effect after another has begun, so neither bound alone is one.

### BreakGlass

| Actions | Code |
|---|---|
| `Request` | `request`: one transaction, REQUESTED or, for a scope that is not sensitive, ACTIVE |
| `TransitionRead`, `TransitionCommit`, `TransitionAbort` | `transition`, called by `approve`, `deny`, `revoke`; `From` and `To` are their specs |
| `SweepList`, `SweepExpire`, `SweepFault` | `sweepExpired` and the rollup job around it |
| `Authorize`, `ReadValue`, `AuditUse`, `Return`, `UseFault` | `requireActiveGrant`, then `revealPii` or `startImpersonation` |
| `Tick` | time; the database client rolls back a transaction that is out of time |

Which grants exist, and who asks for what, is the constant `Wanted`: a grant row
keeps these columns for ever. The `APPROVED` of the schema is written nowhere, so
it is no status here. Sweeps do not overlap: the job is one of a queue with one
worker and is over long before it comes round again. Impersonation's end
appends one audit row and looks at nothing, so it is left out.

### UsageMirror and UsageIngest

`UsageMirror` says what readers may rely on: a frontier that only moves forward,
every event entering as it passes, at most once, except those of redacted shops.
`UsageIngest` is the code: `Start` reads the cursor, `Fetch` asks the app,
`Commit` is the transaction of rows and cursor, `DrainEnds` a failure anywhere;
`Prune` and `PurgeForRedactedShop` delete. Events are named by `seq`, to which
the dedupe key is one to one. The feed may answer with fewer events than asked
for ("`limit` is a hint the endpoint may cap"), in order of seq. Assumed of the
app: a seq becomes visible only after the smaller ones, and it drops a redacted
shop's events before the control plane purges its copies. The purge of notes and
conversations, in the same transaction, is not modelled here.

### ConversationSla

| Actions | Code |
|---|---|
| `ReplyStored`, `ReplyReads`, `ReplyStamps` | `persistMessage` for a public message of an agent: the message is inserted, the row is read, then `firstReplyAt` and perhaps `MET` are written by id |
| `SetPriorityReads`, `SetPriorityCommits` | `setPriority`: one transaction, whose read and write others can come between |
| `SetStatus` | the status changes of operators and of the chat; one step, as a serial order gives the same outcome |
| `CallFails` | a statement or transaction of these fails, or the process dies |
| `SweepReads`, `SweepFlags`, `SweepFails` | `sweep` and the repeatable job around it: the list and its decisions, one transaction per row, and the exception that gives up the rest |
| `Tick` | time |

The due-times are arbitrary functions of priority and time that do not point
backwards, which is what the office-hours calendar promises. A call reads the
clock with the row or when the message is stored. Left out: messages of merchants and of
the system, internal notes, unread counts, assignment and pins, which touch none of
these columns, and the audit rows, which are appended in the transaction of the
change. `disturbed`, `lost` and `earliest` only observe: which conversations two
operations overlapped on, which lost a stamp to a failure, and when the first reply
really came. As in the code, the sweep does not look at a conversation that is MET,
so its resolution due-time is never flagged; `OverdueIsFlagged` says nothing of it.

### Compliance

| Actions | Code |
|---|---|
| `Record`, `Dispatch`, `MarkDispatched`, `MarkFailed`, `RunFails` | `handleWebhook`: `record`, then `autoDispatch` with the POST and one of its marks; a failing statement or a crash anywhere |
| `MarkCompleted`, `Purge`, `PurgeFails` | the operator's `markCompleted`: the transaction, then the best-effort `purgeForRedactedShop` |
| `SweepComesRound`, `Sweep` | the repeatable job and `listBreaching` |
| `Tick` | time, in days |

`WebhookPipeline` says how often a handler runs: again after a failure, and while an
earlier run without its lock goes on. So a webhook has any number of runs, in any
order and overlapping. A run records one request, which therefore has its run's name;
a retried run records another, as the code does (the specification of the change speaks of
"exactly one"). A dispatch has three outcomes: taken on and answered, taken on
and the answer lost, refused. Operators may complete any request that exists,
whatever its status. The purge is modelled with its gate open; what it deletes is the
subject of `UsageIngest`. FAILED requests are not open: neither the pending
list nor the sweep shows them.

### UsageMetrics, UsageReads and UsageReports

| Actions and operators | Code |
|---|---|
| `Take`, `ReadDay`, `ReadWide`, `WritePoint` | a job of the rollup queue, which the server's and the worker process's workers share, each one job at a time: `rollupDay` reads the day and the 90-day window apart, then upserts the points one by one |
| `AppendHeadlineKpis` | the un-keyed `createMany` of the headline rows |
| `ReadInstalls`, `ReadActivity`, `WriteRetention` | the nightly finalize's retention matrix |
| `RunAssignment` | `UsageCohortService`: labels of every shop, appended |
| `Fail` | a step fails; the job is run again from its start while attempts last |
| `MirrorChanges`, `Ingest`, `Delete`, `Tick` | the mirror behind the ingest, redaction and prune, time |
| `DayPoints` and below | `usageMetrics.ts` and the rollup's arithmetic: activity, funnel, dwell times, adoption, retention, lifecycle, intensity, personas |
| `Overview`, `FeaturesPage`, `FunnelPage`, `ShopsPage` | `UsageReadService` |
| `Compose`, `ObserveDelta`, `IsBreach` | the digest, and what the alert rules compare |

The two arithmetic modules have no state and no recursion, so that they can be reasoned
about: a sum is the number of as many pairs (`Total`), a median or a percentile the k-th
smallest value (`Smallest`), "the top few" what has few ahead of it (`Foremost`). The points
of a day are a set with an order of writing (`FirstOf`); among the actions, stages, rules and features,
whose order the code takes from the data, it is some order. An average is kept as a pair, never
divided. The SQL of the code groups rows, the operators compute with sets of
events: what a query returns, not how. `settled` and `torn` only observe: which
days were rolled up from the mirror as it is now, and which are half stored. Rollups of one day
by two workers interleave their upserts and their headline rows. When one stores a point while the
other is at the day and has read something else (`Crossed`), the day is a mixture of two mirrors: it stays `torn`,
and is not `settled`, until a rollup that nobody crosses has been over it. Rollups that have read the
same may interleave as they like.

### ActivityTab

`Opens`, `Loads`, `LoadFails`, `Leaves` are the tab's infinite query over
`activityFeed`, keyed by `sourceSeq`; `Ingest` and `Delete` move the mirror between
its pages. `BuildJourneySessions` cuts what is shown into sessions and steps, as the code does
on each render: a part runs from cut to cut (`Parts`), and the places of the cuts are where
the code's loops push. The order of sessions and steps on the screen is left out.

### WidgetChat, AgentInbox, Composer

| Actions | Code |
|---|---|
| `WidgetChat`: `Connect`, `CreateConversation`, `ReadHistory`, `SendHistory` | the socket's connection and the handler of `merchant:open`, await by await |
| `MerchantMessage`, `OthersPost`, `Bumped`, `TellRoom`, `TellNotice`, `TellNobody` | messages of the merchant and of agents, the e-mail notice, internal notes, and what the room hears of each |
| `Receive`, `Disconnect`, `ServerDies`, `SetStatus` | the widget's callbacks; connections and the process; the status of the conversation |
| `AgentInbox`: `MerchantMessage`, `PersistMessage`, `Announce` | the gateway's handler of a merchant's message: read, store, tell the inbox room |
| `OpenConversation`, `LeaveThread`, `MarkRead`, `TellReceived`, `Assign`, `TellAssigned` | the list, a banner or a notification opens a conversation, whose thread may not be there; `joinConversation` and the handler of `agent:join`, of which `markRead` is not awaited |
| `ReadHistory`, `Refetch`, `FetchFails` | the thread's query of the history: read at the server, answered later, or failed. A thread that appears joins a request in progress (`Mounts`); an invalidation sends another, unless the first load is in progress, which it joins (`Invalidated`) |
| `Receive`, `RingerEnds`, `Silence`, `ToggleSound` | the provider's callbacks, the ringer and its banner |
| `Connect`, `Disconnect` | the socket and `PresenceTracker` |
| `Composer`: `Type`, `HandleFileUpload`, `Uploaded`, `HandlePick`, `HandleSelectCanned`, `HandleInsertCanned`, `TogglePreview` | the editor, uploads that come back, canned replies that are rendered on the server, and that the composer puts after the draft it was picked over and the sidebar puts in place of the draft |
| `HandleSelect`, `AnswerIncomingCall`, `RefreshList`, `HandleTabChange` | the inbox page selects another conversation, with or without clearing the draft |
| `ChangeStatusFilter`, `ChangeSearch`, `LeavePage` | the list is asked for otherwise, which takes the composer away until it has been fetched, and clears the draft (the filter) or not (the search); the page is left with all it holds |
| `SubmitReply`, `SubmitNote`, `PostInternalNote`, `NotePosted`, `SetStatus` | sends, and what their success clears |

Events of one socket arrive in order and may be lost with it. React's effects are
part of the action that causes them: an effect runs before the next event. A text is
a model value that knows for whom it was written, which is what makes a misdirected one
visible. `odd`, `lost` and `raced` only observe; each of their components is one
of the exceptions that the properties name.

### ConsolePages

A page is a record of the queries it shows, each with the tables it reads, and of its
mutations, each with the tables it writes and the queries it refetches on success:
the useQuery, useMutation and onSuccess calls of the route's source. The actions are
those of the query cache (`Read`, `Answer`, `FetchFails`, `Refresh`) and of the pages
(`Visit`, `SetAppKey`, `Submit`, `Commit`, `Succeed`, `MutationFails`). Queries of several
statements read them one by one. A refetch abandons the request in progress, unless
it is the first one for its key, which is joined: this is what the library does with
the defaults that `root.tsx` leaves in place.

### The console's parts

| Module | Actions and code |
|---|---|
| `BadgeGraphics` | the settings form (`OpenCreate`, `OpenEdit`, `HandleUpload`, `HandleReplaceImage`, `SaveEdit`), the upload route and the file store (`StoreFile`, `UploadFails`), the service with its steps (`Create`, `ReadPreviousPath`, `CommitUpdate`, `UnlinkPrevious`, `Archive`, `Remove`, `UnlinkRemoved`, `CheckDefault`, `WriteDefault`), `CallLost` |
| `FeatureFlags` | registry (`Create`, `Update`, `ToggleDefault`, `DeleteFlag`), overrides (`FindOverride`, `DeleteOverride`), their `Commit` or `RollBack`, and the pull of an evaluation (`Pull`, `ReadFlags`, `ReadOverrides`, `Respond`) |
| `AuditTrail` | `AppendRow`, the form (`UpdateDraft`, `SubmitFilters`, `ClearFilters`), the query (`Read`, `Answer`, `QueryFails`, `Refocus`), the sidebar (`ModeChange`, `SelectHandler`, `SelectStore`, `SelectCategory`, `ClearFilter`); groups, trail and title are operators of the rows |
| `SharedRecords` | notes, tags, pins, canned replies, CSAT, app actions, saved views, NPS, open conversations and the announcement fan-out: each call reads, then writes with its audit row (`Commit`, `Insert`, `RollBack`) |
| `MerchantDirectory` | the page (`Type`, `SubmitSearch`, `ClearSearch`, `SortBy`, `SetPageSize`, `Previous`, `NextPage`), its query (`Answer`, `FetchFails`, `Refetch`) over `QueryShops`; the replica moves: shops arrive, and change their status, plan, name or email (`Arrive`, `RowChanges`), so that a search finds more or fewer |
| `PlanChanges` | requests (`Request`, `Dispatch`, `Mark`, `FallbackToConversation`, `Refer`, `RequestDies`), the cache (`GetSubscription`, `ReadSource`, `ReadSucceeds`, `ReadFails`, `Restart`), the handler (`Run`, `OnCapApproaching`, `MarkProcessed`, `RunFails`) |
| `MerchantGrowth` | the handler (`Deliver`, `FindLatest`, `RecordUninstall`), the rollup (`RunRollup`, `GatherSignals`, `FindPrior`, `Persist`, `FindChurned`, `RecordReinstall`, `AppendGauges`), KPIs (`KpiRollup`, `ComputeKpis`, `AppendKpis`), and failures of each |
| `UsageAlerts` | rules (`Create`, `Update`, `SetEnabled`, `Remove`), metrics (`Finalize`), an evaluation (`Start`, `Observe`, `ReadPrior`, `Deliver`, `AppendAudit`, `Store`, `Fails`) |
| `OpsSlo` | the job (`RunRollup`, `WebhookErrorRatio`, `AppendSample`, `Evaluate`, `AppendAudit`, `SweepExpired`, `RollupFails`), the tile (`Snapshot`), webhooks, queue and time |

Their variables called "observation only" record what no row keeps: which calls
crossed, what was told. The `Supplies`, `Tours` and `Max...` constants are bounds.


## 3. Runs

| Run | Instance | Shows |
|---|---|---|
| `webhook_safety` | 1 event, 2 deliveries, 2 workers, 1 replay, 3 faults of any kind, 2 attempts, 1 stall | `TypeOK`, `SubmittedOnce`, `AttemptCeiling`; `KeepsPromise`: `WebhookPipeline` implements `WebhookPromise` |
| `webhook_liveness` | 2 ids of one body, 2 deliveries, 1 worker that may crash or lose its lock twice at one job, 1 stall | `AckedIsSettled`, `JobsFinish` |
| `webhook_lost` (violated) | 1 event, 1 fault of the route | `AckedIsEnqueued` |
| `breakglass` | 2 grants, 2 calls, 1 use, TTL 3, 1 fault | `TypeOK`, `JustifiedAccess`, `ExpiredIsOverdue`, `ActiveEnds` |
| `usage_ingest` | 2 drains, 3 events of 2 shops, pages of up to 2, 1 fault | `TypeOK`, `NothingSkipped`, `AllMirrored` |
| `usage_one_drain` | 1 drain, 5 events, 2 faults | `ExactlyOnce`: `UsageIngest` implements `UsageMirror` |
| `usage_redacted` (violated) | 1 drain, 1 event | `RedactedStaysGone` |
| `conversation_sla` | 1 conversation, 2 calls, 1 sweep, 3 ticks, 1 fault | `TypeOK`, `ColumnsAreTrue`, `OverdueIsFlagged` |
| `compliance` | 2 runs of a shop/redact and 1 of another webhook, 1 operator, a sweep of one request, 2 days | `TypeOK`, `RequestsAreTrue`, `CompletedIsPurged`, `UrgentIsSurfaced` |
| `usage_reports` | 4 events of 2 shops, 4 days, 2 workers: 2 jobs in turn, 1 with a failing step or a deletion, or 2 at once; a feed of 6 events in pages of 2 | `DaysAreComputed`, `DaysAgree`, `DashboardsAgree`, `FeedCoversHistory` |
| `chat` | 2 widgets; 2 agents' tabs in 6 scenarios; a composer in 9 supplies | `WidgetsShowConversation`, `ReadMeansFetched`, `AnsweredIsSilent`, `SentIsWritten`, `NothingElseLost` |
| `console` | ten components, see `MCConsole.cfg` (2.6 M states) | `PagesShowOwnChanges`, `CatalogIsWhole`, `FlagsAreTold`, `TrailAgrees`, `RecordsAreTold`, `DirectoryIsWhole`, `PlansAreKnown`, `GrowthIsTold`, `EpisodeIsTold`, `SloIsTold` |

**Bundles.** `usage_reports`, `chat` and `console` check several components in one
run. The variable `part` says which of them moves in a behaviour; the others, which
have variables of their own, keep their initial values. A property is that of the
module's instance, together with its `TypeOK`; those of the chat and the console are
defined in `Chat` and `Console`, and speak of the behaviours of one part.

**Why these bounds are enough to be interesting.** Two deliveries are what it
takes to race or to be redelivered; two workers, for a job to be run again
while a run without lock goes on; two attempts and one stall reach both ways of
ending (dead-lettered and stalled out), and the counters between them; one replay
can come at any moment; three faults combine a crash, a lost write and a lost
enqueue. Rows do not interact except through the body, hence one id where all
actors vary and two of one body where that matters. Two faults at one job are one more than
the queue forgives (`MaxStalled`, BullMQ's default of 1): the job is given up with attempts left. Two grants are what the
choice of the longest-lasting one needs, and a sweep that takes one leaves
another; two calls are a race; TTL 3 with a transaction timeout of 1 satisfies the
assumption as tightly as it can. Three events in pages of two, two pages a run,
make a run of several pages, a capped run, and a cursor that is set back.
One conversation and two calls give reply against reply, reply against priority and either
against the sweep; with due-times one and two ticks after a change and a warning of
one tick, every SLA state is reached on time and late. That the sweep may leave rows out
(`Take`) takes several conversations: the theorems cover it, the run does not.
Two runs of one webhook are a retry or an overlap, a third request that is due later makes
the sweep of one choose, and one operator can complete, and complete again, at any moment.

A day of one instant, weeks of two days and quarters of four put events inside and
outside each window within four days; two shops differ in what they have reached, and one
day has both; a failing step leaves a day half stored for the readers, a deletion falls between
the two reads of a rollup. Of the rollups in turn each kind follows each other, over two days; any two at
once, of the same day or not, interleave statement by statement while the clock stands still (`Bounded` in
`MCUsageReports`), and the last event comes in at any of their steps, so that they read different mirrors. Two tabs are a race between
agents, one tab with two conversations a selection that changes. Two texts are one
lost and one kept. Two administrators, slugs and rows make two saves of one file
name; a flag that is deleted and created again, with one override, shows what survives; four
audit rows of which three are answered make the limit bite; four calls of a
record, or three and a write, cross and follow each other; pages of two and three over four
merchants have a last page that is short, and that another page size does not have. Two overlapping rollups
with one shop race, with two shops miscount. Two evaluations race; one rule over three
turns begins, ends and begins an episode. Windows of two and one, and of three and
one, tell long from short; each severity fires. Supplies are split where one large
supply would exceed minutes: what is varied together is what one property speaks of.

Symmetry is used in `webhook_safety`, on deliveries, workers and replays, and in
`chat`, on widgets, which the specifications treat alike; never with liveness.
All runs set `CHECK_DEADLOCK FALSE`: faults, calls and events run out, and then
the bounded system rests.

**Fairness.** `WebhookPipeline`: a request that has started goes on, the queue
hands out waiting jobs, timers and lock expiry fire, promises settle, a run that
is alive takes steps. Nothing is owed by Shopify, operators, eviction or faults.
`BreakGlass`: time passes, the repeatable rollup comes round, and a sweep goes
through its list. No user owes anything. `UsageIngest`: the repeatable job comes
round, a fetch answers or fails (the HTTP client gives up in the end), a
transaction ends. `ConversationSla`: the sweep's job comes round with its retries and
goes through its list; nobody has to reply. `Compliance`: the sweep's job comes round and is retried; neither the
webhook's job nor the app nor an operator owes anything. All of it is weak fairness.
The bundles state no liveness: what their pages and jobs owe is said of the states in
which nothing is awaited.

### What the violated runs show

- `webhook_lost`. The insert commits, `add()` fails, the route answers 500. The
  redelivery has the same content hash, is taken for a duplicate and answered
  with 200. The event stays RECEIVED, without a job, and is not even in the
  failed-delivery list. `AckedIsSettled` holds only without faults of the route.
- `usage_redacted`. A page is fetched, the shop's purge commits, the page is
  inserted. The rows stay until the retention prune.

`AckedIsSettled`, which holds, says less than "handled or dead-lettered". A job whose runs crash or lose
their locks more often than `MaxStalled` is given up by the queue with attempts left, and the listener
then only marks its row FAILED (`webhookProcess.ts:104`): no dead letter and no audit row, but the
failed-delivery list shows it, provided that the mark is not lost. And a verified delivery that the
forensic row of a refused one shadows is not run. `Ended` and `Settled` name both.

### Statements that the modules hold and the code refutes

These definitions quote a comment or a specification, and have counterexamples; no run
lists them. To see one, name it in a cfg of its module.

| Definition | Counterexample |
|---|---|
| `WebhookPipeline!FailedIsRetriable` ("still retriable", `webhookService.ts:242`) | Attempt 1 fails and its FAILED mark is slow; attempt 2 writes PROCESSED; the mark lands. The row says FAILED for ever. |
| `BreakGlass!EndedNeverAuthorizes` (cp-break-glass-rbac, "SHALL NOT authorize access") | An approval reads REQUESTED, a revocation commits, the approval commits ACTIVE: a revoked grant authorizes. `JustifiedAccess` does hold: the approval is in the log. |
| `ConversationSla!MetNotFlagged` (cp-inbox-sla, MET "is not flipped") | The sweep lists a conversation, the reply comes in time and makes it MET, the sweep writes BREACHING over it. |
| `PlanChanges!ExactlyOneAlert` ("exactly one", `billingMonitor.ts:70`) | The alert's transaction commits, the run dies before the event is marked, the retry raises another. |
| `MerchantGrowth!ReinstalledIsActive` ("reappears active", `growthMetricsService.ts:42`) | `connectorShops` leaves no uninstalled shop out: the next rollup records every churned shop that the replica still lists as reinstalled. |

### What else reading the code for the models showed

The properties name these as their exceptions, each with the observation variable that excuses it:

- Chat. A second message of a ringing conversation rings a tab again with no banner to
  silence it (`agentChatSocket.tsx:307`). An editor that comes back from the preview is empty
  while the draft is not (`ConversationComposer.tsx:90`). The success of a note clears a
  draft begun since, a canned reply restores the draft it was picked over, a reply without a
  connection is gone. The sidebar's canned reply replaces the draft (`inbox.tsx:88`), a change of the list's
  filter clears it (`inbox.tsx:117`), and leaving the page discards it. An un-awaited `markRead` may count a
  message as read that the agent left before it was fetched, or whose invalidation joined the thread's first load
  after the server had read the history without it: the message then is neither shown nor unread. The first of two tabs to close takes an agent offline (`presence.ts:14`).
  A note that has an attachment and no text is refused (`chat.ts:105`).
- Pages. The keys of the query cache do not name the app, and the links of the navigation
  drop it from the address. A change made while a list is being loaded for the first
  time is not shown; a reveal's audit row is not refetched.
- Directory. Nothing sets the page back when matches become fewer (`merchants.tsx:142`): a page that was
  there a moment ago then says "No merchants found" although merchants match.
- Audit page. Where nothing is chosen the sidebar highlights the first row's handler, and
  follows whoever acts next (`audit.tsx:253`).
- Records. Two scores at once overwrite each other (`csatService.ts:46`), two survey answers
  are both kept, two first messages open two conversations; the removal of a conversation
  tag is audited although none was there.
- Flags. An override that survives its flag applies when the key is created again;
  an evaluation may combine flags and overrides of two moments.
- Plans and billing. A fallback may name a conversation without its message
  (`planChangeService.ts:203-213`); the subscription reader is bound to one app
  (`billingService.ts:98`).
- Alerts and operations. If a rule is removed while it is evaluated, the rest of the
  evaluation is lost. An error ratio can exceed 1, since failed and received are counted of different
  rows (`opsMetricsService.ts:312`); a short history lets one sample page; a queue whose Redis is
  out of reach is shown as idle; the growth and usage queues are not monitored.
- Usage pages. The top actions may be of an older day than the tile beside them
  (`usageReadService.ts:278`), a funnel's conversion may exceed 1 (`:153`), and a series has
  gaps where a day has no row.

## 4. Proofs

TLAPS proves, for every value of the constants that satisfies the modules'
assumptions:

| Theorem | Assumptions and argument |
|---|---|
| `WebhookPipelineProofs!TypeCorrect` | by the actions |
| `...!EnqueuedOnceHolds` | The invariant adds `Named` (a code in progress has its row's id), `OneCreator` (at most one delivery is between insert and enqueue, or has enqueued, and then the row is verified) and `ReplayAudited` (a replay past its transaction has its audit row). `EnqueuedOnce` alone is not inductive: it does not say why the second insert cannot succeed. |
| `...!AttemptCeilingHolds` | `OneHolder`: at most one run holds a job's lock, and only of an active job. `Budget`: `taken <= attemptsMade + stalledCount`, plus one while active; a live job has `attemptsMade < MaxAttempts` and `stalledCount <= MaxStalled`. |
| `...!DeadLetteredOnceHolds` | The same invariant: a dead letter starts only where a live job ends, and a live job starts only with a submission, counted by `Cardinality`. |
| `...!SubmittedOnceHolds` | `EnqueuedOnceHolds` and `DeadLetteredOnceHolds` together; this is what the run checks. |
| `...!ProcessedWasHandledHolds` | `HandledFirst`: a run past its handler has been counted. |
| `...!KeepsPromiseHolds` | The refinement, with the invariants above. `OnRecord`: whoever has submitted an event is a delivery of it or a replay that was audited first. `HandlingsPaid`: what was handled, the runs yet to handle and the runs that the job has left are together at most `MaxAttempts + MaxStalled` for each submission. Then the insert is `Record`, the replay's transaction `Ask`, `add()` `TakeOn`, the effect `Handle`, the dead letter `Bury`, the marks `Show`, and all else stutters. |
| `BreakGlassProofs!TypeCorrect` | by the actions |
| `...!JustifiedAccessHolds` | `Traceable`: an ACTIVE grant's expiry is one TTL after an approval or self-activation in its trail. `Justified`: a use in progress keeps its justification, because trails only grow. |
| `...!ExpiredIsOverdueHolds` | `NotYetOver`: what the sweep has listed stays overdue, since an approval in progress cannot still commit on a grant that has lived for a TTL. This uses `2 * TxTimeout < TTL`; in the default configuration, 5 seconds (Prisma's) and 30 minutes. |
| `UsageIngestProofs!TypeCorrect` | by the actions, with `PagesAre` |
| `...!NothingSkippedHolds` | Any number of drains. `PagesWhole`: a fetched page holds every event between the drain's position and the page's end, except the redacted. `Behind`: everything up to a drain's position is accounted for. Neither the cursor's order nor who set it matters. |
| `...!ExactlyOnceHolds` | Assumes one drain at a time. `InStep`: a drain's position is the cursor. Then `Commit` is `Extend`, the deletions are `Prune` and `Redact`, and all else stutters. |
| `...!FeedCoversHistoryHolds` | Of `ActivityTab`, for any events, page size and gap (`Configured`). `TabInv`: what is shown descends strictly to the cursor, and no event owed at or above the cursor is missing; the property alone speaks of the last page only. A page is the newest of the older rows and its cursor their least (`RankNumbers`, `PageIs`). The sessions count each event once because each place is in one part (`PartsCover`), and a bijection from places to steps counts them (`SessionsCount`). |
| `...!DaysAreComputedHolds` | Of `UsageReports`, for any events, features, steps, windows, jobs and failures (`Configured`). `RepInv`: a row is one per key; a job between its reads and its writes holds the points of two reads, `M` and `W`, each of events there have been (`JobReads`, `JobWrites`), and those it has written are stored. Each clean job has read the mirror as it is (`clean`), and while nothing was ever deleted every row stored is of a kind the mirror still gives (`KindsGiven`), as more events give more (`KindsGrow`). There are any number of workers (`JobsSound`: each one's job is sound): what a job has stored is still there, or another has crossed it and it is not `alone`; one with the same points changes nothing. A day that is half stored, because a job failed or was crossed, stays `torn` until a job finishes it alone. |
| `...!DaysAgreeHolds` | from the same invariant and the arithmetic alone: `PointValue` says what the one point of a metric and a dimension is, `FamiliesAgree` compares them, `ActionsCount` counts events by name (`TotalOfGroups`) |
| `...!DashboardsAgreeHolds` | `DaysStored`, part of `RepInv`: a day that has any row has its first, so the newest active shops are of the newest day of all; a day not torn has the points of two reads stored and a KPI row beside them (`Holds`), and no later KPI row, whichever of several jobs has stored them. Then what the readers find are the numbers of these two reads (`NewestScalar`, `NewestDimension`); weeks are parts of all days (`TotalGrows`), and a week without rows sums to nothing. `ReadersAgree` speaks of the newest day only, and is not inductive. |
| `ConversationSlaProofs!TypeCorrect` | by the actions; due-times are null exactly without a priority |
| `...!RepliedIsStampedHolds` | `StampInv`. `CallPast`, `RowPast`: the times a call or a row holds are those of replies that came. `Kept`: an answered conversation is stamped, or a call that will stamp it is in progress, or its call failed. |
| `...!SerialIsTruthfulHolds`, `...!SerialMetNotFlaggedHolds` | `SerialInv`, of the conversations that are not disturbed. `Alone`: one operation at a time. `SlaTrue`, `RestTrue`: what the columns say, with and without a reply on its way. `CallTrue`, `FlagTrue`: what a call or the sweep has read is still so. `Bystander` disposes of the steps that are about another conversation. Any number of conversations, calls and sweeps. |
| `...!ColumnsAreTrueHolds` | `SerialIsTruthfulHolds` and `RepliedIsStampedHolds` together; this is what the run checks. |
| `ComplianceProofs!TypeCorrect` | by the actions |
| `...!StatusIsTrueHolds`, `...!HandledIsTrackedHolds` | `StageInv`: what a request can say, by the stage of its run. A handled run has marked its request, or an operator has completed it; `StatusIsTrue` alone does not tell why a mark finds the app's consent. |
| `...!RequestsAreTrueHolds` | the two together; this is what the run checks |
| `...!CompletedIsFinalHolds` | The same invariant: only `Record` on an absent row and the marks of the request's own run write another status. |
| `...!CompletedIsPurgedHolds` | inductive with the types |
| `JobsProofs!EpisodeIsToldHolds` | Any number of rules and evaluators. `EpisodeInv`, of the rules that are not loose. `Synced`: the stored state, the last notice and the last audit row agree, when nobody has the rule in hand. `Hand`: whoever has it decided by what the rule remembers, and has told, audited or stored as far as its step says. `Episode`: one evaluation at a time. |
| `...!PlansAreKnownHolds` | `RequestsInv`: per request, what its status, its call and the app's acceptance can be together. `SubscriptionInv`: one read at a time, which brings nothing older than what was told. `CapInv`: each alert of an event is audited, and a run that has raised counts. |
| `...!GrowthIsToldHolds` | Finitely many shops, for the counts. `ClockInv`: what a job holds is of a time that has come, its own. `TurnInv`, of shops that two jobs did not handle at once: uninstalls and reinstalls alternate (`ByTurns`), at most one job is about to write (`OneHand`), what it read is still so (`StillSo`). `ScoreInv`: the snapshots are in the order of time and the newest is the band told; the at-risk gauge counts the shops scored so at its time. `KpiInv`: a count in progress holds a number that the replica had since it began. |
| `...!SloIsToldHolds` | Rates and attempts are positive, a short window is not longer than its long one (`Configured`). `CauseInv`: counts, samples and alerts have a webhook that failed behind them. `SaidInv`: what was audited was signalled, and it is quiet only where no page is due. The sum over a window is a recursive function, whose equation is proved by least elements. |
| `ConsoleProofs!RecordsAreToldHolds` | `CallSound`: what a call will say was there before is what it saw, and it saw a record below its limit. `RecordsInv`: the last audit row of a record says its value; the chain of rows breaks, and a limit is exceeded, only where two calls crossed. |
| `...!FlagsAreToldHolds` | `OverridesInv`: an override that was not raced is what the log tells of it. `Evaluates`: an evaluation may tell of a flag what flag and override were at one moment since it began, unless both moved meanwhile (`MayTell`). |
| `...!CatalogIsWholeHolds` | `ImageInv`: a live row's file is there, or the last upload under its path was for another row (`RowSound`, `Safe`); the same of a form, of an upload on its way and of an update between its transaction and its unlink. `DefaultInv`: the default is a live row's slug, or the race that removed it is noted. |
| `...!PagesShowOwnChangesHolds` | Any set of pages. `Sound`: a mutation's refetches reach every query of its page that reads what it writes; TLAPS proves it of each page listed. `FetchInv`, `OwesInv`: a request answers with what was there when it was sent or later, and for each own change a query owes there is a request in progress, a refetch to come, or rows that show it. |
| `...!DirectoryIsWholeHolds` | Finitely many shops at first; any searches and page sizes (`Paged`). `Places`: ranks number the matches from the first to the last, in one strict order. `HistoryInv`: there is a table for each version, and every answer kept or shown is a page of the table of its version (`WasRead`); so answers of one version are pages of one table, and such pages are whole (`PagesAreWhole`), whatever has been written before or since. `WalkedInv`: whoever is on a page turned to it from the one before, by whose answer it was there; so a page without rows, of which matches are counted, is of a later table. `DirectoryIsWhole` alone says neither what the pages to come will hold nor how the page was reached. |
| `...!TrailAgreesHolds` | Any rows, filters, limit and order of answers (`Filed`). `QueryIsNewest`: ranks by `Cardinality` put the rows that match in order, and an answer is the first of them. `TrailAnswered`, `TrailAsked`: the rows kept for a filter are a query's answer at the moment last read, and a query in progress has not read earlier; appending changes no such answer (`QueryStays`). `TitleCounts`, `GroupsCount`: the trail is counted beside its title, and a bijection from rows to ranks within their groups counts each row once. |
| `ChatProofs!SentIsWrittenHolds` | `WriterInv`: texts in the draft, the editor, a pick or a note in progress were written for the conversation named beside them, or a mark says why not (`OwnTexts`); what was sent inherits its draft's marks. |
| `...!NothingElseLostHolds` | inductive, with what a note in progress holds (`NoteInv`): each text ever typed is in the draft, in what was sent, or in one of the two sets of the named ways (`Found`); a note whose page was left is still stored |
| `...!ReadMeansFetchedHolds` | `ReadInv`, of conversations that are neither `blind` nor `joined`: each message counted as read some tab has fetched, or its request was read with it or is yet to be read (`Brings`), or a tab that shows the conversation has the message on its way to it (`Opened`, `Held`) and asks again when it comes, or else puts the conversation among the `joined` (`Fetches`). It comes with `BannerInv`: a tab rings for the conversation of its banner. |
| `...!AnsweredIsSilentHolds` | `AnsweredInv`, of conversations not answered late: once assigned, no new call is announced (`NoNew`), and whatever rings has a "taken" behind it in its tab's pipe or in a join that has yet to tell (`Silenced`, `Closed`, `ToTell`). |
| `...!WidgetsShowConversationHolds` | No assumption. `PostsInv`, `HistoryInv`: what has been posted to the room, and what a history holds. `ShownInv`: each widget's pipe has a cut, its last history still to come (or none), and the screen at the cut with the messages after it hold every message told, each once (`Once`, `Due`); `ShowsConversation` says nothing of the pipe and is not inductive. |

The theorems of `JobsProofs`, `ConsoleProofs` and `ChatProofs` are of the bundles
that the runs check. A component's own theorem comes first (`AlertsSafety`, `PagesSafety`,
`WidgetsSafety`, ...: of its `Spec`, for all values of its constants); in a behaviour of
the bundle `part` never changes, and while it is the component's the bundle's
steps are steps of the component. Their assumptions on constants (`ConstantsAssumption` of `Console` and
of `Chat`) type the bounds and say no more of the program than its configuration does: numbers are
numbers, limits are positive, the default app is an app, the seed a slug, a short window is no
longer than its long one. That of `MirrorReaders` adds one thing the code does not see to: the app's events have
names. The empty dimension marks a number without one, so the actions shown would leave out events without a name.

Three attempts failed because a model or a property was wrong. A selected conversation cleared, with its
attachment, the mark of a canned reply that was still being rendered, so `SentIsWritten` was false
where an upload, a reply and two selections meet (`Composer` now has a mark of its own for uploads, and a
supply of the run reaches the case). A file that a later upload for another form had overwritten
still counted as the row's, so `CatalogIsWhole` was false with three uploads and one save, beyond the run's
bounds (`BadgeGraphics`, `fresh`). That the newest day's shops are among its month's is false when
events are deleted between the two reads of one rollup: the day read first can then have more shops than the month
read after it. No day of the run's history had two shops; now one has, and `ReadersAgree` says it where
nothing has been deleted.

Each inductive invariant has an initialisation step, one step per action and
one per conjunct the action can disturb; `PTL` closes the temporal part. The
`ASSUME`s of the modules are evaluated by every run. `SerialMetNotFlagged` and
`CompletedIsFinal` are proved and in no run.

Model-checked only: the liveness properties (`AckedIsSettled`, `JobsFinish`,
`ActiveEnds`, `AllMirrored`, `OverdueIsFlagged`,
`UrgentIsSurfaced`), as temporal proofs under fairness are out of the
prover's reach; and the violated properties, for
which a counterexample is the result.

## 5. Not modelled

BullMQ, PostgreSQL, Prisma, Socket.IO and React Query are modelled as far as the code's use
of them shows; their own algorithms are taken as given. One app is modelled (two in
`ConsolePages`): its key separates all rows. Left aside: layout and styling, formatting, HMAC and hashing,
image processing, the upload of chat attachments, browser notifications, Slack's and the app's own side of
a call, deployment scripts, seeds. RBAC and sessions check one request against one
row; the role change and the session row that a cookie login writes (which puts a changed
role back, without an audit row) are the next small module. `PROJECT.json` gives the reason for each component.

## 6. Plan

Done: (1) webhook pipeline, (2) break-glass, (3) usage ingest and its abstract
specification, (4) the SLA of conversations, (5) compliance, with their theorems;
(6) the usage reports with their readers, (7) the chat, (8) the console's pages and parts,
(9) plans, growth, alerts and operations; the safety of all of them is proved; (10) the abstract promise of the pipeline and its
refinement. The order was by what fails worst: lost or repeated
merchant events, then protected data, then data that is silently wrong, then what is shown.

Next:

1. "One alert per episode" as an abstract specification, implemented by `UsageAlerts`
   with one evaluator.
2. Liveness of `PlanChanges` (a request settles) and `UsageReports` (a day that is
   rolled up again heals).
3. `Sessions`: cookie login, role changes and the checks that read them.
