-------------------------------- MODULE Console --------------------------------
(* The console and its jobs, one part at a time: the pages, the badge catalog, the         *)
(* feature flags, the audit trail, the records that administrators share, the merchant     *)
(* directory, plan changes with their billing, the growth rollup, the alert rules and the  *)
(* operations rollup.  They share no state; a behaviour is about one of them, and the      *)
(* variables of the others rest.                                                           *)
EXTENDS ConsolePages, Integers, Sequences

CONSTANTS
  Parts,                                                    \* bound: the parts that move
  Admins, Slugs, Names, Seed, MaxRows, BadgeSupplies,       \* BadgeGraphics
  Operators, Flags, Shops, Bucket, Percents, MaxChanges,    \* FeatureFlags
  Events, Begun, Filters, Limit, MaxLog, MaxMoves,          \* AuditTrail
  Foci, Texts, Cap, MaxCalls,                               \* SharedRecords
  Stores, Plan, Words, Matches, PageSizes, DirectorySupplies, \* MerchantDirectory
  Readers, TTL, PlanSupplies,                               \* PlanChanges
  Merchants, Jobs, Signals, GrowthSupplies,                 \* MerchantGrowth
  Evaluators, Keys, Settings, Deltas, AlertSupplies,        \* UsageAlerts
  Lookback, Tiers, Units, Attempts, Liveness, SloSupplies   \* OpsSlo

VARIABLES
  part,      \* which of the ten moves
  graphics, default, files, form, uploads, edits, images, odd,
  flags, overrides, changing, page, pull, ruled, raced, changes,
  log, draft, applied, answers, asked, chosen, clicks, seen,
  rows, owned, calls, news, told, broken, crossed, focus, left,
  table, version, view, lists, listing, unlisted, walk, replica,
  reqs, taken, posted, audited, faulty, plan, instant, cached, reads, reader, newest, hooks, orders,
  active, listed, scores, deliverable, events, uninstalls, rolls, snaps, banded, gauges, kpis,
  counting, day, world, mixed,
  rules, state, delta, eval, notices, doubled, loose, supply,
  time, webhooks, wasBad, queue, job, samples, signals, audits, ended, tile, load

Badges == INSTANCE BadgeGraphics WITH
  Supplies <- BadgeSupplies, rows <- graphics, calls <- edits, supply <- images
Toggles == INSTANCE FeatureFlags WITH told <- ruled
Trail == INSTANCE AuditTrail WITH MaxRows <- MaxLog, cache <- answers, fetches <- asked, moves <- clicks
Shared == INSTANCE SharedRecords
Directory == INSTANCE MerchantDirectory WITH
  Shops <- Stores, Found <- Matches, Supplies <- DirectorySupplies,
  cache <- lists, fetches <- listing, failed <- unlisted, supply <- replica
Plans == INSTANCE PlanChanges WITH
  Supplies <- PlanSupplies, clock <- instant, cache <- cached, supply <- orders
Growth == INSTANCE MerchantGrowth WITH
  Shops <- Merchants, Supplies <- GrowthSupplies,
  signals <- scores, hooks <- uninstalls, clock <- day, supply <- world, odd <- mixed
Alerts == INSTANCE UsageAlerts WITH Supplies <- AlertSupplies
Slo == INSTANCE OpsSlo WITH Supplies <- SloSupplies, clock <- time, hooks <- webhooks, supply <- load

\* What the proofs suppose of the constants.
ASSUME ConstantsAssumption ==
  /\ Toured /\ Badges!Stocked /\ Shared!Allowed /\ Plans!Stocked /\ Growth!Stocked /\ Alerts!Numbers
  /\ Slo!Configured /\ Directory!Paged /\ Trail!Filed /\ MaxChanges \in Nat

-----------------------------------------------------------------------------
badges == <<graphics, default, files, form, uploads, edits, images, odd>>
toggles == <<flags, overrides, changing, page, pull, ruled, raced, changes>>
trail == <<log, draft, applied, answers, asked, chosen, clicks, seen>>
records == <<rows, owned, calls, news, told, broken, crossed, focus, left>>
directory == <<table, version, view, lists, listing, unlisted, walk, replica>>
plans == <<reqs, taken, posted, audited, faulty, plan, instant, cached, reads, reader, newest, hooks, orders>>
growth == <<active, listed, scores, deliverable, events, uninstalls, rolls, snaps, banded, gauges, kpis,
            counting, day, world, mixed>>
alerts == <<rules, state, delta, eval, notices, doubled, loose, supply>>
slo == <<time, webhooks, wasBad, queue, job, samples, signals, audits, ended, tile, load>>

allVars == <<part, vars, badges, toggles, trail, records, directory, plans, growth, alerts, slo>>

ConsoleInit ==
  /\ part \in Parts
  /\ IF part = "pages" THEN Init ELSE
       /\ last = 0 /\ clock = 0 /\ app = 0 /\ tour = 0 /\ open = 0 /\ visit = 0
       /\ cache = 0 /\ fetch = 0 /\ pending = 0 /\ failed = 0 /\ owed = 0 /\ moves = 0
  /\ IF part = "badges" THEN Badges!Init ELSE
       /\ graphics = 0 /\ default = 0 /\ files = 0 /\ form = 0
       /\ uploads = 0 /\ edits = 0 /\ images = 0 /\ odd = 0
  /\ IF part = "flags" THEN Toggles!Init ELSE
       /\ flags = 0 /\ overrides = 0 /\ changing = 0 /\ page = 0
       /\ pull = 0 /\ ruled = 0 /\ raced = 0 /\ changes = 0
  /\ IF part = "trail" THEN Trail!Init ELSE
       /\ log = 0 /\ draft = 0 /\ applied = 0 /\ answers = 0
       /\ asked = 0 /\ chosen = 0 /\ clicks = 0 /\ seen = 0
  /\ IF part = "records" THEN Shared!Init ELSE
       /\ rows = 0 /\ owned = 0 /\ calls = 0 /\ news = 0 /\ told = 0
       /\ broken = 0 /\ crossed = 0 /\ focus = 0 /\ left = 0
  /\ IF part = "directory" THEN Directory!Init ELSE
       /\ table = 0 /\ version = 0 /\ view = 0 /\ lists = 0
       /\ listing = 0 /\ unlisted = 0 /\ walk = 0 /\ replica = 0
  /\ IF part = "plans" THEN Plans!Init ELSE
       /\ reqs = 0 /\ taken = 0 /\ posted = 0 /\ audited = 0 /\ faulty = 0 /\ plan = 0 /\ instant = 0
       /\ cached = 0 /\ reads = 0 /\ reader = 0 /\ newest = 0 /\ hooks = 0 /\ orders = 0
  /\ IF part = "growth" THEN Growth!Init ELSE
       /\ active = 0 /\ listed = 0 /\ scores = 0 /\ deliverable = 0 /\ events = 0 /\ uninstalls = 0
       /\ rolls = 0 /\ snaps = 0 /\ banded = 0 /\ gauges = 0 /\ kpis = 0 /\ counting = 0
       /\ day = 0 /\ world = 0 /\ mixed = 0
  /\ IF part = "alerts" THEN Alerts!Init ELSE
       /\ rules = 0 /\ state = 0 /\ delta = 0 /\ eval = 0
       /\ notices = 0 /\ doubled = 0 /\ loose = 0 /\ supply = 0
  /\ IF part = "slo" THEN Slo!Init ELSE
       /\ time = 0 /\ webhooks = 0 /\ wasBad = 0 /\ queue = 0 /\ job = 0 /\ samples = 0
       /\ signals = 0 /\ audits = 0 /\ ended = 0 /\ tile = 0 /\ load = 0

\* The part that moves, and the others.
Moves(p) ==
  /\ part = p
  /\ UNCHANGED part
  /\ p # "pages" => UNCHANGED vars
  /\ p # "badges" => UNCHANGED badges
  /\ p # "flags" => UNCHANGED toggles
  /\ p # "trail" => UNCHANGED trail
  /\ p # "records" => UNCHANGED records
  /\ p # "directory" => UNCHANGED directory
  /\ p # "plans" => UNCHANGED plans
  /\ p # "growth" => UNCHANGED growth
  /\ p # "alerts" => UNCHANGED alerts
  /\ p # "slo" => UNCHANGED slo

ConsoleNext ==
  \/ Moves("pages") /\ Next
  \/ Moves("badges") /\ Badges!Next
  \/ Moves("flags") /\ Toggles!Next
  \/ Moves("trail") /\ Trail!Next
  \/ Moves("records") /\ Shared!Next
  \/ Moves("directory") /\ Directory!Next
  \/ Moves("plans") /\ Plans!Next
  \/ Moves("growth") /\ Growth!Next
  \/ Moves("alerts") /\ Alerts!Next
  \/ Moves("slo") /\ Slo!Next

ConsoleSpec == ConsoleInit /\ [][ConsoleNext]_allVars

-----------------------------------------------------------------------------
\* The properties of the modules, of their instances; each is well typed.
PagesShowOwnChanges == part = "pages" => TypeOK /\ OwnChangesShown
CatalogIsWhole == part = "badges" => Badges!TypeOK /\ Badges!CatalogIsWhole
FlagsAreTold == part = "flags" => Toggles!TypeOK /\ Toggles!FlagsAreTold
TrailAgrees == part = "trail" => Trail!TypeOK /\ Trail!TrailAgrees
RecordsAreTold == part = "records" => Shared!TypeOK /\ Shared!RecordsAreTold
DirectoryIsWhole == part = "directory" => Directory!TypeOK /\ Directory!DirectoryIsWhole
PlansAreKnown == part = "plans" => Plans!TypeOK /\ Plans!PlansAreKnown
GrowthIsTold == part = "growth" => Growth!TypeOK /\ Growth!GrowthIsTold
EpisodeIsTold == part = "alerts" => Alerts!TypeOK /\ Alerts!EpisodeIsTold
SloIsTold == part = "slo" => Slo!TypeOK /\ Slo!SloIsTold
=============================================================================
