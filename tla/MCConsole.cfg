\* Pages: two apps; each page for three moves, the merchant's and the inbox for two.
\* Badges: two administrators, two slugs and two rows, in four supplies of up to two
\* uploads, saves and removals.  Flags: one flag, shop and administrator, and four changes.  Trail:
\* four rows of which a query answers with three, three filters, and three clicks.  Records: four
\* calls about each kind of record.  Directory: up to four shops whose rows change, pages of two and three,
\* and up to three commands.  Plans: two requests, or two changes and four reads, or two events of
\* four runs.  Growth: two shops, two rollups at once, six supplies.  Alerts: two evaluations at once of
\* one rule and three changes, or two rules and one change.  Operations: two webhooks over four ticks, one
\* with a failing job, or a queue that moves three times.
SPECIFICATION ConsoleSpec
CONSTANTS
  Parts = {"pages", "badges", "flags", "trail", "records", "directory", "plans", "growth", "alerts", "slo"}
  Apps = {"A", "B"}  DefaultApp = "A"  Tours <- MCTours
  Admins = {"a", "b"}  Slugs = {"s1", "s2"}  Names = {"f", "s1"}  Seed = "s1"  MaxRows = 2
  BadgeSupplies <- MCBadgeSupplies
  Operators = {"a"}  Flags = {"f"}  Shops = {"s1"}  Bucket <- MCBucket  Percents = {0, 1}  MaxChanges = 4
  Events <- MCEvents  Begun <- MCBegun  Filters <- MCFilters  Limit = 3  MaxLog = 4  MaxMoves = 3
  Foci <- MCFoci  Texts = {"a", "b"}  Cap <- MCCap  MaxCalls = 4
  Stores = {1, 2, 3, 4}  Plan <- MCPlan  Words <- MCWords  Matches <- MCMatches  PageSizes = {2, 3}
  DirectorySupplies <- MCDirectorySupplies
  Readers = {"p", "q"}  TTL = 1  PlanSupplies <- MCPlanSupplies
  Merchants = {"s1", "s2"}  Jobs = {1, 2}  Signals <- MCSignals  GrowthSupplies <- MCGrowthSupplies
  Evaluators = {1, 2}  Keys = {"k"}  Settings <- MCSettings  Deltas <- MCDeltas
  AlertSupplies <- MCAlertSupplies
  Lookback = 1  Tiers <- MCTiers  Units = 6  Attempts = 2  Liveness = 1  SloSupplies <- MCSloSupplies
CHECK_DEADLOCK FALSE
INVARIANTS
  PagesShowOwnChanges
  CatalogIsWhole
  FlagsAreTold
  TrailAgrees
  RecordsAreTold
  DirectoryIsWhole
  PlansAreKnown
  GrowthIsTold
  EpisodeIsTold
  SloIsTold
