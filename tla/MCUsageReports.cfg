\* Rollups: four events of two shops over four days, of which two pass, a day an instant long;
\* weeks, months and quarters of two, three and four days; backfills of two days.  In turn: two
\* jobs, or one job of two attempts and a failing step or a deletion.  Two at once: any two jobs,
\* with the last event ingested at any step of theirs.  Tab: six events, pages of two.
SPECIFICATION MCSpec
CONSTANTS
  DayLength = 1  Week = 2  Month = 3  Quarter = 4
  Features <- MCFeatures
  Steps <- MCSteps
  TopRules = 1
  MaxWeeks = 2
  OffsetText <- MCOffsetText
  Weights <- MCWeights
  PowerPercent = 90  RegularPercent = 50
  PersonaMin <- MCPersonaMin
  Workers = {w1, w2}
  History <- MCHistory
  Opening = 2  MaxNow = 3
  MaxDays = 2
  Attempts = 2
  Budgets <- MCBudgets
  Timeline <- MCTimeline
  PageLimit = 2
  SessionGap = 1
SYMMETRY MCSymmetry
CHECK_DEADLOCK FALSE
INVARIANTS
  DaysAreComputed
  DaysAgree
  DashboardsAgree
  FeedCoversHistory
