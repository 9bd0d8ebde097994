\* One conversation over three ticks, two calls in progress at once, one sweep, one fault.
SPECIFICATION FairSpec
CONSTANTS
  Null = Null
  Convs = {"c"}
  SlaPriorities = {"HIGH"}
  ResponseDue <- MCResponseDue
  ResolutionDue <- MCResolutionDue
  Warning = 1
  Take = 1
  Calls = {"k1", "k2"}
  Sweepers = {"w"}
  Horizon = 3
  MaxFaults = 1
CHECK_DEADLOCK FALSE
INVARIANTS
  TypeOK
  ColumnsAreTrue
PROPERTIES
  OverdueIsFlagged
