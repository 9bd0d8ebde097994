\* Two runs of one webhook and one of another, one operator, two ticks, one alert at a time.
SPECIFICATION FairSpec
CONSTANTS
  None = None
  Runs = {"r1", "r2", "r3"}
  Events = {"shop", "customer"}
  EventOf <- MCEventOf
  Redacts = {"shop"}
  DueAt <- MCDueAt
  Configured = TRUE
  Threshold = 1
  Take = 1
  Calls = {"k"}
  Horizon = 1
CHECK_DEADLOCK FALSE
INVARIANTS
  TypeOK
  RequestsAreTrue
  CompletedIsPurged
PROPERTIES
  UrgentIsSurfaced
