SPECIFICATION DeskSpec
CONSTANTS
  Runs = {r1}
  Owners = {o1, o2}
  Orders = {w1}
  None = None
  LeaseMs = {1}
  MaxTime = 2
  MaxSetBacks = 1
  MaxEntries = 3
  MaxGrants = 3
  Turns = {t1}
  Servers = {s1}
  MaxRounds = 1
  MaxReports = 0
  MaxDelay = 2
  MaxRecent = 1
  MaxDeaths = 1
  MaxBridgeDeaths = 1
  MaxDeliveries = 2
  Tasks = {t1, t2}
  Visits = {v1}
  MaxRemovals = 5
  MaxBoots = 2
  FixedPort = TRUE
  MaxCrashes = 1
  MaxSweeps = 1
  MaxRequests = 1
  MaxAsks = 1
  Works = {w1}
  Sizes = {1, 3}
  Budget = 3
  HistoryTurns = 2
  SummaryRoom = 1
  Window = 3
  Grace = 1
  MaxTurns = 3
  MaxClock = 2
  MaxThreadCrashes = 1
  Judged = {1, 2, 3, 4}
  Recalled = {1, 2}
  Alike = {2, 3, 4}
  MinRuns = 2
  MaxPending = 1
  Sweepers = {p1, p2}
  Requests = {q1}
  MaxDecisions = 2
  MaxFlips = 1
  Library <- SomeLibrary
  Restates <- SomeRestates
  Questions <- SomeQuestions
  MaxResults <- SomeLimits
  UsedBefore <- SomeUses
  Found <- SomeFound
  UsageCap = 1
  MaxItems = 2
  MaxCharacters = 12
  MinScore = 15
  MaxRecalls = 2
  MaxArchivals = 1
  Fields = {"effort", "model"}
  Values = {"low", "high"}
  NoValue = NoValue
  Clicks = {k1, k2}
  MaxReviews = 1
  MaxEdits = 1
  MaxClicks = 2
  MaxFalls = 1
SYMMETRY OwnerSymmetry
INVARIANTS
  ClaimsInv
  BridgeInv
  CompanionInv
  ShownInv
  ContextInv
  
PROPERTIES
  HandOver
  DeskSteps
CHECK_DEADLOCK FALSE
