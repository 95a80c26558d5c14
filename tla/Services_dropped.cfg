SPECIFICATION Spec
CONSTANTS
  Schedules = {s1}
  Daemons = {d1, d2}
  Pids = {p1, p2}
  MaxTime = 2
  MaxFaults = 1
  MaxRetries = 1
  Runners = {d1, d2}
  MaxDay = 2
  MaxSequence = 1
  MaxResends = 1
  MaxStops = 1
  Policies = {p1}
  MaxChanges = 3
  MaxReloads = 1
  Runtimes = {d1, d2}
  Writers = {d1}
  Runs = {r1, r2}
  MaxRank = 2
  MaxRestarts = 1
  report = report
  oldReport = oldReport
  abroad = abroad
  w1 = w1
  w2 = w2
  w3 = w3
  Settings <- SomeWorkers
  Phrases <- SomePhrases
  Proposals <- MixedProposals
  MaxProposals = 2
  Files <- SomeFiles
  Outside = abroad
  Names <- SomeNames
  DiffLike = {oldReport, abroad}
  Plans <- SomePlans
  Reports <- SomeReports
  MaxFileEdits = 1
  Ranking <- TheRanking
  Capable = {w1, w2}
  Categories = {"network", "unknown"}
  Inconclusive = {"unknown"}
  Words = {1, 2}
  MaxAttempts = 4
  Single = {1}
  Team = {2}
  Orders = {1, 2}
  Guarded = {1}
  MaxOrderAttempts = 2
  MaxDeaths = 1
INVARIANT NothingDropped
CHECK_DEADLOCK FALSE
