SPECIFICATION WorkSpec
CONSTANTS
  Orders = {a, b}
  MaxAttempts = 2
  HasWorkspace = TRUE
  UnsafeAdapters = TRUE
  MaxCrashes = 1
  RunJobs = {j1, j2}
  TalkJobs = {t1}
  Poison = {j1}
  Foreground = q
  Background = d
  MaxMiningFailures = 1
  MaxMiningDeaths = 1
  Within <- SomeWithin
  Protected = {"keys"}
  TooBroad = {"home"}
  Workspace = "work"
  PolicyBook <- SomePolicies
  Steps <- SomeSteps
  Domains = {"files", "shell", "mail"}
  MaxChanges = 4
  MaxCalls = 1
  MaxLost = 1
  MaxReports = 1
  MaxDeaths = 1
INVARIANTS
  DispatchInv
  MiningInv
  AuthorityInv
  TurnAuditInv
PROPERTIES
  NothingAfterTheEnd
  WorkSettles
  TighteningNeverAllows
CHECK_DEADLOCK FALSE
