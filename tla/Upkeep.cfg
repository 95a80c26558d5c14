SPECIFICATION UpkeepSpec
CONSTANTS
  Memories = {m1}
  Bodies = {"a", "b"}
  Personal = {"b"}
  Candidates = {c1}
  MaxMutations = 2
  MaxEdits = 1
  MaxHalts = 1
  Recurring = {"weekly"}
  OneOff = {"report"}
  Goals = {"goal"}
  Serving = {r1, r2}
  Reconcilers = {p1}
  MaxToday = 1
  MaxLost = 1
  Window = 0
  Quiet = 1
  MaxCards = 2
  MaxEvents = 3
  MaxRestarts = 1
  Files = {f1, f2}
  Bulky = {f2}
  NamedFiles = {f1}
  Budget = 2
  MaxOwnerEdits = 1
  MaxLosses = 1
  Within <- SomeWithin
  Protected = {}
  TooBroad = {}
  Workspace = "work"
  Places = {"a", "far"}
  Orders <- SomeOrders
  MaxModelRounds = 2
  MaxCalls = 2
  MaxToolCalls = 2
  MaxLines = 2
  MaxHappenings = 4
  MaxCrashes = 2
  Turns = {t1, t2}
  Servers = {s1}
  MaxRounds = 2
  MaxDeaths = 2
  MaxReports = 1
INVARIANTS
  RecordsInv
  OpportunitiesInv
  RecoveryInv
  ModelWorkInv
PROPERTIES
  RecoverySteps
  CommitmentsMoveOn
  UpkeepEnds
CHECK_DEADLOCK FALSE
