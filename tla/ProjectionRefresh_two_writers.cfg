SPECIFICATION FairRefreshSpec
CONSTANTS
  Runtimes = {rt1, rt2}
  Writers = {rt1, rt2}
  Runs = {r1, r2}
  MaxRank = 1
  MaxRestarts = 0
PROPERTIES
  CreatedIsSeen
