SPECIFICATION FairSpec
CONSTANTS
  NumSteps = 2
  NeedsApproval = {}
  MayDeny = {1}
  External = {}
  RetrySafe = {1}
  Consumers = {c1}
  Planners = {p}
  Proposers = {}
  Approvers = {}
  Rejecters = {}
  Reviewers = {}
  Nobody = Nobody
  MayCancel = FALSE
  MayNeedReview = FALSE
  MaxCrashes = 1
  MaxStalls = 1
INVARIANTS
  RunningIsOwned
  UnsafeAtMostOnce
PROPERTIES
  ComesToRest
