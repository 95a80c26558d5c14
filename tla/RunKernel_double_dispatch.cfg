SPECIFICATION Spec
CONSTANTS
  NumSteps = 1
  NeedsApproval = {1}
  MayDeny = {}
  External = {}
  RetrySafe = {}
  Consumers = {c1}
  Planners = {p}
  Proposers = {}
  Approvers = {}
  Rejecters = {}
  Reviewers = {}
  Nobody = Nobody
  MayCancel = FALSE
  MayNeedReview = FALSE
  MaxCrashes = 0
  MaxStalls = 0
INVARIANTS
  JournalReplayable
