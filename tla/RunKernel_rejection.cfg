SPECIFICATION Spec
CONSTANTS
  NumSteps = 1
  NeedsApproval = {1}
  MayDeny = {}
  External = {1}
  RetrySafe = {}
  Consumers = {c1}
  Planners = {p}
  Proposers = {p}
  Approvers = {a}
  Rejecters = {x}
  Reviewers = {}
  Nobody = Nobody
  MayCancel = FALSE
  MayNeedReview = FALSE
  MaxCrashes = 0
  MaxStalls = 0
INVARIANTS
  RejectionIsFinal
