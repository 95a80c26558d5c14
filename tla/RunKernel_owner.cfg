SPECIFICATION Spec
CONSTANTS
  NumSteps = 2
  NeedsApproval = {2}
  MayDeny = {1}
  External = {}
  RetrySafe = {1}
  Consumers = {c1}
  Planners = {p}
  Proposers = {p}
  Approvers = {a}
  Rejecters = {}
  Reviewers = {r}
  Nobody = Nobody
  MayCancel = TRUE
  MayNeedReview = TRUE
  MaxCrashes = 1
  MaxStalls = 0
INVARIANTS
  Consistent
  ApprovalBeforeWork
  CompletedHasEvidence
PROPERTIES
  ImplementsContract
