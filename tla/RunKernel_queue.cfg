SPECIFICATION Spec
CONSTANTS
  NumSteps = 2
  NeedsApproval = {2}
  MayDeny = {}
  External = {}
  RetrySafe = {1}
  Consumers = {c1, c2}
  Planners = {p}
  Proposers = {p}
  Approvers = {}
  Rejecters = {x}
  Reviewers = {}
  Nobody = Nobody
  MayCancel = TRUE
  MayNeedReview = FALSE
  MaxCrashes = 1
  MaxStalls = 1
INVARIANTS
  StartedOncePerDispatch
  RejectionIsFinal
PROPERTIES
  NothingAfterTheEnd
