SPECIFICATION Spec
CONSTANTS
  Orders = {a, b}
  MaxAttempts = 1
  HasWorkspace = TRUE
  UnsafeAdapters = TRUE
  MaxCrashes = 0
PROPERTIES
  CancellationFences
CHECK_DEADLOCK FALSE
