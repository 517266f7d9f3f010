\* Two admins at once, no failure.
CONSTANTS
  Workers = {w1, w2}
  Functions = {f1}
  Roles = {sanitizer}
  Mangle <- DistinctNames
  FailAt = {}
  MaxRequests = 2
  MaxCrashes = 0
SPECIFICATION Spec
CHECK_DEADLOCK FALSE
PROPERTY AppendOnly
