\* Two admins at once, a failing ledger write, one kill of the process.
CONSTANTS
  Workers = {w1, w2}
  Functions = {f1}
  Roles = {sanitizer}
  Mangle <- DistinctNames
  FailAt = {"ledger"}
  MaxRequests = 3
  MaxCrashes = 1
SPECIFICATION Spec
INVARIANTS TypeOK HumanApproved UniqueNames Chronological
SYMMETRY Symmetry
CHECK_DEADLOCK FALSE
