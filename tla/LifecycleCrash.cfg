\* One admin, the process may be killed once.
CONSTANTS
  Workers = {w1}
  Functions = {f1, f2}
  Roles = {sanitizer}
  Mangle <- DistinctNames
  FailAt = {}
  MaxRequests = 3
  MaxCrashes = 1
SPECIFICATION Spec
INVARIANTS EvidenceFirst SummaryIsFinal DriftBounded RollbackEffective
CHECK_DEADLOCK FALSE
