\* One admin, the client may raise, no crash.
CONSTANTS
  Workers = {w1}
  Functions = {f1, f2}
  Roles = {sanitizer}
  Mangle <- DistinctNames
  FailAt = {"applied"}
  MaxRequests = 3
  MaxCrashes = 0
SPECIFICATION Spec
INVARIANTS LedgerAccurate FeedbackMatchesLedger
PROPERTY RefinesOverrideLog
CHECK_DEADLOCK FALSE
