\* One analysis, nobody else at work: one malformed answer.
CONSTANTS
  Candidates <- Two
  Providers <- KeyOrNot
  Confidences <- High
  Adjustments <- Lowest
  Thresholds <- Laxer
  MaxRuns = 1
  MaxChanges = 0
SPECIFICATION Spec
INVARIANT BatchShielded
CHECK_DEADLOCK FALSE
