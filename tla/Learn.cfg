\* Two candidates, two analyses, two changes by other requests.
CONSTANTS
  Candidates <- Two
  Providers <- KeyOrNot
  Confidences <- High
  Adjustments <- Lowest
  Thresholds <- Laxer
  MaxRuns = 2
  MaxChanges = 2
SPECIFICATION FairSpec
INVARIANTS TypeOK EveryCandidateJudged OneGatePerRun HeldAfterRollbacks
PROPERTY AnalysisEnds
CHECK_DEADLOCK FALSE
