\* One run, one function, no fault: the poll finds the scan that was there.
CONSTANTS
  Functions = {f1}
  Modes = {"live"}
  StartScans <- OneScan
  Attempts = 3
  Polls = 2
  MaxRuns = 1
  MaxLost = 0
SPECIFICATION Spec
INVARIANT FreshResults
CHECK_DEADLOCK FALSE
