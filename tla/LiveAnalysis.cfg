\* Two runs of the command, a faulty network, kills.
CONSTANTS
  Functions = {f1, f2}
  Modes = {"live", "mock"}
  StartScans <- NoneOrOne
  Attempts = 2
  Polls = 2
  MaxRuns = 2
  MaxLost = 1
SPECIFICATION FairSpec
INVARIANTS TypeOK EvidenceChain UnaccountedBounded NoNeedlessCopies RescanNotOlder
PROPERTY RunEnds
CHECK_DEADLOCK FALSE
