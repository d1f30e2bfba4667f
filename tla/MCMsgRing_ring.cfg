\* Any fork may fail; the turn then stops at the child that is missing.
CONSTANTS
  N = 8
  ForkMayFail = TRUE
SPECIFICATION FairRingSpec
CHECK_DEADLOCK FALSE
INVARIANTS RemovedLast
PROPERTIES Ordered Ends
