\* Two kills, and restarts with other numbers of workers.
CONSTANTS
  SizeX = 1
  SizeY = 2
  ITER = 3
  Patterns <- Crowded
  ThreadCounts = {1, 2}
  MaxRuns = 3
SPECIFICATION FairSpec
INVARIANTS WholeGeneration Allowed Tokens
PROPERTIES Ends
\* A run that inherits two tokens waits for ever.
CHECK_DEADLOCK FALSE
