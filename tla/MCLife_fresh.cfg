\* One start; three workers, and more workers than rows.
CONSTANTS
  SizeX = 3
  SizeY = 4
  ITER = 3
  Patterns <- SomePatterns
  ThreadCounts = {3, 5}
  MaxRuns = 1
SPECIFICATION Spec
INVARIANTS Partition Barrier
PROPERTIES Synchronous
