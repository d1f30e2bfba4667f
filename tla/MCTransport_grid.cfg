\* Three ranks with one, two and two columns of their own.
CONSTANTS
  Size = 3
  Nx = 5
  Nt = 4
  Value = {0, 1, 2}
  Zero = 0
  One = 1
  Late = Late
  Scheme <- Mixed
  Solution <- Solved
SPECIFICATION FairSpec
\* The ranks come to their end and stop.
CHECK_DEADLOCK FALSE
INVARIANTS Shares Sequential Gathered
PROPERTIES Ends
