\* Either process may be killed, or take longer than the alarm, at any step.
CONSTANTS
  BITS = 8
  File <- TwoBytes
SPECIFICATION FairSpec
INVARIANTS Faithful Complete
PROPERTIES Ends
