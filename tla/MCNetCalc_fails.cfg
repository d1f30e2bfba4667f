\* Up to two of three servers fail, at any time.
CONSTANTS
  Server <- Three
  Cpus <- TwoAlike
  Grain = 6
  MayFail = {"accept", "limits", "calculate", "need"}
  MaxFails = 2
SPECIFICATION FairSpec
CHECK_DEADLOCK FALSE
INVARIANTS Whole InStep KilledLate
PROPERTIES Ends Served
