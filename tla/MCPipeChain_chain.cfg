\* Three children; pipes smaller than the file.
CONSTANTS
  nchs = 3
  Input <- Seven
  BUF_SIZE = 2
  Unit = 1
  PipeRoom = 4
SPECIFICATION Spec
INVARIANTS Conserved NeverBlocks ClosedInOrder
PROPERTIES Copies
