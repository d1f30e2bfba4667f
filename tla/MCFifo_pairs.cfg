\* Two writers and two readers, each of which may be killed; files that are empty, or
\* do not fit into a pipe.
CONSTANTS
  Writers = {w1, w2}
  Readers = {r1, r2}
  Sizes = {0, 2}
  Room = 1
  NoName = NoName
SPECIFICATION FairSpec
\* A process may wait for its partner for ever.
CHECK_DEADLOCK FALSE
INVARIANTS OneFile Whole
PROPERTIES NamedEnds
