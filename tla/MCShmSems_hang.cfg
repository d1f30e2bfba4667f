\* One writer, one reader, nobody is killed: does the reader end?
CONSTANTS
  w1 = w1
  w2 = w2
  r1 = r1
  Writers = {w1}
  Readers = {r1}
  Blocks <- LongAndShort
  MayFail = FALSE
  MaxKills = 0
SPECIFICATION FairSpec
PROPERTIES ReaderLeaves
CHECK_DEADLOCK FALSE
