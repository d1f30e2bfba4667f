\* Two writers and a reader; read errors and signals.
CONSTANTS
  w1 = w1
  w2 = w2
  r1 = r1
  Writers = {w1, w2}
  Readers = {r1}
  Blocks <- LongAndShort
  MayFail = TRUE
  MaxKills = 2
SPECIFICATION FairSpec
INVARIANTS TypeOK OneWriter OneSource NoRace Clean
PROPERTIES Delivered SurvivorLeaves
\* The reader may wait for ever in its last semop.
CHECK_DEADLOCK FALSE
