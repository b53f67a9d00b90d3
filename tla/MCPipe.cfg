SPECIFICATION FairSpec
CONSTANTS
  Writers = {w1, w2}
  Readers = {r1}
  Vals = {v1, v2}
  PIPESIZE = 2
  CountMod = 4
  Count0 = 3
  MaxWrite = 3
  MaxRead = 2
CHECK_DEADLOCK FALSE
INVARIANT SleepersHaveReason
PROPERTIES InOrder CallsReturn
